------------------------- MODULE EventRunnerProofs -------------------------
(***************************************************************************)
(* For any number of threads, tasks and any set of delays: no task is lost *)
(* or run twice, and the loop implements TaskScheduler.                    *)
(***************************************************************************)
EXTENDS EventRunner, TLAPS

LEMMA TypeInit == Init => TypeOK
<1>1. <<>> \in Seq(Tasks)
  OBVIOUS
<1>2. [k \in Tasks |-> {}] \in [Tasks -> SUBSET Tasks]
  OBVIOUS
<1>3. [k \in Tasks |-> NoDue] \in [Tasks -> Nat \cup {NoDue}]
  OBVIOUS
<1>4. Init => mutexHeld \in BOOLEAN /\ isStop \in BOOLEAN
  BY DEF Init
<1>5. Init => post \in [Threads -> [task : Tasks, target : Nat] \cup {Idle}]
  BY DEF Init
<1>6. Init => queue \subseteq EventTask /\ ran \subseteq Tasks
  BY DEF Init
<1>7. Init => pc \in {"loop", "sampled", "collect", "flush", "task", "stopped"}
  BY DEF Init
<1>8. Init => clock \in Nat /\ order \in Nat /\ now \in Nat
  BY DEF Init
<1> QED
  BY <1>1, <1>2, <1>3, <1>4, <1>5, <1>6, <1>7, <1>8 DEF Init, TypeOK

LEMMA TypeStep == TypeOK /\ [Next]_vars => TypeOK'
<1> SUFFICES ASSUME TypeOK, [Next]_vars PROVE TypeOK'
  OBVIOUS
<1> USE DEF TypeOK, runVars, history
<1>1. CASE Tick
  BY <1>1 DEF Tick
<1>2. ASSUME NEW t \in Threads, NEW k \in Tasks, NEW d \in Delays,
             PostTask(t, k, d)
      PROVE TypeOK'
  <2>1. clock + d \in Nat
    BY RunnerAssumption
  <2>2. {u \in Accepted : due[u] <= clock + d} \subseteq Tasks
    BY DEF Accepted
  <2> QED
    BY <1>2, <2>1, <2>2 DEF PostTask
<1>3. ASSUME NEW t \in Threads, PushTask(t) PROVE TypeOK'
  <2>1. post[t] \in [task : Tasks, target : Nat]
    BY <1>3 DEF PushTask
  <2>2. [order |-> order + 1, task |-> post[t].task,
         target |-> post[t].target] \in EventTask
    BY <2>1 DEF EventTask
  <2> QED
    BY <1>3, <2>2 DEF PushTask
<1>4. CASE Run
  BY <1>4 DEF Run
<1>5. CASE LockQueue
  BY <1>5 DEF LockQueue
<1>6. CASE PopExpired
  BY <1>6 DEF PopExpired, EventTask
<1>7. CASE UnlockQueue
  BY <1>7 DEF UnlockQueue
<1>8. CASE StartTask
  <2>1. Head(copyTasks) \in Tasks /\ Tail(copyTasks) \in Seq(Tasks)
    BY <1>8 DEF StartTask
  <2> QED
    BY <1>8, <2>1 DEF StartTask
<1>9. CASE EndTask
  BY <1>9 DEF EndTask
<1>10. CASE EndRun
  BY <1>10 DEF EndRun
<1>11. CASE LeaveLoop
  BY <1>11 DEF LeaveLoop
<1>12. CASE Interrupt
  BY <1>12 DEF Interrupt
<1>13. CASE UNCHANGED vars
  BY <1>13 DEF vars
<1> QED
  BY <1>1, <1>2, <1>3, <1>4, <1>5, <1>6, <1>7, <1>8, <1>9, <1>10, <1>11,
     <1>12, <1>13 DEF Next, MainStep

(* The types hold in every reachable state of the loop and its queue.      *)
THEOREM TypeCorrect == Spec => []TypeOK
BY TypeInit, TypeStep, PTL DEF Spec

----------------------------------------------------------------------------
(***************************************************************************)
(* The inductive invariant.  A due time is fixed when the task is posted   *)
(* and travels with it; an accepted task is in exactly one place; and      *)
(* whatever a task may not overtake sits ahead of it.                      *)
(***************************************************************************)
PostInv ==
  /\ \A t \in Threads : post[t] # Idle => due[post[t].task] = post[t].target
  /\ \A s, t \in Threads :
       post[s] # Idle /\ post[t] # Idle /\ post[s].task = post[t].task => s = t

QueueInv ==
  /\ \A e \in queue : e.order <= order /\ due[e.task] = e.target
  /\ \A e, f \in queue : e.order = f.order => e = f

PlaceInv ==
  /\ NoTaskLostOrDoubled
  /\ pc \in {"loop", "sampled", "stopped"} => copyTasks = <<>>
  /\ pc = "collect" => mutexHeld

TimeInv ==
  /\ now <= clock
  /\ \A i \in DOMAIN copyTasks : due[copyTasks[i]] <= clock

Ahead(e) ==
  ran \cup Copied \cup {f.task : f \in {g \in queue : Precedes(g, e)}}

AfterInv ==
  /\ \A k \in Tasks : \A u \in after[k] : u \in Accepted /\ due[u] <= due[k]
  /\ \A e \in queue : after[e.task] \subseteq Ahead(e)
  /\ \A i \in DOMAIN copyTasks : \A u \in after[copyTasks[i]] :
       u \in ran \/ \E j \in 1..(i - 1) : copyTasks[j] = u
  /\ \A k \in Tasks : due[k] = NoDue => after[k] = {}

IInv == TypeOK /\ PostInv /\ QueueInv /\ PlaceInv /\ TimeInv /\ AfterInv

LEMMA PostTaskPlaces ==
  ASSUME TypeOK, PostInv, NEW t \in Threads, NEW k \in Tasks, NEW d \in Delays,
         PostTask(t, k, d)
  PROVE  /\ Posting' = Posting \cup {k}
         /\ Accepted' = Accepted
         /\ k \notin Accepted
<1>1. post'[t] = [task |-> k, target |-> clock + d]
  BY DEF PostTask, TypeOK
<1>2. \A u \in Threads \ {t} : post'[u] = post[u]
  BY DEF PostTask, TypeOK
<1>3. post[t] = Idle /\ post'[t] # Idle
  BY <1>1, RunnerAssumption DEF PostTask, TypeOK
<1>4. Posting' = Posting \cup {k}
  BY <1>1, <1>2, <1>3 DEF Posting
<1>5. due[k] = NoDue /\ due' = [due EXCEPT ![k] = clock + d]
  BY DEF PostTask
<1>6. clock + d # NoDue
  BY RunnerAssumption DEF TypeOK
<1> QED
  BY <1>4, <1>5, <1>6 DEF Accepted, TypeOK

LEMMA PushTaskPlaces ==
  ASSUME TypeOK, PostInv, NEW t \in Threads, PushTask(t)
  PROVE  /\ Posting' = Posting \ {post[t].task}
         /\ Accepted' = Accepted \cup {post[t].task}
         /\ post[t].task \in Tasks \ Accepted
         /\ post[t] \in [task : Tasks, target : Nat]
         /\ due[post[t].task] = post[t].target
<1>1. post[t] # Idle /\ post'[t] = Idle
  BY DEF PushTask, TypeOK
<1>2. \A u \in Threads \ {t} : post'[u] = post[u]
  BY DEF PushTask, TypeOK
<1>3. post[t] \in [task : Tasks, target : Nat]
  BY <1>1 DEF TypeOK
<1>4. due[post[t].task] = post[t].target /\ due' = due
  BY <1>1 DEF PostInv, PushTask, history
<1>5. \A u \in Threads \ {t} : post[u] # Idle => post[u].task # post[t].task
  BY <1>1 DEF PostInv
<1>6. Posting' = Posting \ {post[t].task}
  BY <1>1, <1>2, <1>5 DEF Posting
<1>7. post[t].task \in Posting
  BY <1>1 DEF Posting
<1>8. due[post[t].task] # NoDue
  BY <1>3, <1>4, RunnerAssumption
<1> QED
  BY <1>3, <1>4, <1>6, <1>7, <1>8 DEF Accepted

LEMMA SamePlaces ==
  ASSUME UNCHANGED <<post, due>>
  PROVE  Posting' = Posting /\ Accepted' = Accepted
BY DEF Posting, Accepted

LEMMA InitIInv == Init => IInv
<1> SUFFICES ASSUME Init PROVE IInv
  OBVIOUS
<1>1. TypeOK
  BY TypeInit
<1>2. Accepted = {}
  BY DEF Init, Accepted
<1>3. Queued = {} /\ Copied = {} /\ ran = {} /\ queue = {} /\ copyTasks = <<>>
  BY DEF Init, Queued, Copied
<1>4. PostInv
  BY DEF Init, PostInv
<1>5. QueueInv
  BY <1>3 DEF QueueInv
<1>6. PlaceInv
  BY <1>2, <1>3 DEF PlaceInv, NoTaskLostOrDoubled, Init
<1>7. TimeInv
  BY <1>3 DEF TimeInv, Init
<1>8. AfterInv
  BY <1>3 DEF AfterInv, Init
<1> QED
  BY <1>1, <1>4, <1>5, <1>6, <1>7, <1>8 DEF IInv

LEMMA PostTaskKeeps ==
  ASSUME IInv, NEW t \in Threads, NEW k \in Tasks, NEW d \in Delays,
         PostTask(t, k, d)
  PROVE  PostInv' /\ QueueInv' /\ PlaceInv' /\ TimeInv' /\ AfterInv'
<1> USE DEF IInv
<1>1. Posting' = Posting \cup {k} /\ Accepted' = Accepted /\ k \notin Accepted
  BY PostTaskPlaces
<1>2. due[k] = NoDue /\ due' = [due EXCEPT ![k] = clock + d] /\ clock + d \in Nat
  BY RunnerAssumption DEF PostTask, TypeOK
<1>3. \A u \in Accepted : u # k /\ due'[u] = due[u] /\ due[u] \in Nat
  BY <1>1, <1>2 DEF TypeOK, Accepted
<1>4. UNCHANGED <<queue, order, pc, now, copyTasks, mutexHeld, ran, clock>>
  BY DEF PostTask, runVars
<1>5. Queued' = Queued /\ Copied' = Copied
  BY <1>4 DEF Queued, Copied
<1>6. PostInv'
  <2>1. post'[t] = [task |-> k, target |-> clock + d] /\ post[t] = Idle
    BY DEF PostTask, TypeOK
  <2>2. \A u \in Threads \ {t} : post'[u] = post[u]
    BY DEF PostTask, TypeOK
  <2>3. \A u \in Threads : post[u] # Idle =>
          /\ post[u].task \in Tasks /\ due[post[u].task] = post[u].target
          /\ post[u].target \in Nat
    BY DEF PostInv, TypeOK
  <2>4. \A u \in Threads : post[u] # Idle => post[u].task # k
    BY <1>2, <2>3, RunnerAssumption
  <2>5. due'[k] = clock + d /\ \A u \in Tasks \ {k} : due'[u] = due[u]
    BY <1>2 DEF TypeOK
  <2> QED
    BY <2>1, <2>2, <2>3, <2>4, <2>5 DEF PostInv
<1>7. PlaceInv'
  BY <1>1, <1>4, <1>5 DEF PlaceInv, NoTaskLostOrDoubled
<1>8. Queued \subseteq Accepted /\ Copied \subseteq Accepted /\ ran \subseteq Accepted
  BY DEF PlaceInv, NoTaskLostOrDoubled
<1>9. QueueInv'
  <2>1. \A e \in queue : due'[e.task] = due[e.task]
    BY <1>3, <1>8 DEF Queued
  <2> QED
    BY <1>4, <2>1 DEF QueueInv
<1>10. TimeInv'
  <2>1. \A i \in DOMAIN copyTasks : due'[copyTasks[i]] = due[copyTasks[i]]
    BY <1>3, <1>8 DEF Copied
  <2> QED
    BY <1>4, <2>1 DEF TimeInv
<1>11. AfterInv'
  <2>1. after' = [after EXCEPT ![k] = {u \in Accepted : due[u] <= clock + d}]
    BY DEF PostTask
  <2>2. \A j \in Tasks \ {k} : after'[j] = after[j] /\ due'[j] = due[j]
    BY <1>2, <2>1 DEF TypeOK
  <2>3. after'[k] = {u \in Accepted : due[u] <= clock + d} /\ due'[k] = clock + d
    BY <1>2, <2>1 DEF TypeOK
  <2>4. \A j \in Tasks : \A u \in after'[j] : u \in Accepted /\ due'[u] <= due'[j]
    BY <1>3, <2>2, <2>3 DEF AfterInv
  <2>5. \A e \in queue : e.task \in Tasks \ {k}
    BY <1>1, <1>8 DEF Queued, TypeOK, EventTask
  <2>6. \A i \in DOMAIN copyTasks : copyTasks[i] \in Tasks \ {k}
    BY <1>1, <1>8 DEF Copied, TypeOK
  <2>7. \A e \in queue : Ahead(e)' = Ahead(e)
    BY <1>4, <1>5 DEF Ahead
  <2>8. \A e \in queue' : after'[e.task] \subseteq Ahead(e)'
    BY <1>4, <2>2, <2>5, <2>7 DEF AfterInv
  <2>9. \A i \in DOMAIN copyTasks' : \A u \in after'[copyTasks'[i]] :
          u \in ran' \/ \E j \in 1..(i - 1) : copyTasks'[j] = u
    BY <1>4, <2>2, <2>6 DEF AfterInv
  <2>10. \A j \in Tasks : due'[j] = NoDue => after'[j] = {}
    BY <2>2, <2>3, RunnerAssumption, <1>2 DEF AfterInv
  <2> QED
    BY <1>1, <2>4, <2>8, <2>9, <2>10 DEF AfterInv
<1> QED
  BY <1>6, <1>7, <1>9, <1>10, <1>11

LEMMA PushTaskKeeps ==
  ASSUME IInv, NEW t \in Threads, PushTask(t)
  PROVE  PostInv' /\ QueueInv' /\ PlaceInv' /\ TimeInv' /\ AfterInv'
<1> USE DEF IInv
<1>0. post[t].task \in Tasks
  BY PushTaskPlaces
<1>k. PICK k \in Tasks : k = post[t].task
  BY <1>0
<1>n. PICK new : new = [order |-> order + 1, task |-> k, target |-> post[t].target]
  OBVIOUS
<1>1. /\ Posting' = Posting \ {k}
      /\ Accepted' = Accepted \cup {k}
      /\ k \in Tasks \ Accepted
      /\ post[t].target \in Nat
      /\ due[k] = post[t].target
  BY <1>k, PushTaskPlaces
<1>2. /\ queue' = queue \cup {new} /\ order' = order + 1
      /\ post' = [post EXCEPT ![t] = Idle]
      /\ UNCHANGED <<clock, pc, now, copyTasks, mutexHeld, due, after, ran>>
  BY <1>k, <1>n DEF PushTask, runVars, history
<1>3. /\ new.task = k /\ new.order = order + 1 /\ new.target = due[k]
      /\ Queued' = Queued \cup {k} /\ Copied' = Copied
  <2>1. new.task = k /\ new.order = order + 1 /\ new.target = due[k]
    BY <1>1, <1>n
  <2> QED
    BY <1>2, <2>1 DEF Queued, Copied
<1>4. Queued \subseteq Accepted /\ Copied \subseteq Accepted /\ ran \subseteq Accepted
  BY DEF PlaceInv, NoTaskLostOrDoubled
<1>5. PostInv'
  <2>1. post'[t] = Idle /\ \A u \in Threads \ {t} : post'[u] = post[u]
    BY <1>2 DEF TypeOK
  <2> QED
    BY <1>2, <2>1 DEF PostInv
<1>6. \A e \in queue : e.order \in Nat /\ e.order <= order /\ e.task # k
  BY <1>1, <1>4 DEF QueueInv, Queued, TypeOK, EventTask
<1>7. QueueInv'
  <2>1. order \in Nat
    BY DEF TypeOK
  <2>2. \A e \in queue' : e.order <= order' /\ due'[e.task] = e.target
    BY <1>2, <1>3, <1>6, <2>1 DEF QueueInv
  <2>3. \A e, f \in queue' : e.order = f.order => e = f
    BY <1>2, <1>3, <1>6, <2>1 DEF QueueInv
  <2> QED
    BY <2>2, <2>3 DEF QueueInv
<1>8. PlaceInv'
  <2>1. \A e, f \in queue' : e.task = f.task => e = f
    BY <1>2, <1>3, <1>6 DEF PlaceInv, NoTaskLostOrDoubled
  <2> QED
    BY <1>1, <1>2, <1>3, <1>4, <2>1 DEF PlaceInv, NoTaskLostOrDoubled
<1>9. TimeInv'
  BY <1>2 DEF TimeInv
<1>10. AfterInv'
  <2>1. \A e \in queue : after[e.task] \subseteq Ahead(e)'
    BY <1>2, <1>3 DEF AfterInv, Ahead
  <2>2. after[k] \subseteq Ahead(new)'
    <3> SUFFICES ASSUME NEW u \in after[k], u \in Queued PROVE u \in Ahead(new)'
      <4>1. after[k] \subseteq Accepted
        BY <1>1 DEF AfterInv
      <4>2. Accepted = Queued \cup Copied \cup ran
        BY DEF PlaceInv, NoTaskLostOrDoubled
      <4> QED
        BY <4>1, <4>2, <1>2, <1>3 DEF Ahead
    <3>1. PICK f \in queue : f.task = u
      BY DEF Queued
    <3>2. f.target <= due[k] /\ f.order < order + 1
      <4>1. due[u] <= due[k] /\ due[f.task] = f.target
        BY <1>1, <3>1 DEF AfterInv, QueueInv
      <4> QED
        BY <1>6, <3>1, <4>1 DEF TypeOK
    <3>3. Precedes(f, new)
      BY <1>1, <1>3, <3>2, <3>1 DEF Precedes, TypeOK, EventTask
    <3> QED
      BY <1>2, <3>1, <3>3 DEF Ahead
  <2>3. \A e \in queue' : after'[e.task] \subseteq Ahead(e)'
    BY <1>2, <1>3, <2>1, <2>2
  <2> QED
    BY <1>1, <1>2, <2>3 DEF AfterInv
<1> QED
  BY <1>5, <1>7, <1>8, <1>9, <1>10

LEMMA PopExpiredKeeps ==
  ASSUME IInv, PopExpired
  PROVE  PostInv' /\ QueueInv' /\ PlaceInv' /\ TimeInv' /\ AfterInv'
<1> USE DEF IInv
<1>1. PICK e \in queue : /\ IsTop(e) /\ e.target <= now
                        /\ copyTasks' = Append(copyTasks, e.task)
                        /\ queue' = queue \ {e}
  BY DEF PopExpired
<1>2. UNCHANGED <<clock, post, order, pc, now, mutexHeld, isStop, due, after, ran>>
  BY DEF PopExpired, history
<1>3. /\ Len(copyTasks) \in Nat /\ DOMAIN copyTasks = 1..Len(copyTasks)
      /\ DOMAIN copyTasks' = 1..(Len(copyTasks) + 1)
      /\ \A i \in 1..Len(copyTasks) : copyTasks'[i] = copyTasks[i]
      /\ copyTasks'[Len(copyTasks) + 1] = e.task
  BY <1>1 DEF TypeOK, EventTask
<1>4. \A f \in queue : f.task = e.task => f = e
  BY <1>1 DEF PlaceInv, NoTaskLostOrDoubled
<1>5. Copied' = Copied \cup {e.task} /\ Queued' = Queued \ {e.task}
  <2>1. Copied' = Copied \cup {e.task}
    BY <1>3 DEF Copied
  <2>2. Queued' = Queued \ {e.task}
    BY <1>1, <1>4 DEF Queued
  <2> QED
    BY <2>1, <2>2
<1>6. e.task \in Queued /\ Accepted' = Accepted
  BY <1>1, <1>2, SamePlaces DEF Queued
<1>7. PostInv' /\ QueueInv'
  BY <1>1, <1>2 DEF PostInv, QueueInv
<1>8. PlaceInv'
  <2>1. \A i, j \in DOMAIN copyTasks' : copyTasks'[i] = copyTasks'[j] => i = j
    <3>1. \A i \in 1..Len(copyTasks) : copyTasks[i] # e.task
      BY <1>3, <1>6 DEF PlaceInv, NoTaskLostOrDoubled, Copied
    <3> QED
      BY <1>3, <3>1 DEF PlaceInv, NoTaskLostOrDoubled
  <2>2. pc = "collect"
    BY DEF PopExpired
  <2>3. Accepted' = Queued' \cup Copied' \cup ran'
    BY <1>2, <1>5, <1>6 DEF PlaceInv, NoTaskLostOrDoubled
  <2>4. /\ Queued' \cap Copied' = {} /\ Queued' \cap ran' = {}
        /\ Copied' \cap ran' = {}
    BY <1>2, <1>5, <1>6 DEF PlaceInv, NoTaskLostOrDoubled
  <2> QED
    BY <1>1, <1>2, <2>1, <2>2, <2>3, <2>4 DEF PlaceInv, NoTaskLostOrDoubled
<1>9. TimeInv'
  <2>1. due[e.task] <= clock
    BY <1>1 DEF TimeInv, QueueInv, TypeOK, EventTask
  <2> QED
    BY <1>2, <1>3, <2>1 DEF TimeInv
<1>10. AfterInv'
  <2>1. \A f \in queue : Ahead(f) \subseteq Ahead(f)'
    BY <1>1, <1>2, <1>5 DEF Ahead
  <2>2. \A f \in queue' : after'[f.task] \subseteq Ahead(f)'
    BY <1>1, <1>2, <2>1 DEF AfterInv
  <2>3. \A u \in after[e.task] : u \in ran \cup Copied
    <3>1. \A f \in queue : ~Precedes(f, e)
      <4>1. \A f \in queue : f.target \in Nat /\ f.order \in Nat
        BY DEF TypeOK, EventTask
      <4>2. \A f \in queue \ {e} : Precedes(e, f)
        BY <1>1 DEF IsTop
      <4>3. ~Precedes(e, e)
        BY <1>1, <4>1 DEF Precedes
      <4>4. \A f \in queue \ {e} : ~Precedes(f, e)
        BY <1>1, <4>1, <4>2 DEF Precedes
      <4> QED
        BY <4>3, <4>4
    <3> QED
      BY <1>1, <3>1 DEF AfterInv, Ahead
  <2>4. \A i \in DOMAIN copyTasks' : \A u \in after'[copyTasks'[i]] :
          u \in ran' \/ \E j \in 1..(i - 1) : copyTasks'[j] = u
    <3> SUFFICES ASSUME NEW i \in DOMAIN copyTasks', NEW u \in after'[copyTasks'[i]],
                        u \notin ran
                 PROVE  \E j \in 1..(i - 1) : copyTasks'[j] = u
      BY <1>2
    <3>1. CASE i \in 1..Len(copyTasks)
      <4>1. u \in after[copyTasks[i]]
        BY <1>2, <1>3, <3>1
      <4>2. PICK j \in 1..(i - 1) : copyTasks[j] = u
        BY <1>3, <3>1, <4>1 DEF AfterInv
      <4> QED
        BY <1>3, <3>1, <4>2
    <3>2. CASE i = Len(copyTasks) + 1
      <4>1. u \in Copied
        BY <1>2, <1>3, <2>3, <3>2
      <4> QED
        BY <1>3, <3>2, <4>1 DEF Copied
    <3> QED
      BY <1>3, <3>1, <3>2
  <2> QED
    BY <1>2, <1>6, <2>2, <2>4 DEF AfterInv
<1> QED
  BY <1>7, <1>8, <1>9, <1>10

LEMMA StartTaskKeeps ==
  ASSUME IInv, StartTask
  PROVE  PostInv' /\ QueueInv' /\ PlaceInv' /\ TimeInv' /\ AfterInv'
<1> USE DEF IInv
<1>1. /\ copyTasks # <<>> /\ pc' = "task"
      /\ ran' = ran \cup {Head(copyTasks)} /\ copyTasks' = Tail(copyTasks)
      /\ UNCHANGED <<clock, post, queue, order, now, mutexHeld, isStop, due, after>>
  BY DEF StartTask
<1>2. /\ Len(copyTasks) \in Nat /\ Len(copyTasks) > 0
      /\ DOMAIN copyTasks = 1..Len(copyTasks)
      /\ DOMAIN copyTasks' = 1..(Len(copyTasks) - 1)
      /\ \A i \in 1..(Len(copyTasks) - 1) : copyTasks'[i] = copyTasks[i + 1]
      /\ Head(copyTasks) = copyTasks[1]
  BY <1>1 DEF TypeOK
<1>3. \A i \in 2..Len(copyTasks) : copyTasks[i] # copyTasks[1]
  BY <1>2 DEF PlaceInv, NoTaskLostOrDoubled
<1>4. Copied' = Copied \ {copyTasks[1]} /\ copyTasks[1] \in Copied
  <2>1. Copied = {copyTasks[1]} \cup {copyTasks[i] : i \in 2..Len(copyTasks)}
    BY <1>2 DEF Copied
  <2>2. Copied' = {copyTasks[i] : i \in 2..Len(copyTasks)}
    <3>1. \A i \in 2..Len(copyTasks) : i - 1 \in 1..(Len(copyTasks) - 1)
                                     /\ copyTasks'[i - 1] = copyTasks[i]
      BY <1>2
    <3> QED
      BY <1>2, <3>1 DEF Copied
  <2> QED
    BY <1>3, <2>1, <2>2
<1>5. Queued' = Queued /\ Accepted' = Accepted
  BY <1>1, SamePlaces DEF Queued
<1>6. PostInv' /\ QueueInv'
  BY <1>1 DEF PostInv, QueueInv
<1>7. PlaceInv'
  <2>1. \A i, j \in DOMAIN copyTasks' : copyTasks'[i] = copyTasks'[j] => i = j
    BY <1>2 DEF PlaceInv, NoTaskLostOrDoubled
  <2>2. Accepted' = Queued' \cup Copied' \cup ran'
    BY <1>1, <1>2, <1>4, <1>5 DEF PlaceInv, NoTaskLostOrDoubled
  <2>3. /\ Queued' \cap Copied' = {} /\ Queued' \cap ran' = {}
        /\ Copied' \cap ran' = {}
    BY <1>1, <1>2, <1>4, <1>5 DEF PlaceInv, NoTaskLostOrDoubled
  <2> QED
    BY <1>1, <2>1, <2>2, <2>3 DEF PlaceInv, NoTaskLostOrDoubled
<1>8. TimeInv'
  BY <1>1, <1>2 DEF TimeInv
<1>9. AfterInv'
  <2>1. \A f \in queue : Ahead(f) \subseteq Ahead(f)'
    BY <1>1, <1>2, <1>4 DEF Ahead
  <2>2. \A f \in queue' : after'[f.task] \subseteq Ahead(f)'
    BY <1>1, <2>1 DEF AfterInv
  <2>3. \A i \in DOMAIN copyTasks' : \A u \in after'[copyTasks'[i]] :
          u \in ran' \/ \E j \in 1..(i - 1) : copyTasks'[j] = u
    <3> SUFFICES ASSUME NEW i \in DOMAIN copyTasks', NEW u \in after'[copyTasks'[i]],
                        u \notin ran'
                 PROVE  \E j \in 1..(i - 1) : copyTasks'[j] = u
      OBVIOUS
    <3>1. i + 1 \in DOMAIN copyTasks /\ u \in after[copyTasks[i + 1]]
      BY <1>1, <1>2
    <3>2. PICK j \in 1..i : copyTasks[j] = u
      BY <1>1, <1>2, <3>1 DEF AfterInv
    <3>3. j # 1
      BY <1>1, <1>2, <3>2
    <3>4. j - 1 \in 1..(i - 1) /\ copyTasks'[j - 1] = copyTasks[j]
      BY <1>2, <3>3
    <3> QED
      BY <3>2, <3>4
  <2> QED
    BY <1>1, <1>5, <2>2, <2>3 DEF AfterInv
<1> QED
  BY <1>6, <1>7, <1>8, <1>9

LEMMA QuietKeeps ==
  ASSUME IInv,
         UNCHANGED <<post, queue, order, due, after, ran>>,
         UNCHANGED copyTasks \/ (copyTasks = <<>> /\ copyTasks' = <<>>),
         clock <= clock' /\ clock' \in Nat, now' \in {now, clock},
         pc' \in {"loop", "sampled", "stopped"} => copyTasks' = <<>>,
         pc' = "collect" => mutexHeld'
  PROVE  PostInv' /\ QueueInv' /\ PlaceInv' /\ TimeInv' /\ AfterInv'
<1> USE DEF IInv
<1>1. copyTasks' = copyTasks
  OBVIOUS
<1>2. /\ Queued' = Queued /\ Copied' = Copied /\ Accepted' = Accepted
      /\ \A e \in queue : Ahead(e)' = Ahead(e)
  BY <1>1, SamePlaces DEF Queued, Copied, Ahead
<1>3. PostInv' /\ QueueInv'
  BY DEF PostInv, QueueInv
<1>4. PlaceInv'
  BY <1>1, <1>2 DEF PlaceInv, NoTaskLostOrDoubled
<1>5. TimeInv'
  <2>1. \A i \in DOMAIN copyTasks : due[copyTasks[i]] \in Nat
    <3>1. Copied \subseteq Accepted
      BY DEF PlaceInv, NoTaskLostOrDoubled
    <3> QED
      BY <3>1 DEF Copied, Accepted, TypeOK
  <2> QED
    BY <1>1, <2>1 DEF TimeInv, TypeOK
<1>6. AfterInv'
  BY <1>1, <1>2 DEF AfterInv
<1> QED
  BY <1>3, <1>4, <1>5, <1>6

LEMMA StepIInv == IInv /\ [Next]_vars => IInv'
<1> SUFFICES ASSUME IInv, [Next]_vars
             PROVE  PostInv' /\ QueueInv' /\ PlaceInv' /\ TimeInv' /\ AfterInv'
  BY TypeStep DEF IInv
<1> USE DEF runVars, history
<1>1. /\ clock \in Nat /\ now \in Nat /\ now <= clock
      /\ pc \in {"loop", "sampled", "stopped"} => copyTasks = <<>>
      /\ pc = "collect" => mutexHeld
  BY DEF IInv, TypeOK, PlaceInv, TimeInv
<1>2. CASE Tick
  BY <1>1, <1>2, QuietKeeps DEF Tick
<1>3. CASE Run
  BY <1>1, <1>3, QuietKeeps DEF Run
<1>4. CASE LockQueue
  BY <1>1, <1>4, QuietKeeps DEF LockQueue
<1>5. CASE UnlockQueue
  BY <1>1, <1>5, QuietKeeps DEF UnlockQueue
<1>6. CASE EndTask
  BY <1>1, <1>6, QuietKeeps DEF EndTask
<1>7. CASE EndRun
  BY <1>1, <1>7, QuietKeeps DEF EndRun
<1>8. CASE LeaveLoop
  BY <1>1, <1>8, QuietKeeps DEF LeaveLoop
<1>9. CASE Interrupt
  BY <1>1, <1>9, QuietKeeps DEF Interrupt
<1>10. CASE UNCHANGED vars
  BY <1>1, <1>10, QuietKeeps DEF vars
<1> QED
  BY <1>2, <1>3, <1>4, <1>5, <1>6, <1>7, <1>8, <1>9, <1>10, PostTaskKeeps,
     PushTaskKeeps, PopExpiredKeeps, StartTaskKeeps DEF Next, MainStep

THEOREM Invariance == Spec => []IInv
BY InitIInv, StepIInv, PTL DEF Spec

(* A task whose PostTask returned is in exactly one place until it runs.   *)
THEOREM TasksConserved == Spec => []NoTaskLostOrDoubled
<1>1. IInv => NoTaskLostOrDoubled
  BY DEF IInv, PlaceInv
<1> QED
  BY <1>1, Invariance, PTL

----------------------------------------------------------------------------
LEMMA InitRefines == Init => Scheduler!Init
<1> SUFFICES ASSUME Init PROVE Scheduler!Init
  OBVIOUS
<1>1. Accepted = {}
  BY DEF Init, Accepted
<1> QED
  BY <1>1 DEF Init, Scheduler!Init

LEMMA StepRefines == IInv /\ [Next]_vars => [Scheduler!Next]_Scheduler!vars
<1> SUFFICES ASSUME IInv, [Next]_vars
             PROVE  Scheduler!Next \/ UNCHANGED Scheduler!vars
  OBVIOUS
<1> USE DEF runVars, history
<1>1. CASE Tick
  <2>1. Accepted' = Accepted
    BY <1>1, SamePlaces DEF Tick
  <2> QED
    BY <1>1, <2>1 DEF Tick, Scheduler!Next, Scheduler!Advance
<1>2. ASSUME NEW t \in Threads, NEW k \in Tasks, NEW d \in Delays,
             PostTask(t, k, d)
      PROVE  Scheduler!Next
  <2>1. Accepted' = Accepted
    BY <1>2, PostTaskPlaces DEF IInv
  <2>2. Scheduler!Request(k, d)
    BY <1>2, <2>1 DEF PostTask, Scheduler!Request
  <2> QED
    BY <2>2 DEF Scheduler!Next
<1>3. ASSUME NEW t \in Threads, PushTask(t) PROVE Scheduler!Next
  <2>0. post[t].task \in Tasks
    BY <1>3, PushTaskPlaces DEF IInv
  <2>1. PICK k \in Tasks : k = post[t].task
    BY <2>0
  <2>2. Accepted' = Accepted \cup {k} /\ k \notin Accepted
    BY <1>3, <2>1, PushTaskPlaces DEF IInv
  <2>3. due[k] # NoDue
    <3>1. due[k] \in Nat
      BY <1>3, <2>1, PushTaskPlaces DEF IInv
    <3> QED
      BY <3>1, RunnerAssumption
  <2>4. Scheduler!Accept(k)
    BY <1>3, <2>2, <2>3 DEF PushTask, Scheduler!Accept
  <2> QED
    BY <2>4 DEF Scheduler!Next
<1>4. CASE StartTask
  <2>0. copyTasks \in Seq(Tasks) /\ copyTasks # <<>>
    BY <1>4 DEF IInv, TypeOK, StartTask
  <2>1. PICK k \in Tasks : k = Head(copyTasks) /\ k = copyTasks[1] /\ 1 \in DOMAIN copyTasks
    BY <2>0
  <2>2. k \in Accepted \ ran
    BY <2>1 DEF IInv, PlaceInv, NoTaskLostOrDoubled, Copied
  <2>3. due[k] <= clock
    BY <2>1 DEF IInv, TimeInv
  <2>4. after[k] \subseteq ran
    BY <2>1 DEF IInv, AfterInv
  <2>5. Accepted' = Accepted
    BY <1>4, SamePlaces DEF StartTask
  <2>6. Scheduler!Execute(k)
    BY <1>4, <2>1, <2>2, <2>3, <2>4, <2>5 DEF StartTask, Scheduler!Execute
  <2> QED
    BY <2>6 DEF Scheduler!Next
<1>5. CASE LeaveLoop
  <2>1. Accepted' = Accepted
    BY <1>5, SamePlaces DEF LeaveLoop
  <2> QED
    BY <1>5, <2>1 DEF LeaveLoop, Scheduler!Next, Scheduler!Close
<1>6. ASSUME UNCHANGED <<clock, post, due, after, ran>>,
             (pc # "stopped") <=> (pc' # "stopped")
      PROVE  UNCHANGED Scheduler!vars
  <2>1. Accepted' = Accepted
    BY <1>6, SamePlaces
  <2> QED
    BY <1>6, <2>1 DEF Scheduler!vars
<1>7. CASE Run \/ LockQueue \/ PopExpired \/ UnlockQueue \/ EndTask \/ EndRun
  BY <1>6, <1>7 DEF Run, LockQueue, PopExpired, UnlockQueue, EndTask, EndRun
<1>8. CASE Interrupt \/ UNCHANGED vars
  BY <1>6, <1>8 DEF Interrupt, vars
<1> QED
  BY <1>1, <1>2, <1>3, <1>4, <1>5, <1>7, <1>8 DEF Next, MainStep

(* The loop, its queue and its mutex implement the promise of PostTask.    *)
THEOREM Refinement == Spec => SchedulerSpec
BY InitRefines, StepRefines, Invariance, PTL DEF Spec, SchedulerSpec, Scheduler!Spec

=============================================================================
