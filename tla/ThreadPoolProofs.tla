-------------------------- MODULE ThreadPoolProofs --------------------------
(***************************************************************************)
(* Theorems about ThreadPool for every number of threads, controllers and  *)
(* tasks, and every choice of the calls and failures.                      *)
(*                                                                         *)
(* Inv is the inductive invariant: who stands where (Roles), which thread  *)
(* owns which lock (PoolLockInv, CtrlLockInv), what the life of the pool   *)
(* allows (LifeInv, StopInv), that active_thrd_count is exact, and that a  *)
(* thread asleep on the condition variable is at "wait" (SleepInv).        *)
(* WakeInv adds, for the native condition variable, why a sleeper is       *)
(* always seen to; LegacyInv the same for the semaphore in a program that  *)
(* does not call waitalltask; JoinAwake that a stop leaves nobody asleep.  *)
(***************************************************************************)
EXTENDS ThreadPool, FiniteSetTheorems, SequenceTheorems, TLAPS

WorkerLabels == {"off", "top", "check", "run", "finish", "retire", "exit",
                 "await", "wait"}
ControllerLabels == {"idle", "create", "ctrl", "pool", "body", "join", "free",
                     "done", "await", "wait"}
PoolLockLabels == {"check", "retire", "body", "await"}
CtrlLockLabels == {"create", "pool", "body", "join", "await", "wait"}

Roles ==
    /\ \A w \in Workers : pc[w] \in WorkerLabels
    /\ \A c \in Controllers : pc[c] \in ControllerLabels

PoolLockInv == \A t \in Threads : pool_lock = t <=> pc[t] \in PoolLockLabels

CtrlLockInv == \A c \in Controllers : ctrl_lock = c <=> pc[c] \in CtrlLockLabels

SleepInv == \A t \in blocked : pc[t] = "wait"

\* A thread has a live handle from its creation until it has been joined.
HandleInv ==
    \A w \in Workers :
        /\ pc[w] \notin {"off", "exit"} => thread_handle[w] = "live"
        /\ pc[w] = "off" => thread_handle[w] # "live"
        /\ thread_handle[w] = "garbage" => pc[w] = "off"

NoThreads == \A w \in Workers : thread_handle[w] # "live"

\* Nobody calls a pool that is not there or that is being started.
LifeInv ==
    /\ ctx = "null" => /\ stop
                       /\ \A c \in Controllers : pc[c] = "idle"
                       /\ \A w \in Workers : pc[w] = "off"
    /\ pc[Main] = "create" =>
          ~stop /\ \A c \in Controllers \ {Main} : pc[c] = "idle"
    /\ \A c \in Controllers : pc[c] = "free" => stop /\ NoThreads

\* A stopped pool has no threads unless the call that stopped it is joining
\* them; a thread leaves only a stopped pool.
StopInv ==
    /\ stop => NoThreads \/ \E c \in Controllers : pc[c] = "join"
    /\ \A c \in Controllers : pc[c] \in {"await", "wait"} => ~stop /\ op[c] # "cleanup"
    /\ \A c \in Controllers : pc[c] = "join" => stop
    /\ \A w \in Workers : pc[w] = "exit" => stop

Inv == /\ TypeOK /\ Roles /\ PoolLockInv /\ CtrlLockInv /\ SleepInv
       /\ HandleInv /\ LifeInv /\ StopInv /\ ActiveExact

(***************************************************************************)
(* The native condition variable.  The three reasons why nobody sleeps     *)
(* for ever: the flag is up while a task waits, a waiting task has a       *)
(* worker awake, and a sleeping waitalltask has a worker that will test    *)
(* active_thrd_count again, or a task to be taken.                         *)
(***************************************************************************)
FlagUp == queue # <<>> => pool_signaled

ExitsDrained ==
    \A w \in Workers : pc[w] = "exit" => NoThreads \/ queue = <<>>

TaskSeen ==
    queue # <<>> /\ ~NoThreads =>
        \E w \in Workers : pc[w] \notin {"off", "exit"} /\ w \notin blocked

WaiterSeen ==
    Controllers \cap blocked # {} /\ ~NoThreads =>
        \/ queue # <<>>
        \/ \E w \in Workers : pc[w] \in {"top", "check", "run", "finish", "retire"}

WakeInv == FlagUp /\ ExitsDrained /\ TaskSeen /\ WaiterSeen

-----------------------------------------------------------------------------
(* Facts about the operators of the condition variable and the count.      *)

\* Going to sleep adds the thread to the sleepers and gives pool_lock back.
LEMMA CondWaitFacts ==
  ASSUME TypeOK, NEW t \in Threads, CondWait(t)
  PROVE  /\ blocked' = blocked \cup {t}
         /\ wait_num' \in Int /\ permits' = permits /\ spurious' = spurious
         /\ pool_lock' = Nobody
         /\ Goto(t, "wait")
<1>1. LegacyCV \in BOOLEAN
  BY ThreadPoolAssumption
<1> QED
  BY <1>1 DEF CondWait, TypeOK

\* A broadcast wakes sleepers or adds permits, and does nothing else.
LEMMA CondBroadcastFacts ==
  ASSUME TypeOK, CondBroadcast
  PROVE  /\ blocked' \subseteq blocked
         /\ ~LegacyCV => blocked' = {} /\ permits' = permits
         /\ wait_num' = wait_num /\ permits' \in Nat /\ spurious' = spurious
<1>1. CASE ~LegacyCV
  BY <1>1 DEF CondBroadcast, TypeOK
<1>2. CASE LegacyCV
  <2>1. wait_num \in Int /\ permits \in Nat
    BY DEF TypeOK
  <2>2. permits' \in Nat
    BY <1>2, <2>1 DEF CondBroadcast, ReleasePermits
  <2> QED
    BY <1>2, <2>2 DEF CondBroadcast
<1> QED
  BY <1>1, <1>2

\* So does a signal, which wakes at least one of the sleepers, if any.
LEMMA CondSignalFacts ==
  ASSUME TypeOK, CondSignal
  PROVE  /\ blocked' \subseteq blocked
         /\ ~LegacyCV /\ blocked # {} => \E t \in blocked : t \notin blocked'
         /\ wait_num' = wait_num /\ permits' \in Nat /\ spurious' = spurious
<1>1. CASE ~LegacyCV
  BY <1>1 DEF CondSignal, WakeOne, TypeOK
<1>2. CASE LegacyCV
  <2>1. wait_num \in Int /\ permits \in Nat
    BY DEF TypeOK
  <2>2. permits' \in Nat
    BY <1>2, <2>1 DEF CondSignal, ReleasePermits
  <2> QED
    BY <1>2, <2>2 DEF CondSignal
<1> QED
  BY <1>1, <1>2

\* Where a thread stands once it has acquired pool_lock.
LEMMA LockPoolCases ==
  ASSUME NEW t \in Threads, LockPool(t)
  PROVE  \/ pc[t] = "top"    /\ pc' = [pc EXCEPT ![t] = "check"]
         \/ pc[t] = "finish" /\ pc' = [pc EXCEPT ![t] = "retire"]
         \/ pc[t] = "pool"   /\ pc' = [pc EXCEPT ![t] = "body"]
         \/ pc[t] = "wait"   /\ pc' = [pc EXCEPT ![t] = "await"]
<1>1. pc[t] \in {"top", "finish", "pool", "wait"}
  BY DEF LockPool, AfterLock
<1>2. pc' = [pc EXCEPT ![t] = AfterLock[pc[t]]]
  BY DEF LockPool, Goto
<1>3. /\ AfterLock["top"] = "check"  /\ AfterLock["finish"] = "retire"
      /\ AfterLock["pool"] = "body"  /\ AfterLock["wait"] = "await"
  BY DEF AfterLock
<1> QED
  BY <1>1, <1>2, <1>3

\* The set of active workers is finite, so its cardinality is a number.
LEMMA ActiveFinite == IsFiniteSet(Active) /\ Cardinality(Active) \in Nat
<1>1. IsFiniteSet(Workers)
  BY ThreadPoolAssumption, FS_Interval DEF Workers
<1>2. Active \in SUBSET Workers
  BY DEF Active
<1>3. IsFiniteSet(Active)
  BY <1>1, <1>2, FS_Subset
<1> QED
  BY <1>3, FS_CardinalityType

\* An active worker is counted.
LEMMA ActivePositive ==
  ASSUME ActiveExact, NEW w \in Active
  PROVE  active_thrd_count \in Nat \ {0}
BY ActiveFinite, FS_EmptySet DEF ActiveExact

\* If the count is not 0, there is an active worker.
LEMMA ActiveWitness ==
  ASSUME ActiveExact, active_thrd_count # 0
  PROVE  \E w \in Workers : pc[w] \in {"run", "finish", "retire"}
<1>1. Active # {}
  BY ActiveFinite, FS_EmptySet DEF ActiveExact
<1> QED
  BY <1>1 DEF Active

-----------------------------------------------------------------------------
(* Every step preserves Inv: one lemma for each group of its conjuncts.    *)

\* Every step keeps the types.
LEMMA TypeStep ==
  ASSUME Inv, [Next]_vars
  PROVE  TypeOK'
<1> USE ThreadPoolAssumption DEF Inv, TypeOK, Labels, Threads, Workers,
   Goto, vars, life, poolVars, cvVars, taskVars
<1>1. ASSUME NEW t \in Threads, LockPool(t)
      PROVE  TypeOK'
  BY <1>1 DEF LockPool, AfterLock
<1>2. ASSUME NEW t \in Threads, TakePermit(t)
      PROVE  TypeOK'
  BY <1>2 DEF TakePermit
<1>3. ASSUME NEW t \in Threads, SpuriousWakeup(t)
      PROVE  TypeOK'
  BY <1>3 DEF SpuriousWakeup
<1>4. ASSUME NEW w \in Workers, WorkerExit(w)
      PROVE  TypeOK'
  BY <1>4 DEF WorkerExit, MayExit, UnlockPool
<1>5. ASSUME NEW w \in Workers, WorkerIdle(w)
      PROVE  TypeOK'
  <2>1. TypeOK
    BY DEF Inv
  <2>2. /\ blocked' \subseteq Threads /\ wait_num' \in Int
        /\ permits' \in Nat /\ spurious' \in 0 .. MaxSpurious
    BY <1>5, <2>1, CondBroadcastFacts DEF WorkerIdle, TypeOK, cvVars
  <2> QED
    BY <1>5, <2>1, <2>2 DEF WorkerIdle
<1>6. ASSUME NEW w \in Workers, WorkerAwait(w)
      PROVE  TypeOK'
  <2>1. TypeOK /\ w \in Threads
    BY DEF Inv, Threads
  <2>2. CASE ~pool_signaled /\ CondWait(w)
    <3>1. /\ blocked' \subseteq Threads /\ wait_num' \in Int
          /\ permits' \in Nat /\ spurious' \in 0 .. MaxSpurious
          /\ pool_lock' = Nobody /\ pc' \in [Threads -> Labels]
      <4>1. /\ blocked' = blocked \cup {w}
            /\ wait_num' \in Int /\ permits' = permits /\ spurious' = spurious
            /\ pool_lock' = Nobody /\ pc' = [pc EXCEPT ![w] = "wait"]
        BY <2>1, <2>2, CondWaitFacts DEF Goto
      <4> QED
        BY <2>1, <4>1
    <3> QED
      BY <1>6, <2>1, <3>1, <2>2 DEF WorkerAwait
  <2>3. CASE pool_signaled /\ UnlockPool /\ Goto(w, "top") /\ UNCHANGED cvVars
    BY <1>6, <2>1, <2>3 DEF WorkerAwait, UnlockPool
  <2> QED
    BY <1>6, <2>2, <2>3 DEF WorkerAwait
<1>7. ASSUME NEW w \in Workers, TakeTask(w)
      PROVE  TypeOK'
  <2>1. queue \in Seq(1 .. MaxTasks) /\ queue # <<>>
    BY <1>7 DEF TakeTask, Inv, TypeOK
  <2>2. Head(queue) \in 1 .. MaxTasks /\ Tail(queue) \in Seq(1 .. MaxTasks)
    BY <2>1, HeadTailProperties
  <2>3. task' \in [Workers -> 0 .. MaxTasks]
    BY <1>7, <2>2 DEF TakeTask, Inv, TypeOK
  <2>4. queue' \in Seq(1 .. MaxTasks)
    BY <1>7, <2>2 DEF TakeTask, PopFront
  <2> HIDE DEF Workers
  <2> QED
    BY <1>7, <2>3, <2>4 DEF TakeTask, CountTask, UnlockPool
<1>8. ASSUME NEW w \in Workers, RunTask(w)
      PROVE  TypeOK'
  <2>1. runs \in [1 .. MaxTasks -> Nat] /\ task[w] \in 0 .. MaxTasks
    BY DEF Inv, TypeOK
  <2>2. CASE task[w] \in 1 .. MaxTasks
    <3>1. runs' \in [1 .. MaxTasks -> Nat]
      BY <1>8, <2>1, <2>2 DEF RunTask
    <3> QED
      BY <1>8, <3>1 DEF RunTask
  <2>3. CASE task[w] = 0
    <3>1. runs' = runs
      BY <1>8, <2>1, <2>3 DEF RunTask
    <3> QED
      BY <1>8, <3>1 DEF RunTask
  <2> QED
    <3>1. task[w] = 0 \/ task[w] \in 1 .. MaxTasks
      BY <2>1
    <3> QED
      BY <2>2, <2>3, <3>1
<1>9. ASSUME NEW w \in Workers, Retire(w)
      PROVE  TypeOK'
  <2>1. w \in Active
    BY <1>9 DEF Retire, Active
  <2>2. active_thrd_count - 1 \in Nat
    BY <2>1, ActivePositive DEF Inv
  <2> QED
    BY <1>9, <2>2 DEF Retire, UncountTask, UnlockPool
<1>10. CASE Startup
  BY <1>10 DEF Startup
<1>11. ASSUME NEW w \in Workers, CreateThread(w)
      PROVE  TypeOK'
  BY <1>11 DEF CreateThread, Creating
<1>12. ASSUME NEW w \in Workers, CreateFails(w)
      PROVE  TypeOK'
  BY <1>12 DEF CreateFails, Creating
<1>13. CASE StartupDone
  BY <1>13 DEF StartupDone
<1>14. ASSUME NEW c \in Controllers, NEW o \in Ops, Call(c, o)
      PROVE  TypeOK'
  BY <1>14 DEF Call
<1>15. ASSUME NEW c \in Controllers, LockCtrl(c)
      PROVE  TypeOK'
  BY <1>15 DEF LockCtrl
<1>16. ASSUME NEW c \in Controllers, AddTask(c)
      PROVE  TypeOK'
  <2>1. TypeOK
    BY DEF Inv
  <2>2. /\ blocked' \subseteq Threads /\ wait_num' \in Int
        /\ permits' \in Nat /\ spurious' \in 0 .. MaxSpurious
    BY <1>16, <2>1, CondSignalFacts DEF AddTask, TypeOK
  <2>3. CASE /\ accepted < MaxTasks
             /\ queue' = Append(queue, accepted + 1)
             /\ accepted' = accepted + 1
    <3>1. accepted + 1 \in 1 .. MaxTasks
      BY <2>1, <2>3
    <3>2. queue' \in Seq(1 .. MaxTasks)
      BY <2>1, <2>3, <3>1
    <3> QED
      BY <1>16, <2>1, <2>2, <2>3, <3>1, <3>2
         DEF AddTask, SetSignaled, UnlockPool, Return
  <2>4. CASE UNCHANGED <<queue, accepted>>
    BY <1>16, <2>1, <2>2, <2>4 DEF AddTask, SetSignaled, UnlockPool, Return
  <2> QED
    BY <1>16, <2>3, <2>4 DEF AddTask, PushBack
<1>17. ASSUME NEW c \in Controllers, AlreadyStopped(c)
      PROVE  TypeOK'
  BY <1>17 DEF AlreadyStopped, UnlockPool, Return
<1>18. ASSUME NEW c \in Controllers, WaitAllTask(c)
      PROVE  TypeOK'
  BY <1>18 DEF WaitAllTask
<1>19. ASSUME NEW c \in Controllers, AwaitAllTask(c)
      PROVE  TypeOK'
  <2>1. TypeOK /\ c \in Threads
    BY DEF Inv, Threads
  <2>2. CASE CondWait(c) /\ UNCHANGED ctrl_lock
    <3>1. /\ blocked' \subseteq Threads /\ wait_num' \in Int
          /\ permits' \in Nat /\ spurious' \in 0 .. MaxSpurious
          /\ pool_lock' = Nobody /\ pc' \in [Threads -> Labels]
      <4>1. /\ blocked' = blocked \cup {c}
            /\ wait_num' \in Int /\ permits' = permits /\ spurious' = spurious
            /\ pool_lock' = Nobody /\ pc' = [pc EXCEPT ![c] = "wait"]
        BY <2>1, <2>2, CondWaitFacts DEF Goto
      <4> QED
        BY <2>1, <4>1
    <3> QED
      BY <1>19, <2>1, <3>1, <2>2 DEF AwaitAllTask
  <2>3. CASE UnlockPool /\ Return(c) /\ UNCHANGED cvVars
    BY <1>19, <2>1, <2>3 DEF AwaitAllTask, UnlockPool, Return
  <2> QED
    BY <1>19, <2>2, <2>3 DEF AwaitAllTask
<1>20. ASSUME NEW c \in Controllers, WaitAllThrd(c)
      PROVE  TypeOK'
  <2>1. TypeOK
    BY DEF Inv
  <2>2. /\ blocked' \subseteq Threads /\ wait_num' \in Int
        /\ permits' \in Nat /\ spurious' \in 0 .. MaxSpurious
    BY <1>20, <2>1, CondBroadcastFacts DEF WaitAllThrd, TypeOK
  <2> QED
    BY <1>20, <2>1, <2>2 DEF WaitAllThrd, SetSignaled, UnlockPool
<1>21. ASSUME NEW c \in Controllers, Join(c)
      PROVE  TypeOK'
  BY <1>21 DEF Join, Joined, Return
<1>22. ASSUME NEW c \in Controllers, JoinGarbage(c)
      PROVE  TypeOK'
  BY <1>22 DEF JoinGarbage
<1>23. ASSUME NEW c \in Controllers, Cleanup(c)
      PROVE  TypeOK'
  BY <1>23 DEF Cleanup
<1>24. CASE UNCHANGED vars
  BY <1>24
<1> QED
  BY <1>1, <1>2, <1>3, <1>4, <1>5, <1>6, <1>7, <1>8, <1>9, <1>10, <1>11,
     <1>12, <1>13, <1>14, <1>15, <1>16, <1>17, <1>18, <1>19, <1>20, <1>21,
     <1>22, <1>23, <1>24
     DEF Next, WorkerStep, CallStep, StartupStep, Exited, Threads

\* The count stays exact when nobody becomes or ceases to be active.
LEMMA CountSame ==
  ASSUME ActiveExact, UNCHANGED active_thrd_count,
         \A w \in Workers : pc'[w] \in {"run", "finish", "retire"}
                            <=> pc[w] \in {"run", "finish", "retire"}
  PROVE  ActiveExact'
<1>1. Active' = Active
  BY DEF Active
<1> QED
  BY <1>1 DEF ActiveExact

\* A worker is counted from the moment it takes a task until it retires.
LEMMA CountStep ==
  ASSUME Inv, [Next]_vars
  PROVE  ActiveExact'
<1> USE ThreadPoolAssumption DEF Inv, TypeOK, HandleInv, Threads, Goto,
   vars, life, poolVars, cvVars, taskVars
<1>1. ASSUME NEW t \in Threads, LockPool(t)
      PROVE  ActiveExact'
  BY <1>1, CountSame DEF LockPool, AfterLock
<1>2. ASSUME NEW t \in Threads, TakePermit(t)
      PROVE  ActiveExact'
  BY <1>2, CountSame DEF TakePermit
<1>3. ASSUME NEW t \in Threads, SpuriousWakeup(t)
      PROVE  ActiveExact'
  BY <1>3, CountSame DEF SpuriousWakeup
<1>4. ASSUME NEW w \in Workers, WorkerExit(w)
      PROVE  ActiveExact'
  BY <1>4, CountSame DEF WorkerExit, MayExit, UnlockPool
<1>5. ASSUME NEW w \in Workers, WorkerIdle(w)
      PROVE  ActiveExact'
  BY <1>5, CountSame DEF WorkerIdle, CondBroadcast, ReleasePermits
<1>6. ASSUME NEW w \in Workers, WorkerAwait(w)
      PROVE  ActiveExact'
  BY <1>6, CountSame DEF WorkerAwait, CondWait, UnlockPool
<1>7. ASSUME NEW w \in Workers, TakeTask(w)
      PROVE  ActiveExact'
  <2>1. w \notin Active /\ Active' = Active \cup {w}
    BY <1>7 DEF TakeTask, Active
  <2>2. Cardinality(Active') = Cardinality(Active) + 1
    BY <2>1, ActiveFinite, FS_AddElement
  <2> QED
    BY <1>7, <2>2 DEF TakeTask, CountTask, ActiveExact
<1>8. ASSUME NEW w \in Workers, RunTask(w)
      PROVE  ActiveExact'
  BY <1>8, CountSame DEF RunTask
<1>9. ASSUME NEW w \in Workers, Retire(w)
      PROVE  ActiveExact'
  <2>1. w \in Active /\ Active' = Active \ {w}
    BY <1>9 DEF Retire, Active
  <2>2. Cardinality(Active') = Cardinality(Active) - 1
    BY <2>1, ActiveFinite, FS_RemoveElement
  <2> QED
    BY <1>9, <2>2 DEF Retire, UncountTask, ActiveExact
<1>10. CASE Startup
  BY <1>10, CountSame DEF Startup
<1>11. ASSUME NEW w \in Workers, CreateThread(w)
      PROVE  ActiveExact'
  BY <1>11, CountSame DEF CreateThread, Creating
<1>12. ASSUME NEW w \in Workers, CreateFails(w)
      PROVE  ActiveExact'
  BY <1>12, CountSame DEF CreateFails, Creating
<1>13. CASE StartupDone
  BY <1>13, CountSame DEF StartupDone
<1>14. ASSUME NEW c \in Controllers, NEW o \in Ops, Call(c, o)
      PROVE  ActiveExact'
  BY <1>14, CountSame DEF Call
<1>15. ASSUME NEW c \in Controllers, LockCtrl(c)
      PROVE  ActiveExact'
  BY <1>15, CountSame DEF LockCtrl
<1>16. ASSUME NEW c \in Controllers, AddTask(c)
      PROVE  ActiveExact'
  BY <1>16, CountSame DEF AddTask, PushBack, CondSignal, WakeOne,
     ReleasePermits, SetSignaled, UnlockPool, Return
<1>17. ASSUME NEW c \in Controllers, AlreadyStopped(c)
      PROVE  ActiveExact'
  BY <1>17, CountSame DEF AlreadyStopped, UnlockPool, Return
<1>18. ASSUME NEW c \in Controllers, WaitAllTask(c)
      PROVE  ActiveExact'
  BY <1>18, CountSame DEF WaitAllTask
<1>19. ASSUME NEW c \in Controllers, AwaitAllTask(c)
      PROVE  ActiveExact'
  BY <1>19, CountSame DEF AwaitAllTask, Outstanding, CondWait, UnlockPool,
     Return
<1>20. ASSUME NEW c \in Controllers, WaitAllThrd(c)
      PROVE  ActiveExact'
  BY <1>20, CountSame DEF WaitAllThrd, CondBroadcast, ReleasePermits,
     SetSignaled, UnlockPool
<1>21. ASSUME NEW c \in Controllers, Join(c)
      PROVE  ActiveExact'
  BY <1>21, CountSame DEF Join, Joined, Return
<1>22. ASSUME NEW c \in Controllers, JoinGarbage(c)
      PROVE  ActiveExact'
  BY <1>22, CountSame DEF JoinGarbage
<1>23. ASSUME NEW c \in Controllers, Cleanup(c)
      PROVE  ActiveExact'
  BY <1>23, CountSame DEF Cleanup
<1>24. CASE UNCHANGED vars
  BY <1>24, CountSame
<1> QED
  BY <1>1, <1>2, <1>3, <1>4, <1>5, <1>6, <1>7, <1>8, <1>9, <1>10, <1>11,
     <1>12, <1>13, <1>14, <1>15, <1>16, <1>17, <1>18, <1>19, <1>20, <1>21,
     <1>22, <1>23, <1>24
     DEF Next, WorkerStep, CallStep, StartupStep, Exited, Threads

\* Where a thread stands says which locks it owns.
LEMMA LockStep ==
  ASSUME Inv, [Next]_vars
  PROVE  (Roles /\ PoolLockInv /\ CtrlLockInv /\ SleepInv)'
<1> USE ThreadPoolAssumption DEF Inv, TypeOK, Threads, Goto, vars, life,
   poolVars, cvVars, taskVars
<1>1. ASSUME NEW t \in Threads, LockPool(t)
      PROVE  (Roles /\ PoolLockInv /\ CtrlLockInv /\ SleepInv)'
  <2>1. \/ pc[t] = "top"    /\ pc' = [pc EXCEPT ![t] = "check"]
        \/ pc[t] = "finish" /\ pc' = [pc EXCEPT ![t] = "retire"]
        \/ pc[t] = "pool"   /\ pc' = [pc EXCEPT ![t] = "body"]
        \/ pc[t] = "wait"   /\ pc' = [pc EXCEPT ![t] = "await"]
    BY <1>1, LockPoolCases
  <2>2. /\ pool_lock = Nobody /\ pool_lock' = t /\ t \notin blocked
        /\ UNCHANGED <<ctrl_lock, blocked>>
    BY <1>1 DEF LockPool
  <2>3. Roles'
    BY <2>1, <2>2 DEF Roles, WorkerLabels, ControllerLabels
  <2>5. CtrlLockInv'
    BY <2>1, <2>2 DEF CtrlLockInv, CtrlLockLabels
  <2>6. SleepInv'
    BY <2>1, <2>2 DEF SleepInv
  <2>4. PoolLockInv'
    BY <2>1, <2>2 DEF PoolLockInv, PoolLockLabels
  <2> QED
    BY <2>3, <2>4, <2>5, <2>6
<1>2. ASSUME NEW t \in Threads, TakePermit(t)
      PROVE  (Roles /\ PoolLockInv /\ CtrlLockInv /\ SleepInv)'
  BY <1>2 DEF TakePermit, Roles, PoolLockInv, CtrlLockInv, SleepInv,
     WorkerLabels, ControllerLabels, PoolLockLabels, CtrlLockLabels
<1>3. ASSUME NEW t \in Threads, SpuriousWakeup(t)
      PROVE  (Roles /\ PoolLockInv /\ CtrlLockInv /\ SleepInv)'
  BY <1>3 DEF SpuriousWakeup, Roles, PoolLockInv, CtrlLockInv, SleepInv,
     WorkerLabels, ControllerLabels, PoolLockLabels, CtrlLockLabels
<1>4. ASSUME NEW w \in Workers, WorkerExit(w)
      PROVE  (Roles /\ PoolLockInv /\ CtrlLockInv /\ SleepInv)'
  BY <1>4 DEF WorkerExit, MayExit, UnlockPool, Roles, PoolLockInv,
     CtrlLockInv, SleepInv, WorkerLabels, ControllerLabels, PoolLockLabels,
     CtrlLockLabels
<1>5. ASSUME NEW w \in Workers, WorkerIdle(w)
      PROVE  (Roles /\ PoolLockInv /\ CtrlLockInv /\ SleepInv)'
  BY <1>5 DEF WorkerIdle, CondBroadcast, ReleasePermits, Roles, PoolLockInv,
     CtrlLockInv, SleepInv, WorkerLabels, ControllerLabels, PoolLockLabels,
     CtrlLockLabels
<1>6. ASSUME NEW w \in Workers, WorkerAwait(w)
      PROVE  (Roles /\ PoolLockInv /\ CtrlLockInv /\ SleepInv)'
  <2>1. CASE ~pool_signaled /\ CondWait(w)
    <3>1. /\ blocked' = blocked \cup {w}
          /\ pool_lock' = Nobody /\ pc' = [pc EXCEPT ![w] = "wait"]
      BY <2>1, CondWaitFacts
    <3> QED
      BY <1>6, <2>1, <3>1
      DEF WorkerAwait, Roles, PoolLockInv, CtrlLockInv, SleepInv,
          WorkerLabels, ControllerLabels, PoolLockLabels, CtrlLockLabels
  <2>2. CASE pool_signaled /\ UnlockPool /\ Goto(w, "top") /\ UNCHANGED cvVars
    BY <1>6, <2>2
    DEF WorkerAwait, UnlockPool, Return, Roles, PoolLockInv, CtrlLockInv, SleepInv,
          WorkerLabels, ControllerLabels, PoolLockLabels, CtrlLockLabels
  <2> QED
    BY <1>6, <2>1, <2>2 DEF WorkerAwait
<1>7. ASSUME NEW w \in Workers, TakeTask(w)
      PROVE  (Roles /\ PoolLockInv /\ CtrlLockInv /\ SleepInv)'
  BY <1>7 DEF TakeTask, PopFront, CountTask, UnlockPool, Roles, PoolLockInv,
     CtrlLockInv, SleepInv, WorkerLabels, ControllerLabels, PoolLockLabels,
     CtrlLockLabels
<1>8. ASSUME NEW w \in Workers, RunTask(w)
      PROVE  (Roles /\ PoolLockInv /\ CtrlLockInv /\ SleepInv)'
  BY <1>8 DEF RunTask, Roles, PoolLockInv, CtrlLockInv, SleepInv,
     WorkerLabels, ControllerLabels, PoolLockLabels, CtrlLockLabels
<1>9. ASSUME NEW w \in Workers, Retire(w)
      PROVE  (Roles /\ PoolLockInv /\ CtrlLockInv /\ SleepInv)'
  BY <1>9 DEF Retire, UncountTask, UnlockPool, Roles, PoolLockInv,
     CtrlLockInv, SleepInv, WorkerLabels, ControllerLabels, PoolLockLabels,
     CtrlLockLabels
<1>10. CASE Startup
  BY <1>10 DEF Startup, Creating, HandleInv, LifeInv,
     Roles, PoolLockInv, CtrlLockInv, SleepInv,
     WorkerLabels, ControllerLabels, PoolLockLabels, CtrlLockLabels
<1>11. ASSUME NEW w \in Workers, CreateThread(w)
      PROVE  (Roles /\ PoolLockInv /\ CtrlLockInv /\ SleepInv)'
  BY <1>11 DEF CreateThread, Creating, HandleInv, LifeInv,
     Roles, PoolLockInv, CtrlLockInv, SleepInv,
     WorkerLabels, ControllerLabels, PoolLockLabels, CtrlLockLabels
<1>12. ASSUME NEW w \in Workers, CreateFails(w)
      PROVE  (Roles /\ PoolLockInv /\ CtrlLockInv /\ SleepInv)'
  BY <1>12 DEF CreateFails, Creating, HandleInv, LifeInv,
     Roles, PoolLockInv, CtrlLockInv, SleepInv,
     WorkerLabels, ControllerLabels, PoolLockLabels, CtrlLockLabels
<1>13. CASE StartupDone
  BY <1>13 DEF StartupDone, Creating, HandleInv, LifeInv,
     Roles, PoolLockInv, CtrlLockInv, SleepInv,
     WorkerLabels, ControllerLabels, PoolLockLabels, CtrlLockLabels
<1>14. ASSUME NEW c \in Controllers, NEW o \in Ops, Call(c, o)
      PROVE  (Roles /\ PoolLockInv /\ CtrlLockInv /\ SleepInv)'
  BY <1>14 DEF Call, Roles, PoolLockInv, CtrlLockInv, SleepInv,
     WorkerLabels, ControllerLabels, PoolLockLabels, CtrlLockLabels
<1>15. ASSUME NEW c \in Controllers, LockCtrl(c)
      PROVE  (Roles /\ PoolLockInv /\ CtrlLockInv /\ SleepInv)'
  BY <1>15 DEF LockCtrl, Roles, PoolLockInv, CtrlLockInv, SleepInv,
     WorkerLabels, ControllerLabels, PoolLockLabels, CtrlLockLabels
<1>16. ASSUME NEW c \in Controllers, AddTask(c)
      PROVE  (Roles /\ PoolLockInv /\ CtrlLockInv /\ SleepInv)'
  BY <1>16 DEF AddTask, PushBack, CondSignal, WakeOne, ReleasePermits,
     SetSignaled, UnlockPool, Return, Roles, PoolLockInv, CtrlLockInv,
     SleepInv, WorkerLabels, ControllerLabels, PoolLockLabels,
     CtrlLockLabels
<1>17. ASSUME NEW c \in Controllers, AlreadyStopped(c)
      PROVE  (Roles /\ PoolLockInv /\ CtrlLockInv /\ SleepInv)'
  BY <1>17 DEF AlreadyStopped, UnlockPool, Return, Roles, PoolLockInv,
     CtrlLockInv, SleepInv, WorkerLabels, ControllerLabels, PoolLockLabels,
     CtrlLockLabels
<1>18. ASSUME NEW c \in Controllers, WaitAllTask(c)
      PROVE  (Roles /\ PoolLockInv /\ CtrlLockInv /\ SleepInv)'
  BY <1>18 DEF WaitAllTask, Roles, PoolLockInv, CtrlLockInv, SleepInv,
     WorkerLabels, ControllerLabels, PoolLockLabels, CtrlLockLabels
<1>19. ASSUME NEW c \in Controllers, AwaitAllTask(c)
      PROVE  (Roles /\ PoolLockInv /\ CtrlLockInv /\ SleepInv)'
  <2>1. CASE CondWait(c) /\ UNCHANGED ctrl_lock
    <3>1. /\ blocked' = blocked \cup {c}
          /\ pool_lock' = Nobody /\ pc' = [pc EXCEPT ![c] = "wait"]
      BY <2>1, CondWaitFacts
    <3> QED
      BY <1>19, <2>1, <3>1
      DEF AwaitAllTask, Roles, PoolLockInv, CtrlLockInv, SleepInv,
          WorkerLabels, ControllerLabels, PoolLockLabels, CtrlLockLabels
  <2>2. CASE UnlockPool /\ Return(c) /\ UNCHANGED cvVars
    BY <1>19, <2>2
    DEF AwaitAllTask, UnlockPool, Return, Roles, PoolLockInv, CtrlLockInv, SleepInv,
          WorkerLabels, ControllerLabels, PoolLockLabels, CtrlLockLabels
  <2> QED
    BY <1>19, <2>1, <2>2 DEF AwaitAllTask
<1>20. ASSUME NEW c \in Controllers, WaitAllThrd(c)
      PROVE  (Roles /\ PoolLockInv /\ CtrlLockInv /\ SleepInv)'
  BY <1>20 DEF WaitAllThrd, CondBroadcast, ReleasePermits, SetSignaled,
     UnlockPool, Roles, PoolLockInv, CtrlLockInv, SleepInv, WorkerLabels,
     ControllerLabels, PoolLockLabels, CtrlLockLabels
<1>21. ASSUME NEW c \in Controllers, Join(c)
      PROVE  (Roles /\ PoolLockInv /\ CtrlLockInv /\ SleepInv)'
  BY <1>21 DEF Join, Joined, Return, Roles, PoolLockInv, CtrlLockInv,
     SleepInv, WorkerLabels, ControllerLabels, PoolLockLabels,
     CtrlLockLabels
<1>22. ASSUME NEW c \in Controllers, JoinGarbage(c)
      PROVE  (Roles /\ PoolLockInv /\ CtrlLockInv /\ SleepInv)'
  BY <1>22 DEF JoinGarbage, Roles, PoolLockInv, CtrlLockInv, SleepInv,
     WorkerLabels, ControllerLabels, PoolLockLabels, CtrlLockLabels
<1>23. ASSUME NEW c \in Controllers, Cleanup(c)
      PROVE  (Roles /\ PoolLockInv /\ CtrlLockInv /\ SleepInv)'
  BY <1>23 DEF Cleanup, Roles, PoolLockInv, CtrlLockInv, SleepInv,
     WorkerLabels, ControllerLabels, PoolLockLabels, CtrlLockLabels
<1>24. CASE UNCHANGED vars
  BY <1>24 DEF Roles, PoolLockInv, CtrlLockInv, SleepInv, WorkerLabels,
     ControllerLabels, PoolLockLabels, CtrlLockLabels
<1> QED
  BY <1>1, <1>2, <1>3, <1>4, <1>5, <1>6, <1>7, <1>8, <1>9, <1>10, <1>11,
     <1>12, <1>13, <1>14, <1>15, <1>16, <1>17, <1>18, <1>19, <1>20, <1>21,
     <1>22, <1>23, <1>24
     DEF Next, WorkerStep, CallStep, StartupStep, Exited, Threads

\* Threads exist only while the pool is started, open or being joined.
LEMMA LifeStep ==
  ASSUME Inv, [Next]_vars
  PROVE  (HandleInv /\ LifeInv /\ StopInv)'
<1> USE ThreadPoolAssumption DEF Inv, TypeOK, Threads, Goto, vars, life,
   poolVars, cvVars, taskVars
<1>1. ASSUME NEW t \in Threads, LockPool(t)
      PROVE  (HandleInv /\ LifeInv /\ StopInv)'
  BY <1>1 DEF LockPool, AfterLock, Roles, CtrlLockInv, WorkerLabels,
     ControllerLabels, CtrlLockLabels, HandleInv, LifeInv, StopInv,
     NoThreads
<1>2. ASSUME NEW t \in Threads, TakePermit(t)
      PROVE  (HandleInv /\ LifeInv /\ StopInv)'
  BY <1>2 DEF TakePermit, Roles, CtrlLockInv, WorkerLabels,
     ControllerLabels, CtrlLockLabels, HandleInv, LifeInv, StopInv,
     NoThreads
<1>3. ASSUME NEW t \in Threads, SpuriousWakeup(t)
      PROVE  (HandleInv /\ LifeInv /\ StopInv)'
  BY <1>3 DEF SpuriousWakeup, Roles, CtrlLockInv, WorkerLabels,
     ControllerLabels, CtrlLockLabels, HandleInv, LifeInv, StopInv,
     NoThreads
<1>4. ASSUME NEW w \in Workers, WorkerExit(w)
      PROVE  (HandleInv /\ LifeInv /\ StopInv)'
  BY <1>4 DEF WorkerExit, MayExit, UnlockPool, Roles, CtrlLockInv,
     WorkerLabels, ControllerLabels, CtrlLockLabels, HandleInv, LifeInv,
     StopInv, NoThreads
<1>5. ASSUME NEW w \in Workers, WorkerIdle(w)
      PROVE  (HandleInv /\ LifeInv /\ StopInv)'
  BY <1>5 DEF WorkerIdle, CondBroadcast, ReleasePermits, Roles, CtrlLockInv,
     WorkerLabels, ControllerLabels, CtrlLockLabels, HandleInv, LifeInv,
     StopInv, NoThreads
<1>6. ASSUME NEW w \in Workers, WorkerAwait(w)
      PROVE  (HandleInv /\ LifeInv /\ StopInv)'
  BY <1>6 DEF WorkerAwait, CondWait, UnlockPool, Roles, CtrlLockInv,
     WorkerLabels, ControllerLabels, CtrlLockLabels, HandleInv, LifeInv,
     StopInv, NoThreads
<1>7. ASSUME NEW w \in Workers, TakeTask(w)
      PROVE  (HandleInv /\ LifeInv /\ StopInv)'
  BY <1>7 DEF TakeTask, PopFront, CountTask, UnlockPool, Roles, CtrlLockInv,
     WorkerLabels, ControllerLabels, CtrlLockLabels, HandleInv, LifeInv,
     StopInv, NoThreads
<1>8. ASSUME NEW w \in Workers, RunTask(w)
      PROVE  (HandleInv /\ LifeInv /\ StopInv)'
  BY <1>8 DEF RunTask, Roles, CtrlLockInv, WorkerLabels, ControllerLabels,
     CtrlLockLabels, HandleInv, LifeInv, StopInv, NoThreads
<1>9. ASSUME NEW w \in Workers, Retire(w)
      PROVE  (HandleInv /\ LifeInv /\ StopInv)'
  BY <1>9 DEF Retire, UncountTask, UnlockPool, Roles, CtrlLockInv,
     WorkerLabels, ControllerLabels, CtrlLockLabels, HandleInv, LifeInv,
     StopInv, NoThreads
<1>10. CASE Startup
  BY <1>10 DEF Startup, Roles, CtrlLockInv, WorkerLabels, ControllerLabels,
     CtrlLockLabels, HandleInv, LifeInv, StopInv, NoThreads
<1>11. ASSUME NEW w \in Workers, CreateThread(w)
      PROVE  (HandleInv /\ LifeInv /\ StopInv)'
  BY <1>11 DEF CreateThread, Creating, Roles, CtrlLockInv, WorkerLabels,
     ControllerLabels, CtrlLockLabels, HandleInv, LifeInv, StopInv,
     NoThreads
<1>12. ASSUME NEW w \in Workers, CreateFails(w)
      PROVE  (HandleInv /\ LifeInv /\ StopInv)'
  BY <1>12 DEF CreateFails, Creating, Roles, CtrlLockInv, WorkerLabels,
     ControllerLabels, CtrlLockLabels, HandleInv, LifeInv, StopInv,
     NoThreads
<1>13. CASE StartupDone
  BY <1>13 DEF StartupDone, Roles, CtrlLockInv, WorkerLabels,
     ControllerLabels, CtrlLockLabels, HandleInv, LifeInv, StopInv,
     NoThreads
<1>14. ASSUME NEW c \in Controllers, NEW o \in Ops, Call(c, o)
      PROVE  (HandleInv /\ LifeInv /\ StopInv)'
  BY <1>14 DEF Call, Roles, CtrlLockInv, WorkerLabels, ControllerLabels,
     CtrlLockLabels, HandleInv, LifeInv, StopInv, NoThreads
<1>15. ASSUME NEW c \in Controllers, LockCtrl(c)
      PROVE  (HandleInv /\ LifeInv /\ StopInv)'
  BY <1>15 DEF LockCtrl, Roles, CtrlLockInv, WorkerLabels, ControllerLabels,
     CtrlLockLabels, HandleInv, LifeInv, StopInv, NoThreads
<1>16. ASSUME NEW c \in Controllers, AddTask(c)
      PROVE  (HandleInv /\ LifeInv /\ StopInv)'
  BY <1>16 DEF AddTask, PushBack, CondSignal, WakeOne, ReleasePermits,
     SetSignaled, UnlockPool, Return, Roles, CtrlLockInv, WorkerLabels,
     ControllerLabels, CtrlLockLabels, HandleInv, LifeInv, StopInv,
     NoThreads
<1>17. ASSUME NEW c \in Controllers, AlreadyStopped(c)
      PROVE  (HandleInv /\ LifeInv /\ StopInv)'
  BY <1>17 DEF AlreadyStopped, UnlockPool, Return, Roles, CtrlLockInv,
     WorkerLabels, ControllerLabels, CtrlLockLabels, HandleInv, LifeInv,
     StopInv, NoThreads
<1>18. ASSUME NEW c \in Controllers, WaitAllTask(c)
      PROVE  (HandleInv /\ LifeInv /\ StopInv)'
  BY <1>18 DEF WaitAllTask, Roles, CtrlLockInv, WorkerLabels,
     ControllerLabels, CtrlLockLabels, HandleInv, LifeInv, StopInv,
     NoThreads
<1>19. ASSUME NEW c \in Controllers, AwaitAllTask(c)
      PROVE  (HandleInv /\ LifeInv /\ StopInv)'
  <2>1. CASE CondWait(c) /\ UNCHANGED ctrl_lock
    <3>1. /\ blocked' = blocked \cup {c}
          /\ pool_lock' = Nobody /\ pc' = [pc EXCEPT ![c] = "wait"]
      BY <2>1, CondWaitFacts
    <3> QED
      BY <1>19, <2>1, <3>1
      DEF AwaitAllTask, Roles, CtrlLockInv, WorkerLabels, ControllerLabels,
          CtrlLockLabels, HandleInv, LifeInv, StopInv, NoThreads
  <2>2. CASE UnlockPool /\ Return(c) /\ UNCHANGED cvVars
    BY <1>19, <2>2
    DEF AwaitAllTask, UnlockPool, Return, Roles, CtrlLockInv, WorkerLabels, ControllerLabels,
          CtrlLockLabels, HandleInv, LifeInv, StopInv, NoThreads
  <2> QED
    BY <1>19, <2>1, <2>2 DEF AwaitAllTask
<1>20. ASSUME NEW c \in Controllers, WaitAllThrd(c)
      PROVE  (HandleInv /\ LifeInv /\ StopInv)'
  BY <1>20 DEF WaitAllThrd, CondBroadcast, ReleasePermits, SetSignaled,
     UnlockPool, Roles, CtrlLockInv, WorkerLabels, ControllerLabels,
     CtrlLockLabels, HandleInv, LifeInv, StopInv, NoThreads
<1>21. ASSUME NEW c \in Controllers, Join(c)
      PROVE  (HandleInv /\ LifeInv /\ StopInv)'
  BY <1>21 DEF Join, Joined, Return, Roles, CtrlLockInv, WorkerLabels,
     ControllerLabels, CtrlLockLabels, HandleInv, LifeInv, StopInv,
     NoThreads
<1>22. ASSUME NEW c \in Controllers, JoinGarbage(c)
      PROVE  (HandleInv /\ LifeInv /\ StopInv)'
  BY <1>22 DEF JoinGarbage, Roles, CtrlLockInv, WorkerLabels,
     ControllerLabels, CtrlLockLabels, HandleInv, LifeInv, StopInv,
     NoThreads
<1>23. ASSUME NEW c \in Controllers, Cleanup(c)
      PROVE  (HandleInv /\ LifeInv /\ StopInv)'
  BY <1>23 DEF Cleanup, Roles, CtrlLockInv, WorkerLabels, ControllerLabels,
     CtrlLockLabels, HandleInv, LifeInv, StopInv, NoThreads
<1>24. CASE UNCHANGED vars
  BY <1>24 DEF Roles, CtrlLockInv, WorkerLabels, ControllerLabels,
     CtrlLockLabels, HandleInv, LifeInv, StopInv, NoThreads
<1> QED
  BY <1>1, <1>2, <1>3, <1>4, <1>5, <1>6, <1>7, <1>8, <1>9, <1>10, <1>11,
     <1>12, <1>13, <1>14, <1>15, <1>16, <1>17, <1>18, <1>19, <1>20, <1>21,
     <1>22, <1>23, <1>24
     DEF Next, WorkerStep, CallStep, StartupStep, Exited, Threads

LEMMA InitInv == Init => Inv
<1> SUFFICES ASSUME Init
             PROVE  Inv
  OBVIOUS
<1> USE ThreadPoolAssumption DEF Init, Threads
<1>1. TypeOK
  <2>1. /\ queue \in Seq(1 .. MaxTasks)
        /\ spurious \in 0 .. MaxSpurious /\ accepted \in 0 .. MaxTasks
    OBVIOUS
  <2>2. /\ thread_handle \in [Workers -> {"garbage", "live", "zero"}]
        /\ pc \in [Threads -> Labels]
        /\ op \in [Controllers -> Ops \cup {"none"}]
    BY DEF Labels
  <2>3. task \in [Workers -> 0 .. MaxTasks] /\ runs \in [1 .. MaxTasks -> Nat]
    OBVIOUS
  <2>4. /\ ctx \in {"null", "live", "freed", "crashed"}
        /\ ctrl_lock \in Controllers \cup {Nobody}
        /\ pool_lock \in Threads \cup {Nobody}
        /\ active_thrd_count \in Nat /\ blocked \subseteq Threads
        /\ wait_num \in Int /\ permits \in Nat
    OBVIOUS
  <2>5. pool_signaled \in BOOLEAN /\ stop \in BOOLEAN
    BY Zenon
  <2> HIDE DEF Init
  <2> QED
    BY <2>1, <2>2, <2>3, <2>4, <2>5 DEF TypeOK
<1>2. Roles /\ PoolLockInv /\ CtrlLockInv /\ SleepInv
  BY DEF Roles, PoolLockInv, CtrlLockInv, SleepInv,
         WorkerLabels, ControllerLabels, PoolLockLabels, CtrlLockLabels
<1>3. HandleInv /\ LifeInv /\ StopInv
  BY DEF HandleInv, LifeInv, StopInv, NoThreads
<1>4. Active = {}
  BY DEF Active
<1>5. ActiveExact
  BY <1>4, FS_EmptySet DEF ActiveExact
<1> QED
  BY <1>1, <1>2, <1>3, <1>5 DEF Inv

LEMMA InvStep == Inv /\ [Next]_vars => Inv'
BY TypeStep, CountStep, LockStep, LifeStep DEF Inv

THEOREM Invariance == Spec => []Inv
<1>1. Init => Inv
  BY InitInv
<1>2. Inv /\ [Next]_vars => Inv'
  BY InvStep
<1> QED
  BY <1>1, <1>2, PTL DEF Spec

(* Type correctness: no lock is owned by two threads or by nobody known,   *)
(* active_thrd_count never goes below zero, and no permit is taken that    *)
(* was not released.                                                       *)
THEOREM TypeCorrect == Spec => []TypeOK
<1>1. Inv => TypeOK
  BY DEF Inv
<1> QED
  BY <1>1, Invariance, PTL

(* active_thrd_count(330, 334) is the number of workers that hold a task   *)
(* and have not reported back, however many threads there are.             *)
THEOREM CountExact == Spec => []ActiveExact
<1>1. Inv => ActiveExact
  BY DEF Inv
<1> QED
  BY <1>1, Invariance, PTL

-----------------------------------------------------------------------------
(* The native condition variable loses no wakeup.                          *)

\* Every step leaves a worker to see to the tasks and to the sleepers.
LEMMA WakeStep ==
  ASSUME Inv, WakeInv, ~LegacyCV, [Next]_vars
  PROVE  WakeInv'
<1> USE ThreadPoolAssumption DEF Inv, TypeOK, Threads, Goto, vars, life,
   poolVars, cvVars, taskVars
<1>1. ASSUME NEW t \in Threads, LockPool(t)
      PROVE  WakeInv'
  BY <1>1 DEF LockPool, AfterLock, WakeInv, FlagUp, ExitsDrained, TaskSeen,
     WaiterSeen, NoThreads, Roles, CtrlLockInv, WorkerLabels,
     ControllerLabels, CtrlLockLabels, SleepInv, HandleInv, LifeInv, StopInv
<1>2. ASSUME NEW t \in Threads, TakePermit(t)
      PROVE  WakeInv'
  BY <1>2 DEF TakePermit, WakeInv, FlagUp, ExitsDrained, TaskSeen,
     WaiterSeen, NoThreads, Roles, CtrlLockInv, WorkerLabels,
     ControllerLabels, CtrlLockLabels, SleepInv, HandleInv, LifeInv, StopInv
<1>3. ASSUME NEW t \in Threads, SpuriousWakeup(t)
      PROVE  WakeInv'
  BY <1>3 DEF SpuriousWakeup, WakeInv, FlagUp, ExitsDrained, TaskSeen,
     WaiterSeen, NoThreads, Roles, CtrlLockInv, WorkerLabels,
     ControllerLabels, CtrlLockLabels, SleepInv, HandleInv, LifeInv, StopInv
<1>4. ASSUME NEW w \in Workers, WorkerExit(w)
      PROVE  WakeInv'
  BY <1>4 DEF WorkerExit, MayExit, UnlockPool, WakeInv, FlagUp,
     ExitsDrained, TaskSeen, WaiterSeen, NoThreads, Roles, CtrlLockInv,
     WorkerLabels, ControllerLabels, CtrlLockLabels, SleepInv, HandleInv,
     LifeInv, StopInv
<1>5. ASSUME NEW w \in Workers, WorkerIdle(w)
      PROVE  WakeInv'
  <2>1. queue' = <<>> /\ UNCHANGED <<thread_handle, stop>>
    BY <1>5 DEF WorkerIdle
  <2>2. (FlagUp /\ ExitsDrained /\ TaskSeen)'
    BY <2>1 DEF FlagUp, ExitsDrained, TaskSeen
  <2>3. CASE active_thrd_count = 0
    <3>1. blocked' = {}
      BY <1>5, <2>3, CondBroadcastFacts DEF WorkerIdle
    <3> QED
      BY <2>2, <3>1 DEF WakeInv, WaiterSeen
  <2>4. CASE active_thrd_count # 0
    <3>1. PICK v \in Workers : pc[v] \in {"run", "finish", "retire"}
      BY <2>4, ActiveWitness
    <3>2. pc'[v] = pc[v]
      BY <1>5, <3>1 DEF WorkerIdle
    <3> QED
      BY <2>2, <3>1, <3>2 DEF WakeInv, WaiterSeen
  <2> QED
    BY <2>3, <2>4
<1>6. ASSUME NEW w \in Workers, WorkerAwait(w)
      PROVE  WakeInv'
  <2>1. CASE ~pool_signaled /\ CondWait(w)
    <3>1. queue = <<>>
      BY <2>1 DEF WakeInv, FlagUp
    <3>2. /\ blocked' = blocked \cup {w} /\ pc' = [pc EXCEPT ![w] = "wait"]
          /\ UNCHANGED <<queue, pool_signaled, thread_handle>>
      BY <1>6, <2>1, CondWaitFacts DEF WorkerAwait
    <3>3. Controllers \cap blocked' = Controllers \cap blocked
      BY <3>2
    <3> QED
      BY <1>6, <3>1, <3>2, <3>3 DEF WorkerAwait, WakeInv, FlagUp,
         ExitsDrained, TaskSeen, WaiterSeen, NoThreads
  <2>2. CASE pool_signaled /\ UnlockPool /\ Goto(w, "top") /\ UNCHANGED cvVars
    BY <1>6, <2>2 DEF WorkerAwait, WakeInv, FlagUp, ExitsDrained, TaskSeen,
       WaiterSeen, NoThreads
  <2> QED
    BY <1>6, <2>1, <2>2 DEF WorkerAwait
<1>7. ASSUME NEW w \in Workers, TakeTask(w)
      PROVE  WakeInv'
  BY <1>7 DEF TakeTask, PopFront, CountTask, UnlockPool, WakeInv, FlagUp,
     ExitsDrained, TaskSeen, WaiterSeen, NoThreads, Roles, CtrlLockInv,
     WorkerLabels, ControllerLabels, CtrlLockLabels, SleepInv, HandleInv,
     LifeInv, StopInv
<1>8. ASSUME NEW w \in Workers, RunTask(w)
      PROVE  WakeInv'
  BY <1>8 DEF RunTask, WakeInv, FlagUp, ExitsDrained, TaskSeen, WaiterSeen,
     NoThreads, Roles, CtrlLockInv, WorkerLabels, ControllerLabels,
     CtrlLockLabels, SleepInv, HandleInv, LifeInv, StopInv
<1>9. ASSUME NEW w \in Workers, Retire(w)
      PROVE  WakeInv'
  BY <1>9 DEF Retire, UncountTask, UnlockPool, WakeInv, FlagUp,
     ExitsDrained, TaskSeen, WaiterSeen, NoThreads, Roles, CtrlLockInv,
     WorkerLabels, ControllerLabels, CtrlLockLabels, SleepInv, HandleInv,
     LifeInv, StopInv
<1>10. CASE Startup
  BY <1>10 DEF Startup, WakeInv, FlagUp, ExitsDrained, TaskSeen, WaiterSeen,
     NoThreads, Roles, CtrlLockInv, WorkerLabels, ControllerLabels,
     CtrlLockLabels, SleepInv, HandleInv, LifeInv, StopInv
<1>11. ASSUME NEW w \in Workers, CreateThread(w)
      PROVE  WakeInv'
  BY <1>11 DEF CreateThread, Creating, WakeInv, FlagUp, ExitsDrained,
     TaskSeen, WaiterSeen, NoThreads, Roles, CtrlLockInv, WorkerLabels,
     ControllerLabels, CtrlLockLabels, SleepInv, HandleInv, LifeInv, StopInv
<1>12. ASSUME NEW w \in Workers, CreateFails(w)
      PROVE  WakeInv'
  BY <1>12 DEF CreateFails, Creating, WakeInv, FlagUp, ExitsDrained,
     TaskSeen, WaiterSeen, NoThreads, Roles, CtrlLockInv, WorkerLabels,
     ControllerLabels, CtrlLockLabels, SleepInv, HandleInv, LifeInv, StopInv
<1>13. CASE StartupDone
  BY <1>13 DEF StartupDone, WakeInv, FlagUp, ExitsDrained, TaskSeen,
     WaiterSeen, NoThreads, Roles, CtrlLockInv, WorkerLabels,
     ControllerLabels, CtrlLockLabels, SleepInv, HandleInv, LifeInv, StopInv
<1>14. ASSUME NEW c \in Controllers, NEW o \in Ops, Call(c, o)
      PROVE  WakeInv'
  BY <1>14 DEF Call, WakeInv, FlagUp, ExitsDrained, TaskSeen, WaiterSeen,
     NoThreads, Roles, CtrlLockInv, WorkerLabels, ControllerLabels,
     CtrlLockLabels, SleepInv, HandleInv, LifeInv, StopInv
<1>15. ASSUME NEW c \in Controllers, LockCtrl(c)
      PROVE  WakeInv'
  BY <1>15 DEF LockCtrl, WakeInv, FlagUp, ExitsDrained, TaskSeen,
     WaiterSeen, NoThreads, Roles, CtrlLockInv, WorkerLabels,
     ControllerLabels, CtrlLockLabels, SleepInv, HandleInv, LifeInv, StopInv
<1>16. ASSUME NEW c \in Controllers, AddTask(c)
      PROVE  WakeInv'
  <2>1. /\ pc[c] = "body" /\ ctrl_lock = c /\ pool_signaled' = TRUE
        /\ pc'[c] \in {"idle", "free"} /\ \A w \in Workers : pc'[w] = pc[w]
        /\ UNCHANGED <<thread_handle, stop>>
    BY <1>16 DEF AddTask, SetSignaled, Return, CtrlLockInv, CtrlLockLabels
  <2>2. Controllers \cap blocked = {}
    BY <2>1 DEF CtrlLockInv, CtrlLockLabels, SleepInv
  <2>3. blocked' \subseteq blocked
        /\ (blocked # {} => \E t \in blocked : t \notin blocked')
    BY <1>16, CondSignalFacts DEF AddTask
  <2>4. stop => NoThreads
    BY <2>1 DEF StopInv, CtrlLockInv, CtrlLockLabels
  <2>5. ExitsDrained'
    BY <2>1, <2>4 DEF ExitsDrained, StopInv, NoThreads
  <2>6. ASSUME ~NoThreads
        PROVE  \E w \in Workers : pc[w] \notin {"off", "exit"} /\ w \notin blocked'
    <3>1. PICK w \in Workers : thread_handle[w] = "live"
      BY <2>6 DEF NoThreads
    <3>2. pc[w] \notin {"off", "exit"}
      BY <2>4, <2>6, <3>1 DEF HandleInv, StopInv
    <3>3. CASE blocked = {}
      BY <2>3, <3>2, <3>3
    <3>4. CASE blocked # {}
      <4>1. PICK t \in blocked : t \notin blocked'
        BY <2>3, <3>4
      <4>2. t \in Workers /\ pc[t] = "wait"
        BY <2>2, <4>1 DEF SleepInv
      <4> QED
        BY <4>1, <4>2
    <3> QED
      BY <3>3, <3>4
  <2>7. TaskSeen'
    BY <2>1, <2>6 DEF TaskSeen, NoThreads
  <2>8. FlagUp' /\ WaiterSeen'
    BY <2>1, <2>2, <2>3 DEF FlagUp, WaiterSeen
  <2> QED
    BY <2>5, <2>7, <2>8 DEF WakeInv
<1>17. ASSUME NEW c \in Controllers, AlreadyStopped(c)
      PROVE  WakeInv'
  BY <1>17 DEF AlreadyStopped, UnlockPool, Return, WakeInv, FlagUp,
     ExitsDrained, TaskSeen, WaiterSeen, NoThreads, Roles, CtrlLockInv,
     WorkerLabels, ControllerLabels, CtrlLockLabels, SleepInv, HandleInv,
     LifeInv, StopInv
<1>18. ASSUME NEW c \in Controllers, WaitAllTask(c)
      PROVE  WakeInv'
  BY <1>18 DEF WaitAllTask, WakeInv, FlagUp, ExitsDrained, TaskSeen,
     WaiterSeen, NoThreads, Roles, CtrlLockInv, WorkerLabels,
     ControllerLabels, CtrlLockLabels, SleepInv, HandleInv, LifeInv, StopInv
<1>19. ASSUME NEW c \in Controllers, AwaitAllTask(c)
      PROVE  WakeInv'
  <2>1. CASE Outstanding /\ CondWait(c)
    <3>1. /\ blocked' = blocked \cup {c} /\ pc' = [pc EXCEPT ![c] = "wait"]
          /\ UNCHANGED <<queue, pool_signaled, thread_handle>>
      BY <1>19, <2>1, CondWaitFacts DEF AwaitAllTask
    <3>2. (FlagUp /\ ExitsDrained /\ TaskSeen)'
      BY <3>1 DEF WakeInv, FlagUp, ExitsDrained, TaskSeen, NoThreads
    <3>3. CASE queue # <<>>
      BY <3>1, <3>2, <3>3 DEF WakeInv, WaiterSeen
    <3>4. CASE active_thrd_count # 0
      <4>1. PICK w \in Workers : pc[w] \in {"run", "finish", "retire"}
        BY <3>4, ActiveWitness
      <4>2. pc'[w] = pc[w]
        BY <3>1, <4>1
      <4> QED
        BY <3>2, <4>1, <4>2 DEF WakeInv, WaiterSeen
    <3> QED
      BY <2>1, <3>3, <3>4 DEF Outstanding
  <2>2. CASE UnlockPool /\ Return(c) /\ UNCHANGED cvVars
    BY <1>19, <2>2 DEF AwaitAllTask, Return, WakeInv, FlagUp, ExitsDrained,
       TaskSeen, WaiterSeen, NoThreads
  <2> QED
    BY <1>19, <2>1, <2>2 DEF AwaitAllTask
<1>20. ASSUME NEW c \in Controllers, WaitAllThrd(c)
      PROVE  WakeInv'
  BY <1>20 DEF WaitAllThrd, CondBroadcast, ReleasePermits, SetSignaled,
     UnlockPool, WakeInv, FlagUp, ExitsDrained, TaskSeen, WaiterSeen,
     NoThreads, Roles, CtrlLockInv, WorkerLabels, ControllerLabels,
     CtrlLockLabels, SleepInv, HandleInv, LifeInv, StopInv
<1>21. ASSUME NEW c \in Controllers, Join(c)
      PROVE  WakeInv'
  BY <1>21 DEF Join, Joined, Return, WakeInv, FlagUp, ExitsDrained,
     TaskSeen, WaiterSeen, NoThreads, Roles, CtrlLockInv, WorkerLabels,
     ControllerLabels, CtrlLockLabels, SleepInv, HandleInv, LifeInv, StopInv
<1>22. ASSUME NEW c \in Controllers, JoinGarbage(c)
      PROVE  WakeInv'
  BY <1>22 DEF JoinGarbage, WakeInv, FlagUp, ExitsDrained, TaskSeen,
     WaiterSeen, NoThreads, Roles, CtrlLockInv, WorkerLabels,
     ControllerLabels, CtrlLockLabels, SleepInv, HandleInv, LifeInv, StopInv
<1>23. ASSUME NEW c \in Controllers, Cleanup(c)
      PROVE  WakeInv'
  BY <1>23 DEF Cleanup, WakeInv, FlagUp, ExitsDrained, TaskSeen, WaiterSeen,
     NoThreads, Roles, CtrlLockInv, WorkerLabels, ControllerLabels,
     CtrlLockLabels, SleepInv, HandleInv, LifeInv, StopInv
<1>24. CASE UNCHANGED vars
  BY <1>24 DEF WakeInv, FlagUp, ExitsDrained, TaskSeen, WaiterSeen,
     NoThreads, Roles, CtrlLockInv, WorkerLabels, ControllerLabels,
     CtrlLockLabels, SleepInv, HandleInv, LifeInv, StopInv
<1> QED
  BY <1>1, <1>2, <1>3, <1>4, <1>5, <1>6, <1>7, <1>8, <1>9, <1>10, <1>11,
     <1>12, <1>13, <1>14, <1>15, <1>16, <1>17, <1>18, <1>19, <1>20, <1>21,
     <1>22, <1>23, <1>24
     DEF Next, WorkerStep, CallStep, StartupStep, Exited, Threads

LEMMA InitWake == Init => WakeInv
BY DEF Init, WakeInv, FlagUp, ExitsDrained, TaskSeen, WaiterSeen

LEMMA WakeEnough == Inv /\ WakeInv => NoLostWakeup
<1> SUFFICES ASSUME Inv, WakeInv, ~NoThreads,
                    queue # <<>> \/ Controllers \cap blocked # {}
             PROVE  \E w \in Workers : Awake(w)
  BY DEF NoLostWakeup, NoThreads
<1>1. CASE queue # <<>>
  BY <1>1 DEF WakeInv, TaskSeen, Awake
<1>2. CASE \E w \in Workers : pc[w] \in {"top", "check", "run", "finish", "retire"}
  BY <1>2 DEF Inv, SleepInv, Awake
<1> QED
  BY <1>1, <1>2 DEF WakeInv, WaiterSeen

-----------------------------------------------------------------------------
(* The condition variable built on a semaphore, in a program that does not *)
(* call waitalltask: workers alone sleep, and wait_num is their number.    *)

Sleepers == {w \in Workers : pc[w] = "wait"}

SleepersCounted == wait_num = Cardinality(Sleepers)

NoWaiters == \A c \in Controllers : pc[c] \notin {"await", "wait"}

TaskSeenLegacy ==
    queue # <<>> /\ ~NoThreads => \E w \in Workers : Awake(w)

LegacyInv ==
    NoWaiters /\ FlagUp /\ ExitsDrained /\ SleepersCounted /\ TaskSeenLegacy

\* Those who sleep are among those who wait, and there are finitely many.
LEMMA SleepersFinite ==
  ASSUME Inv
  PROVE  /\ IsFiniteSet(Sleepers) /\ Cardinality(Sleepers) \in Nat
         /\ NoWaiters => blocked \subseteq Sleepers
<1>1. IsFiniteSet(Workers)
  BY ThreadPoolAssumption, FS_Interval DEF Workers
<1>2. Sleepers \in SUBSET Workers
  BY DEF Sleepers
<1>3. IsFiniteSet(Sleepers)
  BY <1>1, <1>2, FS_Subset
<1>4. NoWaiters => blocked \subseteq Sleepers
  BY DEF Inv, TypeOK, SleepInv, NoWaiters, Sleepers, Threads
<1> QED
  BY <1>3, <1>4, FS_CardinalityType

\* The count stays right when nobody goes to wait or comes back.
LEMMA SleepersSame ==
  ASSUME SleepersCounted, UNCHANGED wait_num,
         \A w \in Workers : pc'[w] = "wait" <=> pc[w] = "wait"
  PROVE  SleepersCounted'
<1>1. Sleepers' = Sleepers
  BY DEF Sleepers
<1> QED
  BY <1>1 DEF SleepersCounted


\* wait_num is the number of those who wait.
LEMMA SleepersStep ==
  ASSUME Inv, NoWaiters, SleepersCounted, LegacyCV, [Next]_vars
  PROVE  SleepersCounted'
<1> USE ThreadPoolAssumption DEF Inv, TypeOK, HandleInv, Threads, Goto,
   vars, life, poolVars, cvVars, taskVars
<1>1. ASSUME NEW t \in Threads, LockPool(t)
      PROVE  SleepersCounted'
  <2>1. CASE pc[t] = "wait"
    <3>1. t \in Sleepers
      BY <2>1 DEF NoWaiters, Sleepers
    <3>2. pc' = [pc EXCEPT ![t] = "await"] /\ wait_num' = wait_num - 1
      BY <1>1, <2>1 DEF LockPool, AfterLock
    <3>3. Sleepers' = Sleepers \ {t}
      BY <3>1, <3>2 DEF Sleepers
    <3>4. Cardinality(Sleepers') = Cardinality(Sleepers) - 1
      BY <3>1, <3>3, SleepersFinite, FS_RemoveElement
    <3> QED
      BY <3>2, <3>4 DEF SleepersCounted
  <2>2. CASE pc[t] # "wait"
    BY <1>1, <2>2, SleepersSame DEF LockPool, AfterLock
  <2> QED
    BY <2>1, <2>2
<1>2. ASSUME NEW t \in Threads, TakePermit(t)
      PROVE  SleepersCounted'
  BY <1>2, SleepersSame DEF TakePermit
<1>3. ASSUME NEW t \in Threads, SpuriousWakeup(t)
      PROVE  SleepersCounted'
  BY <1>3, SleepersSame DEF SpuriousWakeup
<1>4. ASSUME NEW w \in Workers, WorkerExit(w)
      PROVE  SleepersCounted'
  BY <1>4, SleepersSame DEF WorkerExit, MayExit, UnlockPool
<1>5. ASSUME NEW w \in Workers, WorkerIdle(w)
      PROVE  SleepersCounted'
  <2>1. wait_num' = wait_num
    BY <1>5, CondBroadcastFacts DEF WorkerIdle
  <2> QED
    BY <1>5, <2>1, SleepersSame DEF WorkerIdle
<1>6. ASSUME NEW w \in Workers, WorkerAwait(w)
      PROVE  SleepersCounted'
  <2>1. CASE ~pool_signaled /\ CondWait(w)
    <3>1. pc' = [pc EXCEPT ![w] = "wait"] /\ wait_num' = wait_num + 1
      BY <2>1 DEF CondWait
    <3>2. w \notin Sleepers /\ Sleepers' = Sleepers \cup {w}
      BY <1>6, <3>1 DEF WorkerAwait, Sleepers
    <3>3. Cardinality(Sleepers') = Cardinality(Sleepers) + 1
      BY <3>2, SleepersFinite, FS_AddElement
    <3> QED
      BY <3>1, <3>3 DEF SleepersCounted
  <2>2. CASE pool_signaled /\ UnlockPool /\ Goto(w, "top") /\ UNCHANGED cvVars
    BY <1>6, <2>2, SleepersSame DEF WorkerAwait
  <2> QED
    BY <1>6, <2>1, <2>2 DEF WorkerAwait
<1>7. ASSUME NEW w \in Workers, TakeTask(w)
      PROVE  SleepersCounted'
  BY <1>7, SleepersSame DEF TakeTask, PopFront, CountTask, UnlockPool
<1>8. ASSUME NEW w \in Workers, RunTask(w)
      PROVE  SleepersCounted'
  BY <1>8, SleepersSame DEF RunTask
<1>9. ASSUME NEW w \in Workers, Retire(w)
      PROVE  SleepersCounted'
  BY <1>9, SleepersSame DEF Retire, UncountTask, UnlockPool
<1>10. CASE Startup
  BY <1>10, SleepersSame DEF Startup
<1>11. ASSUME NEW w \in Workers, CreateThread(w)
      PROVE  SleepersCounted'
  BY <1>11, SleepersSame DEF CreateThread, Creating
<1>12. ASSUME NEW w \in Workers, CreateFails(w)
      PROVE  SleepersCounted'
  BY <1>12, SleepersSame DEF CreateFails, Creating
<1>13. CASE StartupDone
  BY <1>13, SleepersSame DEF StartupDone
<1>14. ASSUME NEW c \in Controllers, NEW o \in Ops, Call(c, o)
      PROVE  SleepersCounted'
  BY <1>14, SleepersSame DEF Call
<1>15. ASSUME NEW c \in Controllers, LockCtrl(c)
      PROVE  SleepersCounted'
  BY <1>15, SleepersSame DEF LockCtrl
<1>16. ASSUME NEW c \in Controllers, AddTask(c)
      PROVE  SleepersCounted'
  <2>1. wait_num' = wait_num
    BY <1>16, CondSignalFacts DEF AddTask
  <2> QED
    BY <1>16, <2>1, SleepersSame DEF AddTask, Return
<1>17. ASSUME NEW c \in Controllers, AlreadyStopped(c)
      PROVE  SleepersCounted'
  BY <1>17, SleepersSame DEF AlreadyStopped, UnlockPool, Return
<1>18. ASSUME NEW c \in Controllers, WaitAllTask(c)
      PROVE  SleepersCounted'
  BY <1>18, SleepersSame DEF WaitAllTask
<1>19. ASSUME NEW c \in Controllers, AwaitAllTask(c)
      PROVE  SleepersCounted'
  BY <1>19 DEF AwaitAllTask, NoWaiters
<1>20. ASSUME NEW c \in Controllers, WaitAllThrd(c)
      PROVE  SleepersCounted'
  <2>1. wait_num' = wait_num
    BY <1>20, CondBroadcastFacts DEF WaitAllThrd
  <2> QED
    BY <1>20, <2>1, SleepersSame DEF WaitAllThrd
<1>21. ASSUME NEW c \in Controllers, Join(c)
      PROVE  SleepersCounted'
  BY <1>21, SleepersSame DEF Join, Joined, Return
<1>22. ASSUME NEW c \in Controllers, JoinGarbage(c)
      PROVE  SleepersCounted'
  BY <1>22, SleepersSame DEF JoinGarbage
<1>23. ASSUME NEW c \in Controllers, Cleanup(c)
      PROVE  SleepersCounted'
  BY <1>23, SleepersSame DEF Cleanup
<1>24. CASE UNCHANGED vars
  BY <1>24, SleepersSame
<1> QED
  BY <1>1, <1>2, <1>3, <1>4, <1>5, <1>6, <1>7, <1>8, <1>9, <1>10, <1>11,
     <1>12, <1>13, <1>14, <1>15, <1>16, <1>17, <1>18, <1>19, <1>20, <1>21,
     <1>22, <1>23, <1>24
     DEF Next, WorkerStep, CallStep, StartupStep, Exited, Threads

\* A task always has a worker that will see to it, or a permit for one.
LEMMA LegacySeenStep ==
  ASSUME Inv, LegacyInv, LegacyCV, "waitalltask" \notin Ops, [Next]_vars
  PROVE  (NoWaiters /\ FlagUp /\ ExitsDrained /\ TaskSeenLegacy)'
<1> USE ThreadPoolAssumption DEF Inv, LegacyInv, TypeOK, Threads, Goto,
   vars, life, poolVars, cvVars, taskVars
<1>1. ASSUME NEW t \in Threads, LockPool(t)
      PROVE  (NoWaiters /\ FlagUp /\ ExitsDrained /\ TaskSeenLegacy)'
  BY <1>1 DEF LockPool, AfterLock, NoWaiters, FlagUp, ExitsDrained,
     TaskSeenLegacy, Awake, NoThreads, Roles, CtrlLockInv, WorkerLabels,
     ControllerLabels, CtrlLockLabels, SleepInv, HandleInv, LifeInv, StopInv
<1>2. ASSUME NEW t \in Threads, TakePermit(t)
      PROVE  (NoWaiters /\ FlagUp /\ ExitsDrained /\ TaskSeenLegacy)'
  <2>1. t \in Workers
    BY <1>2 DEF TakePermit, SleepInv, NoWaiters
  <2>2. Awake(t)'
    BY <1>2, <2>1 DEF TakePermit, SleepInv, Awake
  <2> QED
    BY <1>2, <2>1, <2>2 DEF TakePermit, NoWaiters, FlagUp, ExitsDrained,
       TaskSeenLegacy, NoThreads
<1>3. ASSUME NEW t \in Threads, SpuriousWakeup(t)
      PROVE  (NoWaiters /\ FlagUp /\ ExitsDrained /\ TaskSeenLegacy)'
  BY <1>3 DEF SpuriousWakeup, NoWaiters, FlagUp, ExitsDrained,
     TaskSeenLegacy, Awake, NoThreads, Roles, CtrlLockInv, WorkerLabels,
     ControllerLabels, CtrlLockLabels, SleepInv, HandleInv, LifeInv, StopInv
<1>4. ASSUME NEW w \in Workers, WorkerExit(w)
      PROVE  (NoWaiters /\ FlagUp /\ ExitsDrained /\ TaskSeenLegacy)'
  BY <1>4 DEF WorkerExit, MayExit, UnlockPool, NoWaiters, FlagUp,
     ExitsDrained, TaskSeenLegacy, Awake, NoThreads, Roles, CtrlLockInv,
     WorkerLabels, ControllerLabels, CtrlLockLabels, SleepInv, HandleInv,
     LifeInv, StopInv
<1>5. ASSUME NEW w \in Workers, WorkerIdle(w)
      PROVE  (NoWaiters /\ FlagUp /\ ExitsDrained /\ TaskSeenLegacy)'
  <2>1. queue' = <<>> /\ UNCHANGED <<thread_handle, stop>>
    BY <1>5 DEF WorkerIdle
  <2> QED
    BY <1>5, <2>1 DEF WorkerIdle, NoWaiters, FlagUp, ExitsDrained,
       TaskSeenLegacy
<1>6. ASSUME NEW w \in Workers, WorkerAwait(w)
      PROVE  (NoWaiters /\ FlagUp /\ ExitsDrained /\ TaskSeenLegacy)'
  <2>1. CASE ~pool_signaled /\ CondWait(w)
    <3>1. queue = <<>>
      BY <2>1 DEF FlagUp
    <3> QED
      BY <1>6, <2>1, <3>1 DEF WorkerAwait, CondWait, NoWaiters, FlagUp,
         ExitsDrained, TaskSeenLegacy, NoThreads
  <2>2. CASE pool_signaled /\ UnlockPool /\ Goto(w, "top") /\ UNCHANGED cvVars
    BY <1>6, <2>2 DEF WorkerAwait, NoWaiters, FlagUp, ExitsDrained,
       TaskSeenLegacy, Awake, NoThreads
  <2> QED
    BY <1>6, <2>1, <2>2 DEF WorkerAwait
<1>7. ASSUME NEW w \in Workers, TakeTask(w)
      PROVE  (NoWaiters /\ FlagUp /\ ExitsDrained /\ TaskSeenLegacy)'
  BY <1>7 DEF TakeTask, PopFront, CountTask, UnlockPool, NoWaiters, FlagUp,
     ExitsDrained, TaskSeenLegacy, Awake, NoThreads, Roles, CtrlLockInv,
     WorkerLabels, ControllerLabels, CtrlLockLabels, SleepInv, HandleInv,
     LifeInv, StopInv
<1>8. ASSUME NEW w \in Workers, RunTask(w)
      PROVE  (NoWaiters /\ FlagUp /\ ExitsDrained /\ TaskSeenLegacy)'
  BY <1>8 DEF RunTask, NoWaiters, FlagUp, ExitsDrained, TaskSeenLegacy,
     Awake, NoThreads, Roles, CtrlLockInv, WorkerLabels, ControllerLabels,
     CtrlLockLabels, SleepInv, HandleInv, LifeInv, StopInv
<1>9. ASSUME NEW w \in Workers, Retire(w)
      PROVE  (NoWaiters /\ FlagUp /\ ExitsDrained /\ TaskSeenLegacy)'
  BY <1>9 DEF Retire, UncountTask, UnlockPool, NoWaiters, FlagUp,
     ExitsDrained, TaskSeenLegacy, Awake, NoThreads, Roles, CtrlLockInv,
     WorkerLabels, ControllerLabels, CtrlLockLabels, SleepInv, HandleInv,
     LifeInv, StopInv
<1>10. CASE Startup
  BY <1>10 DEF Startup, NoWaiters, FlagUp, ExitsDrained, TaskSeenLegacy,
     Awake, NoThreads, Roles, CtrlLockInv, WorkerLabels, ControllerLabels,
     CtrlLockLabels, SleepInv, HandleInv, LifeInv, StopInv
<1>11. ASSUME NEW w \in Workers, CreateThread(w)
      PROVE  (NoWaiters /\ FlagUp /\ ExitsDrained /\ TaskSeenLegacy)'
  BY <1>11 DEF CreateThread, Creating, NoWaiters, FlagUp, ExitsDrained,
     TaskSeenLegacy, Awake, NoThreads, Roles, CtrlLockInv, WorkerLabels,
     ControllerLabels, CtrlLockLabels, SleepInv, HandleInv, LifeInv, StopInv
<1>12. ASSUME NEW w \in Workers, CreateFails(w)
      PROVE  (NoWaiters /\ FlagUp /\ ExitsDrained /\ TaskSeenLegacy)'
  BY <1>12 DEF CreateFails, Creating, NoWaiters, FlagUp, ExitsDrained,
     TaskSeenLegacy, Awake, NoThreads, Roles, CtrlLockInv, WorkerLabels,
     ControllerLabels, CtrlLockLabels, SleepInv, HandleInv, LifeInv, StopInv
<1>13. CASE StartupDone
  BY <1>13 DEF StartupDone, NoWaiters, FlagUp, ExitsDrained, TaskSeenLegacy,
     Awake, NoThreads, Roles, CtrlLockInv, WorkerLabels, ControllerLabels,
     CtrlLockLabels, SleepInv, HandleInv, LifeInv, StopInv
<1>14. ASSUME NEW c \in Controllers, NEW o \in Ops, Call(c, o)
      PROVE  (NoWaiters /\ FlagUp /\ ExitsDrained /\ TaskSeenLegacy)'
  BY <1>14 DEF Call, NoWaiters, FlagUp, ExitsDrained, TaskSeenLegacy, Awake,
     NoThreads, Roles, CtrlLockInv, WorkerLabels, ControllerLabels,
     CtrlLockLabels, SleepInv, HandleInv, LifeInv, StopInv
<1>15. ASSUME NEW c \in Controllers, LockCtrl(c)
      PROVE  (NoWaiters /\ FlagUp /\ ExitsDrained /\ TaskSeenLegacy)'
  BY <1>15 DEF LockCtrl, NoWaiters, FlagUp, ExitsDrained, TaskSeenLegacy,
     Awake, NoThreads, Roles, CtrlLockInv, WorkerLabels, ControllerLabels,
     CtrlLockLabels, SleepInv, HandleInv, LifeInv, StopInv
<1>16. ASSUME NEW c \in Controllers, AddTask(c)
      PROVE  (NoWaiters /\ FlagUp /\ ExitsDrained /\ TaskSeenLegacy)'
  <2>1. /\ pc[c] = "body" /\ ctrl_lock = c /\ pool_signaled' = TRUE
        /\ pc'[c] \in {"idle", "free"} /\ \A w \in Workers : pc'[w] = pc[w]
        /\ \A d \in Controllers \ {c} : pc'[d] = pc[d]
        /\ UNCHANGED <<thread_handle, stop, blocked>>
    BY <1>16 DEF AddTask, SetSignaled, Return, CtrlLockInv, CtrlLockLabels,
       CondSignal
  <2>2. stop => NoThreads
    BY <2>1 DEF StopInv, CtrlLockInv, CtrlLockLabels
  <2>3. ExitsDrained'
    BY <2>1, <2>2 DEF ExitsDrained, StopInv, NoThreads
  <2>4. ASSUME ~NoThreads
        PROVE  \E w \in Workers : Awake(w)'
    <3>1. PICK w \in Workers : thread_handle[w] = "live"
      BY <2>4 DEF NoThreads
    <3>2. pc[w] \notin {"off", "exit"}
      BY <2>2, <2>4, <3>1 DEF HandleInv, StopInv
    <3>3. CASE w \notin blocked
      BY <2>1, <3>1, <3>2, <3>3 DEF Awake
    <3>4. CASE w \in blocked
      <4>1. w \in Sleepers
        BY <3>4, SleepersFinite
      <4>2. Cardinality(Sleepers) # 0
        BY <4>1, SleepersFinite, FS_EmptySet
      <4>3. wait_num > 0
        BY <4>2, SleepersFinite DEF SleepersCounted
      <4>4. permits' = permits + 1
        BY <1>16, <4>3 DEF AddTask, CondSignal, ReleasePermits
      <4>5. permits' > 0
        BY <4>4
      <4> QED
        BY <2>1, <3>1, <3>2, <4>5 DEF Awake
    <3> QED
      BY <3>3, <3>4
  <2>5. TaskSeenLegacy'
    BY <2>1, <2>4 DEF TaskSeenLegacy, NoThreads
  <2>6. FlagUp' /\ NoWaiters'
    BY <2>1 DEF FlagUp, NoWaiters
  <2> QED
    BY <2>3, <2>5, <2>6
<1>17. ASSUME NEW c \in Controllers, AlreadyStopped(c)
      PROVE  (NoWaiters /\ FlagUp /\ ExitsDrained /\ TaskSeenLegacy)'
  BY <1>17 DEF AlreadyStopped, UnlockPool, Return, NoWaiters, FlagUp,
     ExitsDrained, TaskSeenLegacy, Awake, NoThreads, Roles, CtrlLockInv,
     WorkerLabels, ControllerLabels, CtrlLockLabels, SleepInv, HandleInv,
     LifeInv, StopInv
<1>18. ASSUME NEW c \in Controllers, WaitAllTask(c)
      PROVE  (NoWaiters /\ FlagUp /\ ExitsDrained /\ TaskSeenLegacy)'
  BY <1>18 DEF WaitAllTask
<1>19. ASSUME NEW c \in Controllers, AwaitAllTask(c)
      PROVE  (NoWaiters /\ FlagUp /\ ExitsDrained /\ TaskSeenLegacy)'
  BY <1>19 DEF AwaitAllTask, NoWaiters
<1>20. ASSUME NEW c \in Controllers, WaitAllThrd(c)
      PROVE  (NoWaiters /\ FlagUp /\ ExitsDrained /\ TaskSeenLegacy)'
  <2>1. /\ pool_signaled' = TRUE /\ stop' = TRUE /\ UNCHANGED <<queue, thread_handle>>
        /\ blocked' = blocked /\ permits' \in Nat /\ permits' >= permits
        /\ pc' = [pc EXCEPT ![c] = "join"]
    BY <1>20, SleepersFinite
       DEF WaitAllThrd, SetSignaled, CondBroadcast, ReleasePermits, SleepersCounted
  <2>2. \A w \in Workers : Awake(w) => Awake(w)'
    BY <2>1 DEF Awake
  <2> QED
    BY <2>1, <2>2 DEF NoWaiters, FlagUp, ExitsDrained, TaskSeenLegacy, NoThreads
<1>21. ASSUME NEW c \in Controllers, Join(c)
      PROVE  (NoWaiters /\ FlagUp /\ ExitsDrained /\ TaskSeenLegacy)'
  BY <1>21 DEF Join, Joined, Return, NoWaiters, FlagUp, ExitsDrained,
     TaskSeenLegacy, Awake, NoThreads, Roles, CtrlLockInv, WorkerLabels,
     ControllerLabels, CtrlLockLabels, SleepInv, HandleInv, LifeInv, StopInv
<1>22. ASSUME NEW c \in Controllers, JoinGarbage(c)
      PROVE  (NoWaiters /\ FlagUp /\ ExitsDrained /\ TaskSeenLegacy)'
  BY <1>22 DEF JoinGarbage, NoWaiters, FlagUp, ExitsDrained, TaskSeenLegacy,
     Awake, NoThreads, Roles, CtrlLockInv, WorkerLabels, ControllerLabels,
     CtrlLockLabels, SleepInv, HandleInv, LifeInv, StopInv
<1>23. ASSUME NEW c \in Controllers, Cleanup(c)
      PROVE  (NoWaiters /\ FlagUp /\ ExitsDrained /\ TaskSeenLegacy)'
  BY <1>23 DEF Cleanup, NoWaiters, FlagUp, ExitsDrained, TaskSeenLegacy,
     Awake, NoThreads, Roles, CtrlLockInv, WorkerLabels, ControllerLabels,
     CtrlLockLabels, SleepInv, HandleInv, LifeInv, StopInv
<1>24. CASE UNCHANGED vars
  BY <1>24 DEF NoWaiters, FlagUp, ExitsDrained, TaskSeenLegacy, Awake,
     NoThreads, Roles, CtrlLockInv, WorkerLabels, ControllerLabels,
     CtrlLockLabels, SleepInv, HandleInv, LifeInv, StopInv
<1> QED
  BY <1>1, <1>2, <1>3, <1>4, <1>5, <1>6, <1>7, <1>8, <1>9, <1>10, <1>11,
     <1>12, <1>13, <1>14, <1>15, <1>16, <1>17, <1>18, <1>19, <1>20, <1>21,
     <1>22, <1>23, <1>24
     DEF Next, WorkerStep, CallStep, StartupStep, Exited, Threads

\* Once the pool is told to stop, no worker stays asleep.
JoinAwake ==
    (\E c \in Controllers : pc[c] = "join") =>
        /\ pool_signaled
        /\ IF LegacyCV THEN IsFiniteSet(blocked) /\ Cardinality(blocked) <= permits
                       ELSE blocked = {}


\* The broadcast of waitallthrd reaches all sleepers, and the flag stays up.
LEMMA JoinAwakeStep ==
  ASSUME Inv, LegacyCV => LegacyInv, JoinAwake, [Next]_vars
  PROVE  JoinAwake'
<1> USE ThreadPoolAssumption DEF Inv, TypeOK, Threads, Goto, vars, life,
   poolVars, cvVars, taskVars
<1>1. ASSUME NEW t \in Threads, LockPool(t)
      PROVE  JoinAwake'
  <2>1. \A d \in Controllers : pc'[d] = "join" => pc[d] = "join"
    BY <1>1 DEF LockPool, AfterLock
  <2> QED
    BY <1>1, <2>1 DEF LockPool, JoinAwake
<1>2. ASSUME NEW t \in Threads, TakePermit(t)
      PROVE  JoinAwake'
  <2>1. blocked' = blocked \ {t} /\ permits' = permits - 1 /\ UNCHANGED <<pc, pool_signaled>>
    BY <1>2 DEF TakePermit
  <2>2. CASE \E d \in Controllers : pc[d] = "join"
    <3>1. /\ LegacyCV /\ t \in blocked /\ pool_signaled
          /\ IsFiniteSet(blocked) /\ Cardinality(blocked) <= permits
      BY <1>2, <2>2 DEF TakePermit, JoinAwake
    <3>2. IsFiniteSet(blocked') /\ Cardinality(blocked') = Cardinality(blocked) - 1
      BY <2>1, <3>1, FS_RemoveElement
    <3>3. Cardinality(blocked) \in Nat
      BY <3>1, FS_CardinalityType
    <3> QED
      BY <2>1, <3>1, <3>2, <3>3 DEF JoinAwake
  <2> QED
    BY <2>1, <2>2 DEF JoinAwake
<1>3. ASSUME NEW t \in Threads, SpuriousWakeup(t)
      PROVE  JoinAwake'
  BY <1>3 DEF SpuriousWakeup, JoinAwake
<1>4. ASSUME NEW w \in Workers, WorkerExit(w)
      PROVE  JoinAwake'
  BY <1>4 DEF WorkerExit, MayExit, UnlockPool, JoinAwake
<1>5. ASSUME NEW w \in Workers, WorkerIdle(w)
      PROVE  JoinAwake'
  BY <1>5 DEF WorkerIdle, JoinAwake, StopInv
<1>6. ASSUME NEW w \in Workers, WorkerAwait(w)
      PROVE  JoinAwake'
  <2>1. CASE ~pool_signaled /\ CondWait(w)
    BY <1>6, <2>1 DEF WorkerAwait, CondWait, JoinAwake
  <2>2. CASE pool_signaled /\ UnlockPool /\ Goto(w, "top") /\ UNCHANGED cvVars
    BY <1>6, <2>2 DEF WorkerAwait, JoinAwake
  <2> QED
    BY <1>6, <2>1, <2>2 DEF WorkerAwait
<1>7. ASSUME NEW w \in Workers, TakeTask(w)
      PROVE  JoinAwake'
  BY <1>7 DEF TakeTask, PopFront, CountTask, UnlockPool, JoinAwake
<1>8. ASSUME NEW w \in Workers, RunTask(w)
      PROVE  JoinAwake'
  BY <1>8 DEF RunTask, JoinAwake
<1>9. ASSUME NEW w \in Workers, Retire(w)
      PROVE  JoinAwake'
  BY <1>9 DEF Retire, UncountTask, UnlockPool, JoinAwake
<1>10. CASE Startup
  BY <1>10 DEF Startup, JoinAwake
<1>11. ASSUME NEW w \in Workers, CreateThread(w)
      PROVE  JoinAwake'
  BY <1>11 DEF CreateThread, Creating, JoinAwake
<1>12. ASSUME NEW w \in Workers, CreateFails(w)
      PROVE  JoinAwake'
  BY <1>12 DEF CreateFails, Creating, JoinAwake
<1>13. CASE StartupDone
  BY <1>13 DEF StartupDone, JoinAwake
<1>14. ASSUME NEW c \in Controllers, NEW o \in Ops, Call(c, o)
      PROVE  JoinAwake'
  BY <1>14 DEF Call, JoinAwake
<1>15. ASSUME NEW c \in Controllers, LockCtrl(c)
      PROVE  JoinAwake'
  BY <1>15 DEF LockCtrl, JoinAwake
<1>16. ASSUME NEW c \in Controllers, AddTask(c)
      PROVE  JoinAwake'
  <2>1. ctrl_lock = c
    BY <1>16 DEF AddTask, CtrlLockInv, CtrlLockLabels
  <2> QED
    BY <1>16, <2>1 DEF AddTask, Return, JoinAwake, CtrlLockInv, CtrlLockLabels
<1>17. ASSUME NEW c \in Controllers, AlreadyStopped(c)
      PROVE  JoinAwake'
  BY <1>17 DEF AlreadyStopped, UnlockPool, Return, JoinAwake
<1>18. ASSUME NEW c \in Controllers, WaitAllTask(c)
      PROVE  JoinAwake'
  BY <1>18 DEF WaitAllTask, JoinAwake
<1>19. ASSUME NEW c \in Controllers, AwaitAllTask(c)
      PROVE  JoinAwake'
  <2>1. ctrl_lock = c
    BY <1>19 DEF AwaitAllTask, CtrlLockInv, CtrlLockLabels
  <2> QED
    BY <1>19, <2>1
       DEF AwaitAllTask, CondWait, Return, JoinAwake, CtrlLockInv, CtrlLockLabels
<1>20. ASSUME NEW c \in Controllers, WaitAllThrd(c)
      PROVE  JoinAwake'
  <2>1. pool_signaled'
    BY <1>20 DEF WaitAllThrd, SetSignaled
  <2>2. CASE ~LegacyCV
    BY <1>20, <2>1, <2>2 DEF WaitAllThrd, CondBroadcast, JoinAwake
  <2>3. CASE LegacyCV
    <3>1. /\ IsFiniteSet(Sleepers) /\ Cardinality(Sleepers) \in Nat
          /\ blocked \subseteq Sleepers
      BY <2>3, SleepersFinite DEF LegacyInv
    <3>2. IsFiniteSet(blocked) /\ Cardinality(blocked) <= Cardinality(Sleepers)
      BY <3>1, FS_Subset
    <3>3. Cardinality(blocked) \in Nat
      BY <3>2, FS_CardinalityType
    <3>4. /\ blocked' = blocked
          /\ permits' = IF wait_num > 0 THEN permits + wait_num ELSE permits
      BY <1>20, <2>3 DEF WaitAllThrd, CondBroadcast, ReleasePermits
    <3>5. Cardinality(blocked) <= permits'
      BY <2>3, <3>1, <3>2, <3>3, <3>4 DEF LegacyInv, SleepersCounted
    <3> QED
      BY <2>1, <2>3, <3>2, <3>4, <3>5 DEF JoinAwake
  <2> QED
    BY <2>2, <2>3
<1>21. ASSUME NEW c \in Controllers, Join(c)
      PROVE  JoinAwake'
  BY <1>21 DEF Join, Return, JoinAwake
<1>22. ASSUME NEW c \in Controllers, JoinGarbage(c)
      PROVE  JoinAwake'
  BY <1>22 DEF JoinGarbage, JoinAwake
<1>23. ASSUME NEW c \in Controllers, Cleanup(c)
      PROVE  JoinAwake'
  BY <1>23 DEF Cleanup, JoinAwake
<1>24. CASE UNCHANGED vars
  BY <1>24 DEF JoinAwake
<1> QED
  BY <1>1, <1>2, <1>3, <1>4, <1>5, <1>6, <1>7, <1>8, <1>9, <1>10, <1>11,
     <1>12, <1>13, <1>14, <1>15, <1>16, <1>17, <1>18, <1>19, <1>20, <1>21,
     <1>22, <1>23, <1>24
     DEF Next, WorkerStep, CallStep, StartupStep, Exited, Threads

\* If nobody sleeps without somebody who will wake him, somebody can go on.
LEMMA SomebodyGoesOn ==
  ASSUME Inv, JoinAwake,
         \/ ~LegacyCV /\ WakeInv
         \/ LegacyCV /\ NoWaiters
  PROVE  NobodyStuck
<1> USE DEF CanGoOn
<1> SUFFICES ASSUME NEW c \in Controllers, pc[c] \notin {"idle", "done"},
                    NEW v \in Workers, pc[v] # "off"
             PROVE  \E t \in Threads : CanGoOn(t)
  BY DEF NobodyStuck
<1>1. CASE pool_lock # Nobody
  <2>1. pool_lock \in Threads /\ pc[pool_lock] \in PoolLockLabels
    BY <1>1 DEF Inv, TypeOK, PoolLockInv
  <2> QED
    BY <2>1 DEF PoolLockLabels
<1>2. ASSUME pool_lock = Nobody, NEW t \in Threads,
             pc[t] \in {"top", "finish", "pool", "wait"},
             t \notin blocked
      PROVE  CanGoOn(t)
  BY <1>2 DEF AfterLock
<1>3. ASSUME pool_lock = Nobody, NEW w \in Workers,
             pc[w] \notin {"off", "exit"}, w \notin blocked
      PROVE  CanGoOn(w)
  <2>1. pc[w] \in {"top", "finish", "wait", "check", "run", "retire", "await"}
    BY <1>3 DEF Inv, Roles, WorkerLabels
  <2> QED
    BY <1>2, <1>3, <2>1 DEF Threads
<1>4. CASE pool_lock = Nobody /\ ctrl_lock = Nobody
  <2>1. pc[c] \notin CtrlLockLabels
    BY <1>4, ThreadPoolAssumption DEF Inv, CtrlLockInv, Threads
  <2>2. pc[c] \in {"ctrl", "free"}
    BY <2>1 DEF Inv, Roles, ControllerLabels, CtrlLockLabels
  <2> QED
    BY <1>4, <2>2 DEF Threads
<1>5. CASE pool_lock = Nobody /\ ctrl_lock # Nobody
  <2>1. PICK d \in Controllers : pc[d] \in CtrlLockLabels
    BY <1>5 DEF Inv, TypeOK, CtrlLockInv
  <2>2. d \in Threads
    BY DEF Threads
  <2>3. CASE pc[d] \in {"create", "body", "await"}
    BY <2>2, <2>3
  <2>4. CASE pc[d] = "pool"
    BY <1>2, <1>5, <2>2, <2>4 DEF Inv, SleepInv
  <2>5. CASE pc[d] = "join"
    <3>1. CASE Joined
      BY <2>2, <2>5, <3>1
    <3>2. CASE ~Joined
      <4>1. PICK w \in Workers : thread_handle[w] = "live" /\ pc[w] # "exit"
        BY <3>2 DEF Joined
      <4>2. pc[w] \notin {"off", "exit"} /\ w \in Threads
        BY <4>1 DEF Inv, HandleInv, Threads
      <4>3. CASE w \notin blocked
        BY <1>3, <1>5, <4>2, <4>3
      <4>4. CASE w \in blocked
        <5>1. LegacyCV /\ IsFiniteSet(blocked) /\ Cardinality(blocked) <= permits
          BY <2>5, <4>4 DEF JoinAwake
        <5>2. Cardinality(blocked) \in Nat /\ Cardinality(blocked) # 0
          BY <4>4, <5>1, FS_CardinalityType, FS_EmptySet
        <5>3. permits > 0
          BY <5>1, <5>2 DEF Inv, TypeOK
        <5> QED
          BY <4>2, <4>4, <5>3
      <4> QED
        BY <4>3, <4>4
    <3> QED
      BY <3>1, <3>2
  <2>6. CASE pc[d] = "wait"
    <3>1. CASE d \notin blocked
      BY <1>2, <1>5, <2>2, <2>6, <3>1
    <3>2. CASE d \in blocked
      <4>1. ~LegacyCV /\ WakeInv
        BY <2>6 DEF NoWaiters
      <4>2. ~stop
        BY <2>6 DEF Inv, StopInv
      <4>3. thread_handle[v] = "live"
        BY <4>2 DEF Inv, StopInv, HandleInv
      <4>4. ~NoThreads
        BY <4>3 DEF NoThreads
      <4>5. \E w \in Workers : pc[w] \notin {"off", "exit"} /\ w \notin blocked
        <5>1. CASE queue # <<>>
          BY <4>1, <4>4, <5>1 DEF WakeInv, TaskSeen
        <5>2. CASE \E w \in Workers : pc[w] \in {"top", "check", "run", "finish", "retire"}
          BY <5>2 DEF Inv, SleepInv
        <5> QED
          BY <3>2, <4>1, <4>4, <5>1, <5>2 DEF WakeInv, WaiterSeen
      <4>6. PICK w \in Workers : pc[w] \notin {"off", "exit"} /\ w \notin blocked
        BY <4>5
      <4>7. w \in Threads
        BY DEF Threads
      <4> QED
        BY <1>3, <1>5, <4>6, <4>7
    <3> QED
      BY <3>1, <3>2
  <2> QED
    BY <2>1, <2>3, <2>4, <2>5, <2>6 DEF CtrlLockLabels
<1> QED
  BY <1>1, <1>4, <1>5

-----------------------------------------------------------------------------
(* Both kinds of condition variable.                                       *)

\* What the kind of condition variable asks for.
SeenInv == IF LegacyCV THEN LegacyInv ELSE WakeInv

LEMMA SeenInitially == Init => SeenInv /\ JoinAwake
<1> SUFFICES ASSUME Init
             PROVE  SeenInv /\ JoinAwake
  OBVIOUS
<1>1. \A w \in Workers : pc[w] = "off"
  BY DEF Init, Threads
<1>2. \A c \in Controllers : pc[c] = "idle"
  BY ThreadPoolAssumption DEF Init, Threads
<1>3. JoinAwake
  BY <1>2 DEF JoinAwake
<1>4. Sleepers = {}
  BY <1>1 DEF Sleepers
<1>5. SleepersCounted
  BY <1>4, FS_EmptySet DEF SleepersCounted, Init
<1>6. NoWaiters /\ FlagUp /\ ExitsDrained /\ TaskSeenLegacy
  BY <1>2 DEF Init, NoWaiters, FlagUp, ExitsDrained, TaskSeenLegacy
<1> QED
  BY <1>3, <1>5, <1>6, InitWake DEF SeenInv, LegacyInv

LEMMA SeenStep ==
  ASSUME ~LegacyCV \/ "waitalltask" \notin Ops,
         Inv, SeenInv, JoinAwake, [Next]_vars
  PROVE  (SeenInv /\ JoinAwake)'
<1>1. CASE LegacyCV
  <2>1. LegacyInv'
    BY <1>1, SleepersStep, LegacySeenStep DEF SeenInv, LegacyInv
  <2> QED
    BY <1>1, <2>1, JoinAwakeStep DEF SeenInv
<1>2. CASE ~LegacyCV
  BY <1>2, WakeStep, JoinAwakeStep DEF SeenInv
<1> QED
  BY <1>1, <1>2

LEMMA SeenInvariance ==
  ASSUME ~LegacyCV \/ "waitalltask" \notin Ops
  PROVE  Spec => [](Inv /\ SeenInv /\ JoinAwake)
<1>1. Inv /\ SeenInv /\ JoinAwake /\ [Next]_vars => (SeenInv /\ JoinAwake)'
  BY SeenStep
<1> QED
  BY <1>1, SeenInitially, Invariance, PTL DEF Spec

(* No wakeup is lost, whatever is signalled, spurious or fails: a task in  *)
(* the queue or a waitalltask asleep leaves a worker awake, or a permit    *)
(* for one, that will see to it.  With the semaphore this asks for a       *)
(* program that does not call waitalltask, which could take the permit     *)
(* that was meant for a worker.                                            *)
THEOREM WakeupsKept ==
  ASSUME ~LegacyCV \/ "waitalltask" \notin Ops
  PROVE  Spec => []NoLostWakeup
<1>1. Inv /\ SeenInv => NoLostWakeup
  <2> SUFFICES ASSUME Inv, SeenInv
               PROVE  NoLostWakeup
    OBVIOUS
  <2>1. CASE LegacyCV
    <3>1. Controllers \cap blocked = {}
      BY <2>1 DEF SeenInv, LegacyInv, NoWaiters, Inv, SleepInv
    <3> QED
      BY <2>1, <3>1
         DEF SeenInv, LegacyInv, TaskSeenLegacy, NoLostWakeup, NoThreads
  <2> QED
    BY <2>1, WakeEnough DEF SeenInv
<1> QED
  BY <1>1, SeenInvariance, PTL

(* The pool never deadlocks: as long as a call is in progress some thread  *)
(* can go on.                                                              *)
THEOREM NeverStuck ==
  ASSUME ~LegacyCV \/ "waitalltask" \notin Ops
  PROVE  Spec => []NobodyStuck
<1>1. Inv /\ SeenInv /\ JoinAwake => NobodyStuck
  BY SomebodyGoesOn DEF SeenInv, LegacyInv
<1> QED
  BY <1>1, SeenInvariance, PTL

-----------------------------------------------------------------------------
(* waitalltask and waitallthrd.                                            *)

\* The two ways in which waitalltask returns.
LEMMA ReturnsWhen ==
  ASSUME Inv, [Next]_vars, NEW d \in Controllers, op[d] = "waitalltask",
         pc[d] \in {"body", "await"}, pc'[d] = "idle"
  PROVE  (pc[d] = "body" /\ stop) \/ ~Outstanding
<1> USE ThreadPoolAssumption DEF Inv, TypeOK, Roles, Threads, Goto, vars,
   life, poolVars, cvVars, taskVars
<1>1. ASSUME NEW t \in Threads, LockPool(t)
      PROVE  (pc[d] = "body" /\ stop) \/ ~Outstanding
  BY <1>1 DEF LockPool, AfterLock, Outstanding
<1>2. ASSUME NEW t \in Threads, TakePermit(t)
      PROVE  (pc[d] = "body" /\ stop) \/ ~Outstanding
  BY <1>2 DEF TakePermit, Outstanding
<1>3. ASSUME NEW t \in Threads, SpuriousWakeup(t)
      PROVE  (pc[d] = "body" /\ stop) \/ ~Outstanding
  BY <1>3 DEF SpuriousWakeup, Outstanding
<1>4. ASSUME NEW w \in Workers, WorkerExit(w)
      PROVE  (pc[d] = "body" /\ stop) \/ ~Outstanding
  BY <1>4 DEF WorkerExit, MayExit, UnlockPool, Outstanding
<1>5. ASSUME NEW w \in Workers, WorkerIdle(w)
      PROVE  (pc[d] = "body" /\ stop) \/ ~Outstanding
  BY <1>5 DEF WorkerIdle, CondBroadcast, ReleasePermits, Outstanding
<1>6. ASSUME NEW w \in Workers, WorkerAwait(w)
      PROVE  (pc[d] = "body" /\ stop) \/ ~Outstanding
  BY <1>6 DEF WorkerAwait, CondWait, UnlockPool, Outstanding
<1>7. ASSUME NEW w \in Workers, TakeTask(w)
      PROVE  (pc[d] = "body" /\ stop) \/ ~Outstanding
  BY <1>7 DEF TakeTask, PopFront, CountTask, UnlockPool, Outstanding
<1>8. ASSUME NEW w \in Workers, RunTask(w)
      PROVE  (pc[d] = "body" /\ stop) \/ ~Outstanding
  BY <1>8 DEF RunTask, Outstanding
<1>9. ASSUME NEW w \in Workers, Retire(w)
      PROVE  (pc[d] = "body" /\ stop) \/ ~Outstanding
  BY <1>9 DEF Retire, UncountTask, UnlockPool, Outstanding
<1>10. CASE Startup
  BY <1>10 DEF Startup, Outstanding
<1>11. ASSUME NEW w \in Workers, CreateThread(w)
      PROVE  (pc[d] = "body" /\ stop) \/ ~Outstanding
  BY <1>11 DEF CreateThread, Creating, Outstanding
<1>12. ASSUME NEW w \in Workers, CreateFails(w)
      PROVE  (pc[d] = "body" /\ stop) \/ ~Outstanding
  BY <1>12 DEF CreateFails, Creating, Outstanding
<1>13. CASE StartupDone
  BY <1>13 DEF StartupDone, Outstanding
<1>14. ASSUME NEW c \in Controllers, NEW o \in Ops, Call(c, o)
      PROVE  (pc[d] = "body" /\ stop) \/ ~Outstanding
  BY <1>14 DEF Call, Outstanding
<1>15. ASSUME NEW c \in Controllers, LockCtrl(c)
      PROVE  (pc[d] = "body" /\ stop) \/ ~Outstanding
  BY <1>15 DEF LockCtrl, Outstanding
<1>16. ASSUME NEW c \in Controllers, AddTask(c)
      PROVE  (pc[d] = "body" /\ stop) \/ ~Outstanding
  BY <1>16 DEF AddTask, PushBack, CondSignal, WakeOne, ReleasePermits,
     SetSignaled, UnlockPool, Return, Outstanding
<1>17. ASSUME NEW c \in Controllers, AlreadyStopped(c)
      PROVE  (pc[d] = "body" /\ stop) \/ ~Outstanding
  BY <1>17 DEF AlreadyStopped, UnlockPool, Return, Outstanding
<1>18. ASSUME NEW c \in Controllers, WaitAllTask(c)
      PROVE  (pc[d] = "body" /\ stop) \/ ~Outstanding
  BY <1>18 DEF WaitAllTask, Outstanding
<1>19. ASSUME NEW c \in Controllers, AwaitAllTask(c)
      PROVE  (pc[d] = "body" /\ stop) \/ ~Outstanding
  BY <1>19 DEF AwaitAllTask, Outstanding, CondWait, UnlockPool, Return,
     Outstanding
<1>20. ASSUME NEW c \in Controllers, WaitAllThrd(c)
      PROVE  (pc[d] = "body" /\ stop) \/ ~Outstanding
  BY <1>20 DEF WaitAllThrd, CondBroadcast, ReleasePermits, SetSignaled,
     UnlockPool, Outstanding
<1>21. ASSUME NEW c \in Controllers, Join(c)
      PROVE  (pc[d] = "body" /\ stop) \/ ~Outstanding
  BY <1>21 DEF Join, Joined, Return, Outstanding
<1>22. ASSUME NEW c \in Controllers, JoinGarbage(c)
      PROVE  (pc[d] = "body" /\ stop) \/ ~Outstanding
  BY <1>22 DEF JoinGarbage, Outstanding
<1>23. ASSUME NEW c \in Controllers, Cleanup(c)
      PROVE  (pc[d] = "body" /\ stop) \/ ~Outstanding
  BY <1>23 DEF Cleanup, Outstanding
<1>24. CASE UNCHANGED vars
  BY <1>24 DEF Outstanding
<1> QED
  BY <1>1, <1>2, <1>3, <1>4, <1>5, <1>6, <1>7, <1>8, <1>9, <1>10, <1>11,
     <1>12, <1>13, <1>14, <1>15, <1>16, <1>17, <1>18, <1>19, <1>20, <1>21,
     <1>22, <1>23, <1>24
     DEF Next, WorkerStep, CallStep, StartupStep, Exited, Threads

(* waitalltask returns only when no task runs and none is queued, except   *)
(* in a pool that was stopped before, where it returns at once.            *)
THEOREM WaitAllTaskSafe == Spec => WaitAllTaskSound
<1> DEFINE Sound ==
       \A c \in Controllers :
          op[c] = "waitalltask" /\ pc[c] \in {"body", "await"} /\ pc'[c] = "idle"
          => /\ \A w \in Workers : pc[w] # "run"
             /\ queue = <<>> \/ stop
<1>1. ASSUME Inv, [Next]_vars
      PROVE  Sound
  <2> SUFFICES ASSUME NEW c \in Controllers, op[c] = "waitalltask",
                      pc[c] \in {"body", "await"}, pc'[c] = "idle"
               PROVE  /\ \A w \in Workers : pc[w] # "run"
                      /\ queue = <<>> \/ stop
    OBVIOUS
  <2>1. CASE pc[c] = "body" /\ stop
    <3>1. NoThreads
      BY <1>1, <2>1 DEF Inv, StopInv, CtrlLockInv, CtrlLockLabels
    <3> QED
      BY <1>1, <2>1, <3>1 DEF Inv, HandleInv, NoThreads
  <2>2. CASE ~Outstanding
    <3>1. queue = <<>> /\ active_thrd_count = 0
      BY <1>1, <2>2 DEF Outstanding, Inv, TypeOK
    <3>2. ASSUME NEW w \in Workers, pc[w] = "run"
          PROVE  FALSE
      <4>1. w \in Active
        BY <3>2 DEF Active
      <4> QED
        BY <1>1, <3>1, <4>1, ActivePositive DEF Inv
    <3> QED
      BY <3>1, <3>2
  <2> QED
    BY <1>1, <2>1, <2>2, ReturnsWhen
<1>2. Inv /\ [Next]_vars => [Sound]_vars
  BY <1>1
<1> QED
  BY <1>2, Invariance, PTL DEF Spec, WaitAllTaskSound
=============================================================================
