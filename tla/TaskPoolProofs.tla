---------------------------- MODULE TaskPoolProofs ----------------------------
(***************************************************************************)
(* ThreadPool implements TaskPool, for every number of threads,            *)
(* controllers and tasks: each accepted task runs exactly once, in order,  *)
(* and stopping drains the queue.                                          *)
(*                                                                         *)
(* PlaceInv gives each accepted task its one place: the queue holds the    *)
(* last tasks accepted, in order (QueueInv), and each of the others is at  *)
(* one worker or executed (RunnersInv, RunsInv, HeldInv).  EndInv says     *)
(* what a cleanup leaves, DrainInv that a worker leaves only a drained     *)
(* queue, CreatedInv that a pool that was started has all its threads if   *)
(* none could be refused.                                                  *)
(***************************************************************************)
EXTENDS ThreadPoolProofs

Taken == 1 .. (accepted - Len(queue))

QueueInv ==
    /\ Len(queue) <= accepted
    /\ \A i \in 1 .. Len(queue) : queue[i] = accepted - Len(queue) + i

RunnersInv ==
    \A w \in Workers : pc[w] = "run" =>
        /\ task[w] \in Taken
        /\ runs[task[w]] = 0
        /\ \A v \in Workers \ {w} : pc[v] = "run" => task[v] # task[w]

RunsInv ==
    \A t \in 1 .. MaxTasks : runs[t] \in {0, 1} /\ (runs[t] = 1 => t \in Taken)

HeldInv ==
    ctx \in {"null", "live"} =>
        \A t \in Taken : runs[t] = 1 \/ \E w \in Workers : pc[w] = "run" /\ task[w] = t

PlaceInv == QueueInv /\ RunnersInv /\ RunsInv /\ HeldInv

EndInv ==
    /\ \A c \in Controllers : op[c] = "cleanup" =>
          c = Main /\ \A d \in Controllers \ {Main} : pc[d] = "idle"
    /\ \A c \in Controllers : pc[c] \in {"free", "done"} => op[c] = "cleanup"
    /\ ctx = "freed" => pc[Main] = "done" /\ stop
    /\ \A c \in Controllers : pc[c] \notin {"idle", "create", "done"} => ctx # "null"

DrainInv == \A w \in Workers : pc[w] = "exit" => NoThreads \/ queue = <<>>

CreatedInv ==
    "create" \notin MayFail /\ (\/ ~stop /\ pc[Main] # "create"
                                \/ \E c \in Controllers : pc[c] = "join")
    => \A w \in Workers : thread_handle[w] = "live"

-----------------------------------------------------------------------------
(* The steps that a TaskPool can see.                                      *)

\* Every other step leaves the tasks, the workers that run one, the flags of
\* the pool and the joins alone.
Still ==
    /\ UNCHANGED <<queue, accepted, runs, task, ctx, stop>>
    /\ \A w \in Workers : pc'[w] = "run" <=> pc[w] = "run"
    /\ \A c \in Controllers : pc'[c] = "join" <=> pc[c] = "join"

Seen ==
    \/ /\ ctx # "crashed"
       /\ \/ \E w \in Workers : TakeTask(w) \/ RunTask(w)
          \/ \E c \in Controllers : \/ AddTask(c) \/ Cleanup(c) \/ WaitAllThrd(c)
                                    \/ Join(c) \/ JoinGarbage(c)
    \/ Startup

\* A step is one of those, or still.
LEMMA StepCases ==
  ASSUME Inv, [Next]_vars
  PROVE  Seen \/ Still
<1> USE ThreadPoolAssumption DEF Inv, TypeOK, Roles, HandleInv,
   WorkerLabels, ControllerLabels, Threads, Goto, vars, life, poolVars,
   cvVars, taskVars
<1>1. ASSUME NEW t \in Threads, LockPool(t)
      PROVE  Seen \/ Still
  BY <1>1 DEF LockPool, AfterLock, Still
<1>2. ASSUME NEW t \in Threads, TakePermit(t)
      PROVE  Seen \/ Still
  BY <1>2 DEF TakePermit, Still
<1>3. ASSUME NEW t \in Threads, SpuriousWakeup(t)
      PROVE  Seen \/ Still
  BY <1>3 DEF SpuriousWakeup, Still
<1>4. ASSUME NEW w \in Workers, WorkerExit(w)
      PROVE  Seen \/ Still
  BY <1>4 DEF WorkerExit, MayExit, UnlockPool, Still
<1>5. ASSUME NEW w \in Workers, WorkerIdle(w)
      PROVE  Seen \/ Still
  BY <1>5 DEF WorkerIdle, CondBroadcast, ReleasePermits, Still
<1>6. ASSUME NEW w \in Workers, WorkerAwait(w)
      PROVE  Seen \/ Still
  BY <1>6 DEF WorkerAwait, CondWait, UnlockPool, Still
<1>7. ASSUME NEW w \in Workers, TakeTask(w), ctx # "crashed"
      PROVE  Seen \/ Still
  BY <1>7 DEF Seen
<1>8. ASSUME NEW w \in Workers, RunTask(w), ctx # "crashed"
      PROVE  Seen \/ Still
  BY <1>8 DEF Seen
<1>9. ASSUME NEW w \in Workers, Retire(w)
      PROVE  Seen \/ Still
  BY <1>9 DEF Retire, UncountTask, UnlockPool, Still
<1>10. CASE Startup
  BY <1>10 DEF Seen
<1>11. ASSUME NEW w \in Workers, CreateThread(w)
      PROVE  Seen \/ Still
  BY <1>11 DEF CreateThread, Creating, Still
<1>12. ASSUME NEW w \in Workers, CreateFails(w)
      PROVE  Seen \/ Still
  BY <1>12 DEF CreateFails, Creating, Still
<1>13. CASE StartupDone
  BY <1>13 DEF StartupDone, Still
<1>14. ASSUME NEW c \in Controllers, NEW o \in Ops, Call(c, o)
      PROVE  Seen \/ Still
  BY <1>14 DEF Call, Still
<1>15. ASSUME NEW c \in Controllers, LockCtrl(c)
      PROVE  Seen \/ Still
  BY <1>15 DEF LockCtrl, Still
<1>16. ASSUME NEW c \in Controllers, AddTask(c), ctx # "crashed"
      PROVE  Seen \/ Still
  BY <1>16 DEF Seen
<1>17. ASSUME NEW c \in Controllers, AlreadyStopped(c)
      PROVE  Seen \/ Still
  BY <1>17 DEF AlreadyStopped, UnlockPool, Return, Still
<1>18. ASSUME NEW c \in Controllers, WaitAllTask(c)
      PROVE  Seen \/ Still
  BY <1>18 DEF WaitAllTask, Still
<1>19. ASSUME NEW c \in Controllers, AwaitAllTask(c)
      PROVE  Seen \/ Still
  BY <1>19 DEF AwaitAllTask, Outstanding, CondWait, UnlockPool, Return,
     Still
<1>20. ASSUME NEW c \in Controllers, WaitAllThrd(c), ctx # "crashed"
      PROVE  Seen \/ Still
  BY <1>20 DEF Seen
<1>21. ASSUME NEW c \in Controllers, Join(c), ctx # "crashed"
      PROVE  Seen \/ Still
  BY <1>21 DEF Seen
<1>22. ASSUME NEW c \in Controllers, JoinGarbage(c), ctx # "crashed"
      PROVE  Seen \/ Still
  BY <1>22 DEF Seen
<1>23. ASSUME NEW c \in Controllers, Cleanup(c), ctx # "crashed"
      PROVE  Seen \/ Still
  BY <1>23 DEF Seen
<1>24. CASE UNCHANGED vars
  BY <1>24 DEF Still
<1> QED
  BY <1>1, <1>2, <1>3, <1>4, <1>5, <1>6, <1>7, <1>8, <1>9, <1>10, <1>11,
     <1>12, <1>13, <1>14, <1>15, <1>16, <1>17, <1>18, <1>19, <1>20, <1>21,
     <1>22, <1>23, <1>24
     DEF Next, WorkerStep, CallStep, StartupStep, Exited, Threads

\* What ends the pool stays in its order.
LEMMA EndStep ==
  ASSUME Inv, EndInv, DrainInv, CreatedInv, [Next]_vars
  PROVE  (EndInv /\ DrainInv /\ CreatedInv)'
<1> USE ThreadPoolAssumption DEF Inv, TypeOK, Roles, WorkerLabels,
   ControllerLabels, Threads, Goto, EndInv, DrainInv, CreatedInv, NoThreads,
   vars, life, poolVars, cvVars, taskVars
<1>1. ASSUME NEW t \in Threads, LockPool(t)
      PROVE  (EndInv /\ DrainInv /\ CreatedInv)'
  BY <1>1 DEF LockPool, AfterLock, CtrlLockInv, CtrlLockLabels, HandleInv,
     LifeInv, StopInv
<1>2. ASSUME NEW t \in Threads, TakePermit(t)
      PROVE  (EndInv /\ DrainInv /\ CreatedInv)'
  BY <1>2 DEF TakePermit, CtrlLockInv, CtrlLockLabels, HandleInv, LifeInv,
     StopInv
<1>3. ASSUME NEW t \in Threads, SpuriousWakeup(t)
      PROVE  (EndInv /\ DrainInv /\ CreatedInv)'
  BY <1>3 DEF SpuriousWakeup, CtrlLockInv, CtrlLockLabels, HandleInv,
     LifeInv, StopInv
<1>4. ASSUME NEW w \in Workers, WorkerExit(w)
      PROVE  (EndInv /\ DrainInv /\ CreatedInv)'
  BY <1>4 DEF WorkerExit, MayExit, UnlockPool, CtrlLockInv, CtrlLockLabels,
     HandleInv, LifeInv, StopInv
<1>5. ASSUME NEW w \in Workers, WorkerIdle(w)
      PROVE  (EndInv /\ DrainInv /\ CreatedInv)'
  BY <1>5 DEF WorkerIdle, CondBroadcast, ReleasePermits, CtrlLockInv,
     CtrlLockLabels, HandleInv, LifeInv, StopInv
<1>6. ASSUME NEW w \in Workers, WorkerAwait(w)
      PROVE  (EndInv /\ DrainInv /\ CreatedInv)'
  <2>1. pc' = [pc EXCEPT ![w] = "wait"] \/ pc' = [pc EXCEPT ![w] = "top"]
    BY <1>6 DEF WorkerAwait, CondWait
  <2>2. UNCHANGED <<ctx, thread_handle, op, queue, stop>> /\ pc[w] = "await"
    BY <1>6 DEF WorkerAwait
  <2>3. w \notin Controllers /\ pc \in [Threads -> Labels] /\ w \in Threads
    OBVIOUS
  <2>4. /\ \A c \in Controllers : pc'[c] = pc[c]
        /\ pc'[w] # "exit" /\ \A v \in Workers \ {w} : pc'[v] = pc[v]
    BY <2>1, <2>3
  <2>5. EndInv'
    BY <2>2, <2>4
  <2>6. DrainInv'
    <3>1. NoThreads \/ queue = <<>> => NoThreads' \/ queue' = <<>>
      BY <2>2
    <3>2. ASSUME NEW v \in Workers, pc'[v] = "exit"
          PROVE  NoThreads \/ queue = <<>>
      BY <2>4, <3>2
    <3> QED
      BY <3>1, <3>2
  <2>7. CreatedInv'
    BY <2>2, <2>4
  <2> QED
    BY <2>5, <2>6, <2>7
<1>7. ASSUME NEW w \in Workers, TakeTask(w), ctx # "crashed"
      PROVE  (EndInv /\ DrainInv /\ CreatedInv)'
  BY <1>7 DEF TakeTask, PopFront, CountTask, UnlockPool, CtrlLockInv,
     CtrlLockLabels, HandleInv, LifeInv, StopInv
<1>8. ASSUME NEW w \in Workers, RunTask(w), ctx # "crashed"
      PROVE  (EndInv /\ DrainInv /\ CreatedInv)'
  BY <1>8 DEF RunTask, CtrlLockInv, CtrlLockLabels, HandleInv, LifeInv,
     StopInv
<1>9. ASSUME NEW w \in Workers, Retire(w)
      PROVE  (EndInv /\ DrainInv /\ CreatedInv)'
  BY <1>9 DEF Retire, UncountTask, UnlockPool, CtrlLockInv, CtrlLockLabels,
     HandleInv, LifeInv, StopInv
<1>10. CASE Startup
  BY <1>10 DEF Startup, CtrlLockInv, CtrlLockLabels, HandleInv, LifeInv,
     StopInv
<1>11. ASSUME NEW w \in Workers, CreateThread(w)
      PROVE  (EndInv /\ DrainInv /\ CreatedInv)'
  BY <1>11 DEF CreateThread, Creating, CtrlLockInv, CtrlLockLabels,
     HandleInv, LifeInv, StopInv
<1>12. ASSUME NEW w \in Workers, CreateFails(w)
      PROVE  (EndInv /\ DrainInv /\ CreatedInv)'
  BY <1>12 DEF CreateFails, Creating, CtrlLockInv, CtrlLockLabels,
     HandleInv, LifeInv, StopInv
<1>13. CASE StartupDone
  BY <1>13 DEF StartupDone, CtrlLockInv, CtrlLockLabels, HandleInv, LifeInv,
     StopInv
<1>14. ASSUME NEW c \in Controllers, NEW o \in Ops, Call(c, o)
      PROVE  (EndInv /\ DrainInv /\ CreatedInv)'
  <2>1. /\ ctx = "live" /\ pc[Main] # "create" /\ pc[c] = "idle"
        /\ op' = [op EXCEPT ![c] = o] /\ pc' = [pc EXCEPT ![c] = "ctrl"]
        /\ UNCHANGED <<ctx, thread_handle, queue, stop>>
    BY <1>14 DEF Call
  <2>2. /\ \A d \in Controllers : op[d] # "cleanup"
        /\ o = "cleanup" => c = Main /\ \A d \in Controllers : pc[d] = "idle"
    BY <1>14 DEF Call, MayCall
  <2>3. c \notin Workers
    OBVIOUS
  <2>4. EndInv'
    BY <2>1, <2>2, <2>3
  <2>5. DrainInv' /\ CreatedInv'
    BY <2>1, <2>3
  <2> QED
    BY <2>4, <2>5
<1>15. ASSUME NEW c \in Controllers, LockCtrl(c)
      PROVE  (EndInv /\ DrainInv /\ CreatedInv)'
  BY <1>15 DEF LockCtrl, CtrlLockInv, CtrlLockLabels, HandleInv, LifeInv,
     StopInv
<1>16. ASSUME NEW c \in Controllers, AddTask(c), ctx # "crashed"
      PROVE  (EndInv /\ DrainInv /\ CreatedInv)'
  BY <1>16 DEF AddTask, PushBack, CondSignal, WakeOne, ReleasePermits,
     SetSignaled, UnlockPool, Return, CtrlLockInv, CtrlLockLabels,
     HandleInv, LifeInv, StopInv
<1>17. ASSUME NEW c \in Controllers, AlreadyStopped(c)
      PROVE  (EndInv /\ DrainInv /\ CreatedInv)'
  BY <1>17 DEF AlreadyStopped, UnlockPool, Return, CtrlLockInv,
     CtrlLockLabels, HandleInv, LifeInv, StopInv
<1>18. ASSUME NEW c \in Controllers, WaitAllTask(c)
      PROVE  (EndInv /\ DrainInv /\ CreatedInv)'
  BY <1>18 DEF WaitAllTask, CtrlLockInv, CtrlLockLabels, HandleInv, LifeInv,
     StopInv
<1>19. ASSUME NEW c \in Controllers, AwaitAllTask(c)
      PROVE  (EndInv /\ DrainInv /\ CreatedInv)'
  BY <1>19 DEF AwaitAllTask, Outstanding, CondWait, UnlockPool, Return,
     CtrlLockInv, CtrlLockLabels, HandleInv, LifeInv, StopInv
<1>20. ASSUME NEW c \in Controllers, WaitAllThrd(c), ctx # "crashed"
      PROVE  (EndInv /\ DrainInv /\ CreatedInv)'
  BY <1>20 DEF WaitAllThrd, CondBroadcast, ReleasePermits, SetSignaled,
     UnlockPool, CtrlLockInv, CtrlLockLabels, HandleInv, LifeInv, StopInv
<1>21. ASSUME NEW c \in Controllers, Join(c), ctx # "crashed"
      PROVE  (EndInv /\ DrainInv /\ CreatedInv)'
  BY <1>21 DEF Join, Joined, Return, CtrlLockInv, CtrlLockLabels, HandleInv,
     LifeInv, StopInv
<1>22. ASSUME NEW c \in Controllers, JoinGarbage(c), ctx # "crashed"
      PROVE  (EndInv /\ DrainInv /\ CreatedInv)'
  BY <1>22 DEF JoinGarbage, CtrlLockInv, CtrlLockLabels, HandleInv, LifeInv,
     StopInv
<1>23. ASSUME NEW c \in Controllers, Cleanup(c), ctx # "crashed"
      PROVE  (EndInv /\ DrainInv /\ CreatedInv)'
  BY <1>23 DEF Cleanup, CtrlLockInv, CtrlLockLabels, HandleInv, LifeInv,
     StopInv
<1>24. CASE UNCHANGED vars
  BY <1>24 DEF CtrlLockInv, CtrlLockLabels, HandleInv, LifeInv, StopInv
<1> QED
  BY <1>1, <1>2, <1>3, <1>4, <1>5, <1>6, <1>7, <1>8, <1>9, <1>10, <1>11,
     <1>12, <1>13, <1>14, <1>15, <1>16, <1>17, <1>18, <1>19, <1>20, <1>21,
     <1>22, <1>23, <1>24
     DEF Next, WorkerStep, CallStep, StartupStep, Exited, Threads

-----------------------------------------------------------------------------
(* Every task keeps its one place.                                         *)

\* A step that leaves the tasks and the workers that run one alone keeps the
\* places.
LEMMA PlaceSame ==
  ASSUME PlaceInv, UNCHANGED <<queue, accepted, runs, task>>,
         \A w \in Workers : pc'[w] = "run" <=> pc[w] = "run",
         ctx' \in {"null", "live"} => ctx \in {"null", "live"}
  PROVE  PlaceInv'
<1>1. Taken' = Taken
  BY DEF Taken
<1>2. QueueInv' /\ RunsInv'
  BY <1>1 DEF PlaceInv, QueueInv, RunsInv
<1>3. RunnersInv'
  BY <1>1 DEF PlaceInv, RunnersInv
<1>4. HeldInv'
  BY <1>1 DEF PlaceInv, HeldInv
<1> QED
  BY <1>2, <1>3, <1>4 DEF PlaceInv

\* The front of the queue is the first task not taken.
LEMMA FrontIsNext ==
  ASSUME TypeOK, PlaceInv, queue # <<>>
  PROVE  /\ Head(queue) = accepted - Len(queue) + 1
         /\ Head(queue) \in 1 .. MaxTasks
         /\ Head(queue) \notin Taken
         /\ runs[Head(queue)] = 0
         /\ Len(queue) \in Nat \ {0}
<1>1. queue \in Seq(1 .. MaxTasks) /\ accepted \in 0 .. MaxTasks /\ MaxTasks \in Nat
  BY ThreadPoolAssumption DEF TypeOK
<1>2. Len(queue) \in Nat \ {0} /\ Head(queue) = queue[1] /\ 1 \in 1 .. Len(queue)
  BY <1>1
<1>3. Head(queue) = accepted - Len(queue) + 1
  BY <1>1, <1>2 DEF PlaceInv, QueueInv
<1>4. Head(queue) \in 1 .. MaxTasks
  BY <1>1, HeadTailProperties
<1>5. Head(queue) \notin Taken
  BY <1>1, <1>2, <1>3 DEF Taken
<1>6. runs[Head(queue)] = 0
  BY <1>4, <1>5 DEF PlaceInv, RunsInv
<1> QED
  BY <1>2, <1>3, <1>4, <1>5, <1>6

LEMMA PlaceTakeTask ==
  ASSUME TypeOK, PlaceInv, NEW w \in Workers, TakeTask(w)
  PROVE  PlaceInv'
<1> DEFINE n == Len(queue)
           k == Head(queue)
<1>1. queue \in Seq(1 .. MaxTasks) /\ accepted \in 0 .. MaxTasks /\ MaxTasks \in Nat
  BY ThreadPoolAssumption DEF TypeOK
<1>2. /\ queue # <<>> /\ queue' = Tail(queue) /\ pc[w] = "check"
      /\ task' = [task EXCEPT ![w] = k] /\ pc' = [pc EXCEPT ![w] = "run"]
      /\ UNCHANGED <<accepted, runs, ctx>>
  BY DEF TakeTask, PopFront, Goto, life
<1>3. /\ k = accepted - n + 1 /\ k \in 1 .. MaxTasks /\ k \notin Taken
      /\ runs[k] = 0 /\ n \in Nat \ {0}
  BY <1>2, FrontIsNext
<1>4. /\ Len(queue') = n - 1
      /\ \A i \in 1 .. n - 1 : queue'[i] = queue[i + 1]
  BY <1>1, <1>2, HeadTailProperties
<1>5. n <= accepted /\ \A i \in 1 .. n : queue[i] = accepted - n + i
  BY DEF PlaceInv, QueueInv
<1>6. task'[w] = k /\ \A v \in Workers \ {w} : task'[v] = task[v]
  BY <1>2 DEF TypeOK
<1>7. pc'[w] = "run" /\ \A v \in Workers \ {w} : pc'[v] = pc[v]
  BY <1>2 DEF TypeOK, Threads
<1>8. Taken' = Taken \cup {k}
  BY <1>1, <1>2, <1>3, <1>4 DEF Taken
<1> HIDE DEF k
<1>9. QueueInv'
  <2>1. n - 1 <= accepted
    BY <1>1, <1>3, <1>5
  <2>2. ASSUME NEW i \in 1 .. n - 1
        PROVE  queue'[i] = accepted - (n - 1) + i
    <3>1. i + 1 \in 1 .. n /\ queue'[i] = queue[i + 1]
      BY <1>3, <1>4
    <3>2. queue[i + 1] = accepted - n + (i + 1)
      BY <1>5, <3>1
    <3> QED
      BY <1>1, <1>3, <3>1, <3>2
  <2> QED
    BY <1>2, <1>4, <2>1, <2>2 DEF QueueInv
<1>10. RunnersInv'
  <2> SUFFICES ASSUME NEW v \in Workers, pc'[v] = "run"
               PROVE  /\ task'[v] \in Taken'
                      /\ runs'[task'[v]] = 0
                      /\ \A u \in Workers \ {v} : pc'[u] = "run" => task'[u] # task'[v]
    BY DEF RunnersInv
  <2>1. \A u \in Workers \ {w} : pc[u] = "run" => task[u] \in Taken /\ runs[task[u]] = 0
    BY DEF PlaceInv, RunnersInv
  <2>2. CASE v = w
    BY <1>2, <1>3, <1>6, <1>7, <1>8, <2>1, <2>2
  <2>3. CASE v # w
    <3>1. \A u \in Workers \ {v} : pc[u] = "run" => task[u] # task[v]
      BY <1>7, <2>3 DEF PlaceInv, RunnersInv
    <3> QED
      BY <1>2, <1>3, <1>6, <1>7, <1>8, <2>1, <2>3, <3>1
  <2> QED
    BY <2>2, <2>3
<1>11. RunsInv'
  BY <1>2, <1>8 DEF PlaceInv, RunsInv
<1>12. HeldInv'
  <2> SUFFICES ASSUME ctx \in {"null", "live"}, NEW t \in Taken'
               PROVE  runs'[t] = 1 \/ \E v \in Workers : pc'[v] = "run" /\ task'[v] = t
    BY <1>2 DEF HeldInv
  <2>1. CASE t = k
    BY <1>6, <1>7, <2>1
  <2>2. CASE t \in Taken
    <3>1. runs[t] = 1 \/ \E v \in Workers : pc[v] = "run" /\ task[v] = t
      BY <2>2 DEF PlaceInv, HeldInv
    <3> QED
      BY <1>2, <1>6, <1>7, <3>1
  <2> QED
    BY <1>8, <2>1, <2>2
<1> QED
  BY <1>9, <1>10, <1>11, <1>12 DEF PlaceInv

LEMMA PlaceRunTask ==
  ASSUME TypeOK, PlaceInv, NEW w \in Workers, RunTask(w)
  PROVE  PlaceInv'
<1> DEFINE k == task[w]
<1>1. /\ pc[w] = "run" /\ pc' = [pc EXCEPT ![w] = "finish"]
      /\ runs' = [runs EXCEPT ![k] = @ + 1]
      /\ UNCHANGED <<queue, accepted, task, ctx>>
  BY DEF RunTask, Goto, poolVars, life
<1>2. k \in Taken /\ runs[k] = 0
  BY <1>1 DEF PlaceInv, RunnersInv
<1>3. /\ accepted \in 0 .. MaxTasks /\ MaxTasks \in Nat /\ Len(queue) \in Nat
      /\ queue \in Seq(1 .. MaxTasks) /\ runs \in [1 .. MaxTasks -> Nat]
  BY ThreadPoolAssumption DEF TypeOK
<1>4. k \in 1 .. MaxTasks
  BY <1>2, <1>3 DEF Taken
<1>5. runs'[k] = 1 /\ \A t \in (1 .. MaxTasks) \ {k} : runs'[t] = runs[t]
  BY <1>1, <1>2, <1>3, <1>4
<1>6. pc'[w] = "finish" /\ \A v \in Workers \ {w} : pc'[v] = pc[v]
  BY <1>1 DEF TypeOK, Threads
<1>7. Taken' = Taken /\ Taken \subseteq 1 .. MaxTasks
  BY <1>1, <1>3 DEF Taken
<1> HIDE DEF k
<1>8. QueueInv'
  BY <1>1 DEF PlaceInv, QueueInv
<1>9. RunnersInv'
  <2> SUFFICES ASSUME NEW v \in Workers, pc'[v] = "run"
               PROVE  /\ task'[v] \in Taken'
                      /\ runs'[task'[v]] = 0
                      /\ \A u \in Workers \ {v} : pc'[u] = "run" => task'[u] # task'[v]
    BY DEF RunnersInv
  <2>1. v # w /\ pc[v] = "run"
    BY <1>6
  <2>2. /\ task[v] \in Taken /\ runs[task[v]] = 0
        /\ \A u \in Workers \ {v} : pc[u] = "run" => task[u] # task[v]
    BY <2>1 DEF PlaceInv, RunnersInv
  <2>3. task[v] # k
    BY <1>1, <2>1, <2>2 DEF k
  <2> QED
    BY <1>1, <1>5, <1>6, <1>7, <2>1, <2>2, <2>3
<1>10. RunsInv'
  BY <1>2, <1>4, <1>5, <1>7 DEF PlaceInv, RunsInv
<1>11. HeldInv'
  <2> SUFFICES ASSUME ctx \in {"null", "live"}, NEW t \in Taken
               PROVE  runs'[t] = 1 \/ \E v \in Workers : pc'[v] = "run" /\ task'[v] = t
    BY <1>1, <1>7 DEF HeldInv
  <2>1. CASE t = k
    BY <1>5, <2>1
  <2>2. CASE t # k
    <3>1. runs[t] = 1 \/ \E v \in Workers : pc[v] = "run" /\ task[v] = t
      BY DEF PlaceInv, HeldInv
    <3>2. CASE runs[t] = 1
      BY <1>5, <1>7, <2>2, <3>2
    <3>3. CASE \E v \in Workers : pc[v] = "run" /\ task[v] = t
      <4>1. PICK v \in Workers : pc[v] = "run" /\ task[v] = t
        BY <3>3
      <4>2. v # w
        BY <2>2, <4>1 DEF k
      <4> QED
        BY <1>1, <1>6, <4>1, <4>2
    <3> QED
      BY <3>1, <3>2, <3>3
  <2> QED
    BY <2>1, <2>2
<1> QED
  BY <1>8, <1>9, <1>10, <1>11 DEF PlaceInv

LEMMA PlaceAddTask ==
  ASSUME TypeOK, Roles, PlaceInv, NEW c \in Controllers, AddTask(c)
  PROVE  PlaceInv'
<1>1. UNCHANGED <<runs, task, ctx>> /\ PushBack
  BY DEF AddTask, life
<1>2. \A w \in Workers : pc'[w] = "run" <=> pc[w] = "run"
  BY ThreadPoolAssumption DEF AddTask, Return, Goto, TypeOK, Threads, Roles
<1>3. /\ queue \in Seq(1 .. MaxTasks) /\ accepted \in 0 .. MaxTasks
      /\ MaxTasks \in Nat /\ Len(queue) \in Nat
  BY ThreadPoolAssumption DEF TypeOK
<1>4. CASE UNCHANGED <<queue, accepted>>
  BY <1>1, <1>2, <1>4, PlaceSame
<1>5. CASE accepted < MaxTasks /\ queue' = Append(queue, accepted + 1)
           /\ accepted' = accepted + 1
  <2> DEFINE n == Len(queue)
  <2>1. accepted + 1 \in 1 .. MaxTasks
    BY <1>3, <1>5
  <2>2. /\ Len(queue') = n + 1 /\ queue'[n + 1] = accepted + 1
        /\ \A i \in 1 .. n : queue'[i] = queue[i]
    BY <1>3, <1>5, <2>1, AppendProperties
  <2>3. n <= accepted /\ \A i \in 1 .. n : queue[i] = accepted - n + i
    BY DEF PlaceInv, QueueInv
  <2>4. Taken' = Taken
    <3>1. accepted' - Len(queue') = accepted - Len(queue)
      BY <1>3, <1>5, <2>2
    <3> QED
      BY <3>1 DEF Taken
  <2>5. QueueInv'
    <3>1. n + 1 <= accepted + 1
      BY <1>3, <2>3
    <3>2. ASSUME NEW i \in 1 .. n + 1
          PROVE  queue'[i] = (accepted + 1) - (n + 1) + i
      <4>1. CASE i = n + 1
        BY <1>3, <2>2, <4>1
      <4>2. CASE i \in 1 .. n
        BY <1>3, <2>2, <2>3, <4>2
      <4> QED
        BY <1>3, <4>1, <4>2
    <3> QED
      BY <1>5, <2>2, <3>1, <3>2 DEF QueueInv
  <2>6. RunnersInv' /\ RunsInv' /\ HeldInv'
    BY <1>1, <1>2, <2>4 DEF PlaceInv, RunnersInv, RunsInv, HeldInv
  <2> QED
    BY <2>5, <2>6 DEF PlaceInv
<1> QED
  BY <1>1, <1>4, <1>5 DEF PushBack

LEMMA PlaceCleanup ==
  ASSUME TypeOK, Roles, PlaceInv, NEW c \in Controllers, Cleanup(c)
  PROVE  PlaceInv'
<1>1. queue' = <<>> /\ ctx' = "freed" /\ UNCHANGED <<runs, task, accepted>>
  BY DEF Cleanup, taskVars
<1>2. \A w \in Workers : pc'[w] = "run" <=> pc[w] = "run"
  BY ThreadPoolAssumption DEF Cleanup, Goto, TypeOK, Threads, Roles
<1>3. queue \in Seq(1 .. MaxTasks) /\ accepted \in Nat /\ Len(queue) \in Nat
  BY ThreadPoolAssumption DEF TypeOK
<1>4. Len(queue') = 0
  BY <1>1
<1>5. Taken \subseteq Taken'
  BY <1>1, <1>3, <1>4 DEF Taken
<1>6. QueueInv' /\ HeldInv'
  BY <1>1, <1>3, <1>4 DEF QueueInv, HeldInv
<1>7. RunnersInv' /\ RunsInv'
  BY <1>1, <1>2, <1>5 DEF PlaceInv, RunnersInv, RunsInv
<1> QED
  BY <1>6, <1>7 DEF PlaceInv

LEMMA PlaceStep ==
  ASSUME Inv, PlaceInv, [Next]_vars
  PROVE  PlaceInv'
<1>1. TypeOK /\ Roles
  BY DEF Inv
<1>2. ASSUME NEW c \in Controllers, WaitAllThrd(c) \/ Join(c) \/ JoinGarbage(c)
      PROVE  PlaceInv'
  <2>1. /\ UNCHANGED <<queue, accepted, runs, task>>
        /\ ctx' \in {"null", "live"} => ctx \in {"null", "live"}
    BY <1>2 DEF WaitAllThrd, Join, JoinGarbage, life, poolVars, taskVars
  <2>2. \A w \in Workers : pc'[w] = "run" <=> pc[w] = "run"
    BY <1>1, <1>2, ThreadPoolAssumption DEF WaitAllThrd, Join, JoinGarbage,
       Return, Goto, TypeOK, Threads, Roles
  <2> QED
    BY <2>1, <2>2, PlaceSame
<1>3. CASE Startup
  <2>1. /\ UNCHANGED <<queue, accepted, runs, task>> /\ ctx = "null"
    BY <1>3 DEF Startup, taskVars
  <2>2. \A w \in Workers : pc'[w] = "run" <=> pc[w] = "run"
    BY <1>1, <1>3, ThreadPoolAssumption DEF Startup, Goto, TypeOK, Threads, Roles
  <2> QED
    BY <2>1, <2>2, PlaceSame
<1>4. CASE Still
  BY <1>4, PlaceSame DEF Still
<1> QED
  BY <1>1, <1>2, <1>3, <1>4, StepCases, PlaceTakeTask, PlaceRunTask,
     PlaceAddTask, PlaceCleanup DEF Seen

\* The invariant of this module, with the one it rests on.
LEMMA AllInvariance ==
  Spec => [](Inv /\ PlaceInv /\ EndInv /\ DrainInv /\ CreatedInv)
<1>1. Init => PlaceInv
  <2> SUFFICES ASSUME Init
               PROVE  PlaceInv
    OBVIOUS
  <2>1. /\ Len(queue) = 0 /\ accepted = 0 /\ runs = [t \in 1 .. MaxTasks |-> 0]
        /\ \A w \in Workers : pc[w] = "off"
    BY DEF Init, Threads
  <2>2. Taken = {}
    BY <2>1 DEF Taken
  <2> QED
    BY <2>1, <2>2 DEF PlaceInv, QueueInv, RunnersInv, RunsInv, HeldInv
<1>2. Init => EndInv /\ DrainInv /\ CreatedInv
  BY ThreadPoolAssumption DEF Init, EndInv, DrainInv, CreatedInv, Threads
<1>3. /\ Inv /\ PlaceInv /\ EndInv /\ DrainInv /\ CreatedInv /\ [Next]_vars
      => PlaceInv' /\ (EndInv /\ DrainInv /\ CreatedInv)'
  BY PlaceStep, EndStep
<1> QED
  BY <1>1, <1>2, <1>3, Invariance, PTL DEF Spec

-----------------------------------------------------------------------------
(* What follows for the tasks.                                             *)

LEMMA PlaceEnough == Inv /\ PlaceInv => ExactlyOnce
<1> SUFFICES ASSUME Inv, PlaceInv, ctx = "live", NEW t \in 1 .. accepted
             PROVE  Cardinality(Queued(t)) + Cardinality(Runners(t)) + runs[t] = 1
  BY DEF ExactlyOnce
<1> DEFINE n == Len(queue)
<1>1. /\ accepted \in 0 .. MaxTasks /\ MaxTasks \in Nat /\ n \in Nat
      /\ DOMAIN queue = 1 .. n /\ t \in 1 .. MaxTasks
  BY ThreadPoolAssumption DEF Inv, TypeOK
<1>2. n <= accepted /\ \A i \in 1 .. n : queue[i] = accepted - n + i
  BY DEF PlaceInv, QueueInv
<1>3. runs[t] \in {0, 1} /\ (runs[t] = 1 => t \in Taken)
  BY <1>1 DEF PlaceInv, RunsInv
<1>4. \A w \in Workers : pc[w] = "run" /\ task[w] = t => t \in Taken /\ runs[t] = 0
  BY DEF PlaceInv, RunnersInv
<1>5. CASE t \in Taken
  <2>1. Queued(t) = {}
    <3> SUFFICES ASSUME NEW i \in 1 .. n, queue[i] = t
                 PROVE  FALSE
      BY <1>1 DEF Queued
    <3> QED
      BY <1>1, <1>2, <1>5 DEF Taken
  <2>2. Cardinality(Queued(t)) = 0
    BY <2>1, FS_EmptySet
  <2>3. CASE runs[t] = 1
    <3>1. Runners(t) = {}
      BY <1>4, <2>3 DEF Runners
    <3> QED
      BY <2>2, <2>3, <3>1, FS_EmptySet
  <2>4. CASE runs[t] = 0
    <3>1. PICK w \in Workers : pc[w] = "run" /\ task[w] = t
      BY <1>5, <2>4 DEF PlaceInv, HeldInv
    <3>2. Runners(t) = {w}
      BY <3>1 DEF Runners, PlaceInv, RunnersInv
    <3>3. Cardinality(Runners(t)) = 1
      BY <3>2, FS_Singleton
    <3> QED
      BY <2>2, <2>4, <3>3
  <2> QED
    BY <1>3, <2>3, <2>4
<1>6. CASE t \notin Taken
  <2>1. t - (accepted - n) \in 1 .. n
    BY <1>1, <1>2, <1>6 DEF Taken
  <2>2. \A i \in 1 .. n : queue[i] = t <=> i = t - (accepted - n)
    BY <1>1, <1>2
  <2>3. Queued(t) = {t - (accepted - n)}
    BY <1>1, <2>1, <2>2 DEF Queued
  <2>4. Cardinality(Queued(t)) = 1
    BY <2>3, FS_Singleton
  <2>5. Runners(t) = {} /\ runs[t] = 0
    BY <1>3, <1>4, <1>6 DEF Runners
  <2> QED
    BY <2>4, <2>5, FS_EmptySet
<1> QED
  BY <1>5, <1>6

(* Whatever the threads do and whichever calls fail, a task that addtask   *)
(* accepted is in exactly one place: once in the queue, with one worker,   *)
(* or executed, once.                                                      *)
THEOREM RunsOnce == Spec => []ExactlyOnce
BY AllInvariance, PlaceEnough, PTL

\* When all threads have been joined, nothing is left to do.
LEMMA NothingLeft ==
  ASSUME Inv, PlaceInv, DrainInv, CreatedInv, "create" \notin MayFail,
         NEW c \in Controllers, pc[c] = "join", Joined
  PROVE  /\ queue = <<>>
         /\ \A w \in Workers : pc[w] = "exit" /\ thread_handle[w] = "live"
<1>1. \A w \in Workers : thread_handle[w] = "live"
  BY DEF CreatedInv
<1>2. \A w \in Workers : pc[w] = "exit"
  BY <1>1 DEF Joined
<1>3. 0 \in Workers
  BY ThreadPoolAssumption DEF Workers
<1>4. ~NoThreads
  BY <1>1, <1>3 DEF NoThreads
<1>5. queue = <<>>
  BY <1>2, <1>3, <1>4 DEF DrainInv
<1> QED
  BY <1>1, <1>2, <1>5

\* A controller leaves the joins only when they are done.
LEMMA JoinLeaves ==
  ASSUME Inv, [Next]_vars, NEW d \in Controllers, pc[d] = "join", pc'[d] # "join"
  PROVE  Join(d) /\ ctx # "crashed"
<1> USE ThreadPoolAssumption DEF Inv, TypeOK, Threads, Goto
<1>1. ASSUME NEW w \in Workers, TakeTask(w) \/ RunTask(w)
      PROVE  FALSE
  BY <1>1 DEF TakeTask, RunTask
<1>2. ASSUME NEW c \in Controllers,
             AddTask(c) \/ Cleanup(c) \/ WaitAllThrd(c) \/ JoinGarbage(c)
      PROVE  FALSE
  BY <1>2 DEF AddTask, Return, Cleanup, WaitAllThrd, JoinGarbage
<1>3. ASSUME NEW c \in Controllers, Join(c), ctx # "crashed"
      PROVE  Join(d) /\ ctx # "crashed"
  <2>1. c = d
    BY <1>3 DEF Join, Return
  <2> QED
    BY <1>3, <2>1
<1>4. ~Startup
  <2>1. ASSUME Startup
        PROVE  FALSE
    BY <2>1 DEF Startup, LifeInv
  <2> QED
    BY <2>1
<1>5. ~Still
  BY DEF Still
<1> QED
  BY <1>1, <1>2, <1>3, <1>4, <1>5, StepCases DEF Seen

(* If every thread could be created, waitallthrd and cleanup return only   *)
(* when every task accepted so far has been executed.                      *)
THEOREM StopDrains == ASSUME "create" \notin MayFail PROVE Spec => JoinDrains
<1> DEFINE All == Inv /\ PlaceInv /\ EndInv /\ DrainInv /\ CreatedInv
           Drains == \A c \in Controllers :
                        pc[c] = "join" /\ pc'[c] # "join"
                        => \A t \in 1 .. accepted : runs[t] = 1
<1>1. ASSUME All, [Next]_vars
      PROVE  Drains
  <2> SUFFICES ASSUME NEW c \in Controllers, pc[c] = "join", pc'[c] # "join",
                      NEW t \in 1 .. accepted
               PROVE  runs[t] = 1
    OBVIOUS
  <2>1. Join(c) /\ ctx # "crashed"
    BY <1>1, JoinLeaves
  <2>2. /\ queue = <<>>
        /\ \A w \in Workers : pc[w] = "exit"
    BY <1>1, <2>1, NothingLeft DEF Join
  <2>3. ctx = "live"
    <3>1. ctx # "freed"
      <4>1. ASSUME ctx = "freed"
            PROVE  FALSE
        <5>1. op[Main] = "cleanup" /\ pc[Main] = "done"
          BY <1>1, <4>1, ThreadPoolAssumption DEF EndInv
        <5> QED
          BY <1>1, <5>1, ThreadPoolAssumption DEF EndInv
      <4> QED
        BY <4>1
    <3> QED
      BY <1>1, <2>1, <3>1 DEF Inv, TypeOK, LifeInv
  <2>4. t \in Taken
    <3>1. Len(queue) = 0 /\ accepted \in Nat
      BY <1>1, <2>2, ThreadPoolAssumption DEF Inv, TypeOK
    <3> QED
      BY <3>1 DEF Taken
  <2> QED
    BY <1>1, <2>2, <2>3, <2>4 DEF PlaceInv, HeldInv
<1>2. All /\ [Next]_vars => [Drains]_vars
  BY <1>1
<1> QED
  BY <1>2, AllInvariance, PTL DEF Spec, JoinDrains

-----------------------------------------------------------------------------
(* The refinement.                                                         *)

AllInv == Inv /\ PlaceInv /\ EndInv /\ DrainInv /\ CreatedInv

\* While somebody is at work in the pool, there is one.
LEMMA PoolIsLive ==
  ASSUME AllInv, ctx # "crashed",
         \/ \E w \in Workers : pc[w] \notin {"off", "exit"}
         \/ \E c \in Controllers : pc[c] \in {"body", "join", "free"}
  PROVE  ctx = "live"
<1>1. ctx \in {"null", "live", "freed", "crashed"}
  BY DEF AllInv, Inv, TypeOK
<1>2. ctx # "null"
  BY DEF AllInv, Inv, LifeInv
<1>3. ASSUME ctx = "freed"
      PROVE  FALSE
  <2>1. /\ pc[Main] = "done" /\ stop
        /\ \A c \in Controllers \ {Main} : pc[c] = "idle"
    BY <1>3, ThreadPoolAssumption DEF AllInv, EndInv
  <2>2. NoThreads
    BY <2>1 DEF AllInv, Inv, StopInv
  <2>3. \A w \in Workers : pc[w] \in {"off", "exit"}
    BY <2>2 DEF AllInv, Inv, HandleInv, NoThreads
  <2> QED
    BY <2>1, <2>3
<1> QED
  BY <1>1, <1>2, <1>3

\* Only the controller that owns ctrl_lock can be at the joins.
LEMMA OneAtJoin ==
  ASSUME Inv, NEW c \in Controllers, pc[c] \in CtrlLockLabels
  PROVE  \A d \in Controllers \ {c} : pc[d] # "join"
BY DEF Inv, CtrlLockInv, CtrlLockLabels

\* A worker that takes a task leaves room for it among the running ones.
LEMMA RoomToRun ==
  ASSUME Inv, PlaceInv, NEW w \in Workers, pc[w] # "run"
  PROVE  Cardinality(runningBar) < ThrdCount
<1> DEFINE Others == Workers \ {w}
           at == [t \in runningBar |-> CHOOSE v \in Others : pc[v] = "run" /\ task[v] = t]
<1>1. IsFiniteSet(Workers) /\ Cardinality(Workers) = ThrdCount
  <2>1. 0 \in Int /\ ThrdCount - 1 \in Int /\ ~(0 > ThrdCount - 1)
    BY ThreadPoolAssumption
  <2>2. /\ IsFiniteSet(0 .. ThrdCount - 1)
        /\ Cardinality(0 .. ThrdCount - 1) = (ThrdCount - 1) - 0 + 1
    BY <2>1, FS_Interval
  <2> QED
    BY <2>2, ThreadPoolAssumption DEF Workers
<1>2. IsFiniteSet(Others) /\ Cardinality(Others) = ThrdCount - 1
  BY <1>1, FS_RemoveElement
<1>3. \A t \in runningBar :
         at[t] \in Others /\ pc[at[t]] = "run" /\ task[at[t]] = t
  <2> SUFFICES ASSUME NEW t \in runningBar
               PROVE  at[t] \in Others /\ pc[at[t]] = "run" /\ task[at[t]] = t
    OBVIOUS
  <2>1. \E v \in Others : pc[v] = "run" /\ task[v] = t
    BY DEF runningBar
  <2> QED
    BY <2>1
<1>4. at \in [runningBar -> Others]
  BY <1>3
<1>5. \A s, t \in runningBar : at[s] = at[t] => s = t
  BY <1>3
<1>6. at \in Injection(runningBar, Others)
  BY <1>4, <1>5 DEF Injection, IsInjective
<1>7. /\ Cardinality(runningBar) <= Cardinality(Others)
      /\ IsFiniteSet(runningBar)
  BY <1>2, <1>6, FS_Injection
<1>8. Cardinality(runningBar) \in Nat
  BY <1>7, FS_CardinalityType
<1> QED
  BY <1>2, <1>7, <1>8, ThreadPoolAssumption

LEMMA BarTakeTask ==
  ASSUME AllInv, ctx # "crashed", NEW w \in Workers, TakeTask(w)
  PROVE  Pool!Start
<1>1. /\ pc[w] = "check" /\ queue # <<>> /\ queue' = Tail(queue)
      /\ task' = [task EXCEPT ![w] = Head(queue)] /\ pc' = [pc EXCEPT ![w] = "run"]
      /\ UNCHANGED <<accepted, runs, ctx, stop>>
  BY DEF TakeTask, PopFront, Goto, life
<1>2. /\ task'[w] = Head(queue) /\ pc'[w] = "run"
      /\ \A v \in Workers \ {w} : task'[v] = task[v] /\ pc'[v] = pc[v]
      /\ \A c \in Controllers : pc'[c] = pc[c]
  BY <1>1, ThreadPoolAssumption DEF AllInv, Inv, TypeOK, Threads
<1>3. ctx = "live"
  BY <1>1, PoolIsLive
<1>4. stop => \E c \in Controllers : pc[c] = "join"
  BY <1>1 DEF AllInv, Inv, StopInv, NoThreads, HandleInv
<1>5. phaseBar \in {"open", "closing"}
  BY <1>3, <1>4 DEF phaseBar
<1>6. phaseBar' = phaseBar
  BY <1>1, <1>2 DEF phaseBar
<1>7. Cardinality(runningBar) < ThrdCount
  BY <1>1, RoomToRun DEF AllInv
<1>8. runningBar' = runningBar \cup {Head(queue)}
  BY <1>1, <1>2 DEF runningBar
<1>9. finishedBar' = finishedBar
  BY <1>1 DEF finishedBar
<1>10. Pool!Cardinality(runningBar) = Cardinality(runningBar)
  BY Zenon DEF Pool!Cardinality, Cardinality
<1> QED
  BY <1>1, <1>5, <1>6, <1>7, <1>8, <1>9, <1>10 DEF Pool!Start

LEMMA BarRunTask ==
  ASSUME AllInv, NEW w \in Workers, RunTask(w)
  PROVE  Pool!Finish
<1> DEFINE k == task[w]
<1>1. /\ pc[w] = "run" /\ pc' = [pc EXCEPT ![w] = "finish"]
      /\ runs' = [runs EXCEPT ![k] = @ + 1]
      /\ UNCHANGED <<queue, accepted, task, ctx, stop>>
  BY DEF RunTask, Goto, poolVars, life
<1>2. /\ pc'[w] = "finish" /\ \A v \in Workers \ {w} : pc'[v] = pc[v]
      /\ \A c \in Controllers : pc'[c] = pc[c]
  BY <1>1, ThreadPoolAssumption DEF AllInv, Inv, TypeOK, Threads
<1>3. k \in Taken /\ \A v \in Workers \ {w} : pc[v] = "run" => task[v] # k
  BY <1>1 DEF AllInv, PlaceInv, RunnersInv
<1>4. k \in 1 .. MaxTasks
  <2>1. /\ accepted \in 0 .. MaxTasks /\ MaxTasks \in Nat /\ Len(queue) \in Nat
    BY ThreadPoolAssumption DEF AllInv, Inv, TypeOK
  <2> QED
    BY <1>3, <2>1 DEF Taken
<1>5. k \in runningBar
  BY <1>1 DEF runningBar
<1>6. runningBar' = runningBar \ {k}
  BY <1>1, <1>2, <1>3 DEF runningBar
<1>7. /\ runs'[k] > 0
      /\ \A t \in (1 .. MaxTasks) \ {k} : runs'[t] = runs[t]
  <2>1. runs \in [1 .. MaxTasks -> Nat]
    BY DEF AllInv, Inv, TypeOK
  <2>2. runs[k] \in Nat /\ runs'[k] = runs[k] + 1
    BY <1>1, <1>4, <2>1
  <2>3. \A t \in (1 .. MaxTasks) \ {k} : runs'[t] = runs[t]
    BY <1>1, <2>1
  <2> QED
    BY <2>2, <2>3
<1> HIDE DEF k
<1>8. finishedBar' = finishedBar \cup {k}
  BY <1>4, <1>7 DEF finishedBar
<1>9. phaseBar' = phaseBar
  BY <1>1, <1>2 DEF phaseBar
<1> QED
  BY <1>1, <1>5, <1>6, <1>8, <1>9 DEF Pool!Finish

\* Steps that neither start nor finish a task.
LEMMA BarSame ==
  ASSUME UNCHANGED <<runs, task>>, \A w \in Workers : pc'[w] = "run" <=> pc[w] = "run"
  PROVE  UNCHANGED <<runningBar, finishedBar>>
BY DEF runningBar, finishedBar

LEMMA BarAddTask ==
  ASSUME AllInv, ctx # "crashed", NEW c \in Controllers, AddTask(c)
  PROVE  Pool!Submit \/ UNCHANGED Pool!absVars
<1>1. UNCHANGED <<ctx, stop, runs, task>> /\ PushBack /\ pc[c] = "body"
  BY DEF AddTask, life
<1>2. /\ \A w \in Workers : pc'[w] = "run" <=> pc[w] = "run"
      /\ \A d \in Controllers : pc'[d] = "join" <=> pc[d] = "join"
  BY ThreadPoolAssumption DEF AddTask, Return, Goto, AllInv, Inv, TypeOK, Threads, Roles
<1>3. ctx = "live"
  BY <1>1, PoolIsLive
<1>4. \A d \in Controllers : pc[d] # "join"
  BY <1>1, OneAtJoin DEF AllInv, CtrlLockLabels
<1>5. phaseBar \in {"open", "closed"} /\ phaseBar' = phaseBar
  BY <1>1, <1>2, <1>3, <1>4 DEF phaseBar
<1>6. UNCHANGED <<runningBar, finishedBar>>
  BY <1>1, <1>2, BarSame
<1>7. CASE UNCHANGED <<queue, accepted>>
  BY <1>5, <1>6, <1>7 DEF Pool!absVars
<1>8. CASE accepted < MaxTasks /\ queue' = Append(queue, accepted + 1)
           /\ accepted' = accepted + 1
  BY <1>5, <1>6, <1>8 DEF Pool!Submit
<1> QED
  BY <1>1, <1>7, <1>8 DEF PushBack

LEMMA BarCleanup ==
  ASSUME AllInv, ctx # "crashed", NEW c \in Controllers, Cleanup(c)
  PROVE  Pool!Free
<1>1. /\ UNCHANGED <<stop, accepted, runs, task>> /\ pc[c] = "free"
      /\ queue' = <<>> /\ ctx' = "freed"
  BY DEF Cleanup, taskVars
<1>2. \A w \in Workers : pc'[w] = "run" <=> pc[w] = "run"
  BY ThreadPoolAssumption DEF Cleanup, Goto, AllInv, Inv, TypeOK, Threads, Roles
<1>3. ctx = "live" /\ stop
  BY <1>1, PoolIsLive DEF AllInv, Inv, LifeInv
<1>4. \A d \in Controllers : pc[d] # "join"
  BY <1>1 DEF AllInv, EndInv
<1>5. phaseBar = "closed" /\ phaseBar' = "gone"
  BY <1>1, <1>3, <1>4 DEF phaseBar
<1>6. UNCHANGED <<runningBar, finishedBar>>
  BY <1>1, <1>2, BarSame
<1> QED
  BY <1>1, <1>5, <1>6 DEF Pool!Free

LEMMA BarWaitAllThrd ==
  ASSUME AllInv, ctx # "crashed", NEW c \in Controllers, WaitAllThrd(c)
  PROVE  Pool!BeginClose
<1>1. /\ UNCHANGED <<ctx, queue, accepted, runs, task>> /\ pc[c] = "body"
      /\ ~stop /\ stop' = TRUE
  BY DEF WaitAllThrd, life, taskVars
<1>2. pc'[c] = "join" /\ \A w \in Workers : pc'[w] = "run" <=> pc[w] = "run"
  BY ThreadPoolAssumption
     DEF WaitAllThrd, Goto, AllInv, Inv, TypeOK, Threads, Roles
<1>3. ctx = "live"
  BY <1>1, PoolIsLive
<1>4. phaseBar = "open" /\ phaseBar' = "closing"
  BY <1>1, <1>2, <1>3 DEF phaseBar
<1>5. UNCHANGED <<runningBar, finishedBar>>
  BY <1>1, <1>2, BarSame
<1> QED
  BY <1>1, <1>4, <1>5 DEF Pool!BeginClose

LEMMA BarJoin ==
  ASSUME AllInv, ctx # "crashed", "create" \notin MayFail,
         NEW c \in Controllers, Join(c)
  PROVE  Pool!EndClose
<1>1. /\ UNCHANGED <<ctx, stop, queue, accepted, runs, task>>
      /\ pc[c] = "join" /\ Joined
  BY DEF Join, poolVars, taskVars
<1>2. queue = <<>> /\ \A w \in Workers : pc[w] = "exit"
  BY <1>1, NothingLeft DEF AllInv
<1>3. /\ \A w \in Workers : pc'[w] = pc[w]
      /\ pc'[c] # "join" /\ \A d \in Controllers \ {c} : pc'[d] = pc[d]
  BY ThreadPoolAssumption DEF Join, Return, Goto, AllInv, Inv, TypeOK, Threads
<1>4. ctx = "live" /\ stop
  BY <1>1, PoolIsLive DEF AllInv, Inv, StopInv
<1>5. \A d \in Controllers : pc'[d] # "join"
  BY <1>1, <1>3, OneAtJoin DEF AllInv, CtrlLockLabels
<1>6. phaseBar = "closing" /\ phaseBar' = "closed"
  BY <1>1, <1>4, <1>5 DEF phaseBar
<1>7. runningBar = {}
  BY <1>2 DEF runningBar
<1>8. UNCHANGED <<runningBar, finishedBar>>
  BY <1>1, <1>3, BarSame
<1> QED
  BY <1>1, <1>2, <1>6, <1>7, <1>8 DEF Pool!EndClose

LEMMA BarStartup ==
  ASSUME AllInv, Startup
  PROVE  Pool!Open
<1>1. /\ UNCHANGED <<queue, accepted, runs, task>>
      /\ ctx = "null" /\ ctx' = "live" /\ stop' = FALSE
  BY DEF Startup, taskVars
<1>2. \A w \in Workers : pc'[w] = "run" <=> pc[w] = "run"
  BY ThreadPoolAssumption DEF Startup, Goto, AllInv, Inv, TypeOK, Threads, Roles
<1>3. phaseBar = "new" /\ phaseBar' = "open"
  BY <1>1 DEF phaseBar
<1>4. UNCHANGED <<runningBar, finishedBar>>
  BY <1>1, <1>2, BarSame
<1> QED
  BY <1>1, <1>3, <1>4 DEF Pool!Open

\* Every step of the pool is a step of a TaskPool, or none.
LEMMA BarStep ==
  ASSUME AllInv, "create" \notin MayFail, [Next]_vars
  PROVE  [Pool!Next]_Pool!absVars
<1>1. ASSUME NEW c \in Controllers, JoinGarbage(c)
      PROVE  FALSE
  BY <1>1, NothingLeft DEF JoinGarbage, AllInv
<1>2. CASE Still
  <2>1. UNCHANGED <<runningBar, finishedBar>>
    BY <1>2, BarSame DEF Still
  <2>2. phaseBar' = phaseBar
    BY <1>2 DEF Still, phaseBar
  <2> QED
    BY <1>2, <2>1, <2>2 DEF Still, Pool!absVars
<1>3. CASE Seen
  BY <1>1, <1>3, BarTakeTask, BarRunTask, BarAddTask, BarCleanup,
     BarWaitAllThrd, BarJoin, BarStartup DEF Seen, Pool!Next
<1> QED
  BY <1>2, <1>3, StepCases DEF AllInv

(* If every thread could be created, the pool implements TaskPool, but for *)
(* progress: tasks start in the order of acceptance, run once, at most     *)
(* ThrdCount at a time, and closing the pool drains it.                    *)
THEOREM Implements == ASSUME "create" \notin MayFail PROVE Spec => ImplementsTaskPool
<1>1. Init => Pool!Init
  <2> SUFFICES ASSUME Init
               PROVE  Pool!Init
    OBVIOUS
  <2>1. runningBar = {}
    BY DEF Init, runningBar, Threads
  <2>2. finishedBar = {}
    BY DEF Init, finishedBar
  <2> QED
    BY <2>1, <2>2 DEF Init, Pool!Init, phaseBar
<1>2. AllInv /\ [Next]_vars => [Pool!Next]_Pool!absVars
  BY BarStep
<1>3. Spec => []AllInv
  BY AllInvariance DEF AllInv
<1> QED
  BY <1>1, <1>2, <1>3, PTL DEF Spec, ImplementsTaskPool, Pool!SafetySpec
=============================================================================
