----------------------------- MODULE ThreadPool -----------------------------
(***************************************************************************)
(* The thread pool of thread_pool_c.c: worker threads that take tasks from *)
(* a queue, and the threads of the program that call the pool.             *)
(*                                                                         *)
(* Two locks.  ctrl_lock serialises the calls addtask, waitalltask and     *)
(* waitallthrd, and is held while a call waits.  pool_lock protects the    *)
(* queue, the flags and active_thrd_count, and comes with one condition    *)
(* variable that workers and waitalltask share.  Acquiring a lock is a     *)
(* step; what the code does from there to the release of pool_lock, or to  *)
(* the next wait on the condition variable, is one step, because no other  *)
(* thread can see the middle of it.                                        *)
(*                                                                         *)
(* A label of `pc` is the place where the thread stands:                   *)
(*   workers      "off" not created, "top" before threadlock_lock(313),    *)
(*                "check" holding pool_lock(314), "run" in the callback,   *)
(*                "finish" before threadlock_lock(333), "retire" holding   *)
(*                pool_lock(334), "exit" thread_instance has returned      *)
(*   controllers  "idle" not in a call, "create" in the loop that creates  *)
(*                threads, "ctrl" and "pool" before the lock of that name, *)
(*                "body" holding both locks, "join" in the loop of joins,  *)
(*                "free" in cleanup after waitallthrd, "done" no pool left *)
(*   both         "await" holding pool_lock at the test of a wait loop,    *)
(*                "wait" inside threadlock_wait                            *)
(*                                                                         *)
(* A definition whose name ends in _Bug is a slip that its successor could *)
(* have had; no specification uses it.                                     *)
(***************************************************************************)
EXTENDS Integers, Sequences, FiniteSets

CONSTANTS ThrdCount,    (* thrd_count: threads the pool is to have          *)
          Controllers,  (* threads of the program that call the pool        *)
          Main,         (* the controller that starts and cleans up         *)
          Nobody,       (* the owner of a free lock                         *)
          Ops,          (* the calls the program makes                      *)
          LegacyCV,     (* TRUE: condition variable built on a semaphore    *)
          MayFail,      (* library calls that may fail: "malloc", "create"  *)
          MaxTasks,     (* bound: tasks accepted                            *)
          MaxSpurious   (* bound: spurious wakeups                          *)

Workers == 0 .. ThrdCount - 1
Threads == Workers \cup Controllers

ASSUME ThreadPoolAssumption ==
    /\ ThrdCount \in Nat \ {0}
    /\ Main \in Controllers
    /\ Controllers \cap Workers = {}
    /\ Nobody \notin Threads
    /\ Ops \subseteq {"addtask", "waitalltask", "waitallthrd", "cleanup"}
    /\ LegacyCV \in BOOLEAN
    /\ MayFail \subseteq {"malloc", "create"}
    /\ MaxTasks \in Nat
    /\ MaxSpurious \in Nat

VARIABLES
    ctx,                (* "null", "live", "freed", or "crashed"            *)
    ctrl_lock,          (* owner of ctrl_lock                               *)
    pool_lock,          (* owner of pool_lock                               *)
    queue,              (* tasks in the deque, front first                  *)
    pool_signaled,
    stop,
    active_thrd_count,
    thread_handle,      (* worker -> "garbage", "live" or "zero"            *)
    blocked,            (* threads asleep on the condition variable         *)
    wait_num, permits,  (* legacy: wait_num, count of the semaphore         *)
    spurious,           (* spurious wakeups so far                          *)
    pc,
    op,                 (* controller -> the call it makes or made last     *)
    task,               (* worker -> its local context: a task, 0 for none  *)
    accepted,           (* history: tasks accepted; task k is the k-th      *)
    runs                (* history: task -> times its function returned     *)

cvVars   == <<blocked, wait_num, permits, spurious>>
poolVars == <<queue, pool_signaled, stop, active_thrd_count>>
taskVars == <<task, accepted, runs>>
life     == <<ctx, thread_handle, op>>
vars     == <<life, ctrl_lock, pool_lock, poolVars, cvVars, pc, taskVars>>

Labels == {"off", "top", "check", "run", "finish", "retire", "exit", "idle",
           "create", "ctrl", "pool", "body", "join", "free", "done", "await", "wait"}

TypeOK ==
    /\ ctx \in {"null", "live", "freed", "crashed"}
    /\ ctrl_lock \in Controllers \cup {Nobody}
    /\ pool_lock \in Threads \cup {Nobody}
    /\ queue \in Seq(1 .. MaxTasks)
    /\ pool_signaled \in BOOLEAN /\ stop \in BOOLEAN
    /\ active_thrd_count \in Nat
    /\ thread_handle \in [Workers -> {"garbage", "live", "zero"}]
    /\ blocked \subseteq Threads
    /\ wait_num \in Int /\ permits \in Nat /\ spurious \in 0 .. MaxSpurious
    /\ pc \in [Threads -> Labels]
    /\ op \in [Controllers -> Ops \cup {"none"}]
    /\ task \in [Workers -> 0 .. MaxTasks]
    /\ accepted \in 0 .. MaxTasks
    /\ runs \in [1 .. MaxTasks -> Nat]

Init ==
    /\ ctx = "null"
    /\ ctrl_lock = Nobody /\ pool_lock = Nobody
    /\ queue = <<>>
    /\ pool_signaled = FALSE /\ stop = TRUE
    /\ active_thrd_count = 0
    /\ thread_handle = [w \in Workers |-> "garbage"]
    /\ blocked = {} /\ wait_num = 0 /\ permits = 0 /\ spurious = 0
    /\ pc = [t \in Threads |-> IF t \in Workers THEN "off" ELSE "idle"]
    /\ op = [c \in Controllers |-> "none"]
    /\ task = [w \in Workers |-> 0]
    /\ accepted = 0
    /\ runs = [t \in 1 .. MaxTasks |-> 0]

Goto(t, label) == pc' = [pc EXCEPT ![t] = label]

-----------------------------------------------------------------------------
(* The condition variable of pool_lock.  A native one wakes threads that   *)
(* sleep at the time of the call, and may wake a thread for no reason.  In *)
(* the legacy one the call adds permits to a semaphore, and any thread     *)
(* that waits, then or later, may take them.                               *)

\* threadlock_wait up to the point where the thread sleeps, lock released.
CondWait(t) ==
    /\ blocked' = blocked \cup {t}
    /\ wait_num' = IF LegacyCV THEN wait_num + 1 ELSE wait_num
    /\ pool_lock' = Nobody
    /\ Goto(t, "wait")
    /\ UNCHANGED <<permits, spurious>>

WakeOne ==
    \/ blocked = {} /\ UNCHANGED blocked
    \/ \E t \in blocked : blocked' = blocked \ {t}

\* A broadcast that releases one waiter only.
ReleasePermits_Bug(n) == permits' = IF wait_num > 0 THEN permits + 1 ELSE permits

ReleasePermits(n) == permits' = IF wait_num > 0 THEN permits + n ELSE permits

\* addtask without the call of threadlock_signal.
CondSignal_Bug == UNCHANGED cvVars

CondSignal ==
    /\ \/ ~LegacyCV /\ WakeOne /\ UNCHANGED permits
       \/ LegacyCV /\ ReleasePermits(1) /\ UNCHANGED blocked
    /\ UNCHANGED <<wait_num, spurious>>

CondBroadcast ==
    /\ \/ ~LegacyCV /\ blocked' = {} /\ UNCHANGED permits
       \/ LegacyCV /\ ReleasePermits(wait_num) /\ UNCHANGED blocked
    /\ UNCHANGED <<wait_num, spurious>>

\* A native wait returns although nobody signalled.
SpuriousWakeup(t) ==
    /\ ~LegacyCV
    /\ t \in blocked
    /\ spurious < MaxSpurious
    /\ spurious' = spurious + 1
    /\ blocked' = blocked \ {t}
    /\ UNCHANGED <<life, ctrl_lock, pool_lock, poolVars, wait_num, permits, pc, taskVars>>

\* WaitForSingleObject of the legacy wait obtains the semaphore.
TakePermit(t) ==
    /\ LegacyCV
    /\ t \in blocked
    /\ permits > 0
    /\ permits' = permits - 1
    /\ blocked' = blocked \ {t}
    /\ UNCHANGED <<life, ctrl_lock, pool_lock, poolVars, wait_num, spurious, pc, taskVars>>

-----------------------------------------------------------------------------
(* The locks.                                                              *)

\* The places before pool_lock is acquired, and where each leads.
AfterLock == [top |-> "check", finish |-> "retire", pool |-> "body", wait |-> "await"]

LockPool(t) ==
    /\ pc[t] \in DOMAIN AfterLock
    /\ t \notin blocked
    /\ pool_lock = Nobody
    /\ pool_lock' = t
    /\ wait_num' = IF LegacyCV /\ pc[t] = "wait" THEN wait_num - 1 ELSE wait_num
    /\ Goto(t, AfterLock[pc[t]])
    /\ UNCHANGED <<life, ctrl_lock, poolVars, blocked, permits, spurious, taskVars>>

LockCtrl(c) ==
    /\ pc[c] = "ctrl"
    /\ ctrl_lock = Nobody
    /\ ctrl_lock' = c
    /\ Goto(c, "pool")
    /\ UNCHANGED <<life, pool_lock, poolVars, cvVars, taskVars>>

UnlockPool == pool_lock' = Nobody

\* A call of the pool returns; waitallthrd may have been called by cleanup.
Return(c) ==
    /\ ctrl_lock' = Nobody
    /\ Goto(c, IF op[c] = "cleanup" THEN "free" ELSE "idle")

-----------------------------------------------------------------------------
(* thread_instance, the body of a worker.                                  *)

\* A stopped worker leaves without draining the queue.
MayExit_Bug == stop

MayExit == queue = <<>> /\ stop

WorkerExit(w) ==
    /\ pc[w] = "check"
    /\ MayExit
    /\ UnlockPool
    /\ Goto(w, "exit")
    /\ UNCHANGED <<life, ctrl_lock, poolVars, cvVars, taskVars>>

\* Nothing to do: clear the flag, and tell waitalltask if nothing runs either.
WorkerIdle(w) ==
    /\ pc[w] = "check"
    /\ queue = <<>>
    /\ ~stop
    /\ pool_signaled' = FALSE
    /\ IF active_thrd_count = 0 THEN CondBroadcast ELSE UNCHANGED cvVars
    /\ Goto(w, "await")
    /\ UNCHANGED <<life, ctrl_lock, pool_lock, queue, stop, active_thrd_count, taskVars>>

\* while (!pool_signaled) threadlock_wait: sleep, or go round the outer loop.
WorkerAwait(w) ==
    /\ w \in Workers
    /\ pc[w] = "await"
    /\ \/ ~pool_signaled /\ CondWait(w)
       \/ pool_signaled /\ UnlockPool /\ Goto(w, "top") /\ UNCHANGED cvVars
    /\ UNCHANGED <<life, ctrl_lock, poolVars, taskVars>>

\* The front of the queue is read and left there.
PopFront_Bug == UNCHANGED queue

PopFront == queue' = Tail(queue)

\* The worker runs the task before it is counted.
CountTask_Bug == UNCHANGED active_thrd_count

CountTask == active_thrd_count' = active_thrd_count + 1

TakeTask(w) ==
    /\ pc[w] = "check"
    /\ queue # <<>>
    /\ task' = [task EXCEPT ![w] = Head(queue)]
    /\ PopFront
    /\ CountTask
    /\ UnlockPool
    /\ Goto(w, "run")
    /\ UNCHANGED <<life, ctrl_lock, pool_signaled, stop, cvVars, accepted, runs>>

\* context.func(context.param) returns.
RunTask(w) ==
    /\ pc[w] = "run"
    /\ runs' = [runs EXCEPT ![task[w]] = @ + 1]
    /\ Goto(w, "finish")
    /\ UNCHANGED <<life, ctrl_lock, pool_lock, poolVars, cvVars, task, accepted>>

\* The worker that finished is never counted out.
UncountTask_Bug == UNCHANGED active_thrd_count

UncountTask == active_thrd_count' = active_thrd_count - 1

Retire(w) ==
    /\ pc[w] = "retire"
    /\ UncountTask
    /\ UnlockPool
    /\ Goto(w, "top")
    /\ UNCHANGED <<life, ctrl_lock, queue, pool_signaled, stop, cvVars, taskVars>>

-----------------------------------------------------------------------------
(* threadpool_startup.  A failure before its loop leaves ctx null and no   *)
(* thread; what is modelled starts where stop is cleared.                  *)

Startup ==
    /\ ctx = "null"
    /\ ctx' = "live"
    /\ ctrl_lock' = Main
    /\ stop' = FALSE
    /\ Goto(Main, "create")
    /\ UNCHANGED <<thread_handle, op, pool_lock, queue, pool_signaled,
                   active_thrd_count, cvVars, taskVars>>

\* The loop has reached the handle of w.
Creating(w) ==
    /\ pc[Main] = "create"
    /\ thread_handle[w] = "garbage"
    /\ \A v \in 0 .. w - 1 : thread_handle[v] = "live"

CreateThread(w) ==
    /\ Creating(w)
    /\ thread_handle' = [thread_handle EXCEPT ![w] = "live"]
    /\ Goto(w, "top")
    /\ UNCHANGED <<ctx, op, ctrl_lock, pool_lock, poolVars, cvVars, taskVars>>

\* The loop stops at the first failure; startup returns 1 all the same.
CreateFails(w) ==
    /\ "create" \in MayFail
    /\ Creating(w)
    /\ thread_handle' = [thread_handle EXCEPT ![w] = "zero"]
    /\ ctrl_lock' = Nobody
    /\ Goto(Main, "idle")
    /\ UNCHANGED <<ctx, op, pool_lock, poolVars, cvVars, taskVars>>

StartupDone ==
    /\ pc[Main] = "create"
    /\ \A w \in Workers : thread_handle[w] = "live"
    /\ ctrl_lock' = Nobody
    /\ Goto(Main, "idle")
    /\ UNCHANGED <<life, pool_lock, poolVars, cvVars, taskVars>>

-----------------------------------------------------------------------------
(* The calls.                                                              *)

\* What the program owes: no call after cleanup has begun, cleanup by Main
\* while no other call is in progress, and no more than MaxTasks tasks.
MayCall(c, o) ==
    /\ \A d \in Controllers : op[d] # "cleanup"
    /\ o = "cleanup" => c = Main /\ \A d \in Controllers : pc[d] = "idle"
    /\ o = "addtask" =>
          accepted + Cardinality({d \in Controllers :
                         pc[d] # "idle" /\ op[d] = "addtask"}) < MaxTasks

Call(c, o) ==
    /\ ctx = "live"
    /\ pc[Main] # "create"
    /\ pc[c] = "idle"
    /\ MayCall(c, o)
    /\ op' = [op EXCEPT ![c] = o]
    /\ Goto(c, "ctrl")
    /\ UNCHANGED <<ctx, thread_handle, ctrl_lock, pool_lock, poolVars, cvVars, taskVars>>

\* deque_push_back fails when the deque is full and cannot grow.
PushBack ==
    \/ /\ accepted < MaxTasks
       /\ queue' = Append(queue, accepted + 1)
       /\ accepted' = accepted + 1
    \/ "malloc" \in MayFail /\ UNCHANGED <<queue, accepted>>

\* The waiters are woken but the flag they test stays clear.
SetSignaled_Bug == UNCHANGED pool_signaled

SetSignaled == pool_signaled' = TRUE

AddTask(c) ==
    /\ pc[c] = "body"
    /\ op[c] = "addtask"
    /\ PushBack
    /\ CondSignal
    /\ SetSignaled
    /\ UnlockPool
    /\ Return(c)
    /\ UNCHANGED <<life, stop, active_thrd_count, task, runs>>

\* The pool is stopped: waitalltask, waitallthrd and cleanup return at once.
AlreadyStopped(c) ==
    /\ pc[c] = "body"
    /\ op[c] # "addtask"
    /\ stop
    /\ UnlockPool
    /\ Return(c)
    /\ UNCHANGED <<life, poolVars, cvVars, taskVars>>

WaitAllTask(c) ==
    /\ pc[c] = "body"
    /\ op[c] = "waitalltask"
    /\ ~stop
    /\ Goto(c, "await")
    /\ UNCHANGED <<life, ctrl_lock, pool_lock, poolVars, cvVars, taskVars>>

\* The tasks that workers have taken are forgotten.
Outstanding_Bug == queue # <<>>

Outstanding == queue # <<>> \/ active_thrd_count > 0

\* The wait loop of waitalltask, at its test.
AwaitAllTask(c) ==
    /\ c \in Controllers
    /\ pc[c] = "await"
    /\ \/ Outstanding /\ CondWait(c) /\ UNCHANGED ctrl_lock
       \/ ~Outstanding /\ UnlockPool /\ Return(c) /\ UNCHANGED cvVars
    /\ UNCHANGED <<life, poolVars, taskVars>>

\* waitallthrd, also as the first half of cleanup.
WaitAllThrd(c) ==
    /\ pc[c] = "body"
    /\ op[c] \in {"waitallthrd", "cleanup"}
    /\ ~stop
    /\ stop' = TRUE
    /\ CondBroadcast
    /\ SetSignaled
    /\ UnlockPool
    /\ Goto(c, "join")
    /\ UNCHANGED <<life, ctrl_lock, queue, active_thrd_count, taskVars>>

\* The loop of joins ends one thread too early.
Joined_Bug == \A w \in 0 .. ThrdCount - 2 : thread_handle[w] = "live" => pc[w] = "exit"

\* pthread_join has returned for every thread created.
Joined == \A w \in Workers : thread_handle[w] = "live" => pc[w] = "exit"

\* A handle that startup never wrote may happen to be 0 and be skipped.
Join(c) ==
    /\ pc[c] = "join"
    /\ Joined
    /\ thread_handle' = [w \in Workers |-> "zero"]
    /\ Return(c)
    /\ UNCHANGED <<ctx, op, pool_lock, poolVars, cvVars, taskVars>>

\* Or it is not 0, and joining it is undefined.
JoinGarbage(c) ==
    /\ pc[c] = "join"
    /\ Joined
    /\ \E w \in Workers : thread_handle[w] = "garbage"
    /\ ctx' = "crashed"
    /\ UNCHANGED <<thread_handle, op, ctrl_lock, pool_lock, poolVars, cvVars, pc, taskVars>>

\* The rest of cleanup: delete the queue and free the pool.
Cleanup(c) ==
    /\ pc[c] = "free"
    /\ ctx' = "freed"
    /\ queue' = <<>>
    /\ Goto(c, "done")
    /\ UNCHANGED <<thread_handle, op, ctrl_lock, pool_lock, pool_signaled, stop,
                   active_thrd_count, cvVars, taskVars>>

\* The program has no pool any more.
Exited == ctx = "freed" /\ UNCHANGED vars

-----------------------------------------------------------------------------
WorkerStep(w) ==
    /\ ctx # "crashed"
    /\ \/ LockPool(w)   \/ TakePermit(w)  \/ WorkerExit(w) \/ WorkerIdle(w)
       \/ WorkerAwait(w) \/ TakeTask(w)   \/ RunTask(w)    \/ Retire(w)

CallStep(c) ==
    /\ ctx # "crashed"
    /\ \/ LockCtrl(c)    \/ LockPool(c)     \/ TakePermit(c)  \/ AddTask(c)
       \/ WaitAllTask(c) \/ AwaitAllTask(c) \/ WaitAllThrd(c) \/ AlreadyStopped(c)
       \/ Join(c)        \/ JoinGarbage(c)  \/ Cleanup(c)

StartupStep ==
    \/ Startup
    \/ \E w \in Workers : CreateThread(w) \/ CreateFails(w)
    \/ StartupDone

Next ==
    \/ StartupStep
    \/ \E w \in Workers : WorkerStep(w)
    \/ \E c \in Controllers : CallStep(c)
    \/ \E c \in Controllers, o \in Ops : Call(c, o)
    \/ \E t \in Threads : SpuriousWakeup(t)
    \/ Exited

Spec == Init /\ [][Next]_vars

\* Every thread that can take a step takes one sooner or later, and a task's
\* function returns.  Nothing obliges the program to make a call.
FairSpec ==
    /\ Spec
    /\ WF_vars(StartupStep)
    /\ \A w \in Workers : WF_vars(WorkerStep(w))
    /\ \A c \in Controllers : WF_vars(CallStep(c))

-----------------------------------------------------------------------------
(* Properties.                                                             *)

\* Workers between the two updates of active_thrd_count.
Active == {w \in Workers : pc[w] \in {"run", "finish", "retire"}}

\* waitalltask trusts active_thrd_count to be the number of workers that
\* have taken a task and not yet reported back, whoever interleaves.
ActiveExact == active_thrd_count = Cardinality(Active)

Queued(t)  == {i \in DOMAIN queue : queue[i] = t}
Runners(t) == {w \in Workers : pc[w] = "run" /\ task[w] = t}

\* As long as there is a pool, a task that addtask accepted is in exactly one
\* place: once in the queue, in the hands of one worker, or executed, once.
ExactlyOnce ==
    ctx = "live" =>
        \A t \in 1 .. accepted :
            Cardinality(Queued(t)) + Cardinality(Runners(t)) + runs[t] = 1

\* Workers that will look at the queue again without being woken.
Awake(w) ==
    /\ pc[w] \notin {"off", "exit"}
    /\ w \in blocked => permits > 0

\* No wakeup is lost: while the pool has threads, a task in the queue or a
\* waitalltask asleep always leaves a worker awake that will see to it.
NoLostWakeup ==
    /\ \E w \in Workers : thread_handle[w] = "live"
    /\ queue # <<>> \/ Controllers \cap blocked # {}
    => \E w \in Workers : Awake(w)

\* A thread that can go on as things are.
CanGoOn(t) ==
    \/ pc[t] \in {"create", "check", "run", "retire", "await", "body", "free"}
    \/ pc[t] \in DOMAIN AfterLock /\ t \notin blocked /\ pool_lock = Nobody
    \/ t \in blocked /\ permits > 0
    \/ pc[t] = "ctrl" /\ ctrl_lock = Nobody
    \/ pc[t] = "join" /\ Joined

\* Nobody waits for one who waits for him: while a call is in progress somebody can
\* go on, be it a worker that another waits for, or the holder of a lock.  (A pool
\* without a thread leaves waitalltask asleep.)
NobodyStuck ==
    /\ ctx # "crashed"
    /\ \E c \in Controllers : pc[c] \notin {"idle", "done"}
    /\ \E w \in Workers : pc[w] # "off"
    => \E t \in Threads : CanGoOn(t)

\* When waitalltask returns, no task runs, and none waits in the queue unless
\* it was added to a pool that had been stopped before.
WaitAllTaskSound ==
    [][\A c \in Controllers :
          op[c] = "waitalltask" /\ pc[c] \in {"body", "await"} /\ pc'[c] = "idle"
          => /\ \A w \in Workers : pc[w] # "run"
             /\ queue = <<>> \/ stop]_vars

\* When waitallthrd has joined the threads, every task accepted before has been
\* executed: stopping drains the queue instead of dropping it.
JoinDrains ==
    [][\A c \in Controllers :
          pc[c] = "join" /\ pc'[c] # "join"
          => \A t \in 1 .. accepted : runs[t] = 1]_vars

\* Every call that a controller makes returns, startup included, unless no thread at
\* all could be created or a handle that was never written is joined.
CallsReturn ==
    \A c \in Controllers :
        pc[c] # "idle" ~> \/ pc[c] \in {"idle", "done"}
                         \/ ctx = "crashed"
                         \/ \A w \in Workers : pc[w] = "off"

\* threadpool_startup, when it does not fail, has created every thread: its
\* caller takes 0 for "threadpool_startup failed" and anything else for a pool.
StartupCreatesAll ==
    ctx = "live" /\ pc[Main] # "create" /\ ~stop
    => \A w \in Workers : thread_handle[w] = "live"

\* The pool seen as a TaskPool.
phaseBar ==
    IF ctx = "live"
    THEN IF ~stop THEN "open"
         ELSE IF \E c \in Controllers : pc[c] = "join" THEN "closing" ELSE "closed"
    ELSE IF ctx = "null" THEN "new" ELSE "gone"

runningBar  == {task[w] : w \in {v \in Workers : pc[v] = "run"}}
finishedBar == {t \in 1 .. MaxTasks : runs[t] > 0}

Pool == INSTANCE TaskPool WITH
    MaxRunning <- ThrdCount,
    phase      <- phaseBar,
    pending    <- queue,
    running    <- runningBar,
    finished   <- finishedBar

\* The locks, flags and wakeups of the pool keep the promise of TaskPool: tasks
\* start in order, run once, at most ThrdCount at a time, and a close drains.
ImplementsTaskPool == Pool!SafetySpec

\* They also keep its promise of progress: tasks are started and executed, and
\* waitallthrd completes.
ImplementsTaskPoolFairly == Pool!Spec
=============================================================================
