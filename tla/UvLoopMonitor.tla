--------------------------- MODULE UvLoopMonitor ---------------------------
(***************************************************************************)
(* How a libuv loop is served by a JavaScript thread that does not sleep in *)
(* it (NativeEngine::CheckUVLoop, UVThreadRunner, PostLoopTask, Loop and    *)
(* CancelCheckUVLoop in native_engine/native_engine.cpp).  A monitor thread *)
(* sleeps in epoll_wait on the loop's descriptor; when there is work it     *)
(* posts a task to the JavaScript thread, which runs the loop once and      *)
(* posts uvSem_, on which the monitor waits meanwhile.                      *)
(*                                                                          *)
(* checkUVLoop_ is a plain bool that one thread writes and the other reads; *)
(* each read follows a call the compiler cannot see into, and the write is  *)
(* followed by uv_async_send and uv_sem_post, so a read is a read of the    *)
(* variable.  The host that runs posted tasks and libuv are external.       *)
(***************************************************************************)
EXTENDS Naturals

CONSTANT MaxSessions    \* bound: calls of CheckUVLoop

ASSUME SessionsAssumption == MaxSessions \in Nat

VARIABLES
    checkUVLoop,   \* checkUVLoop_
    sem,           \* value of uvSem_
    monitor,       \* where UVThreadRunner is
    bounded,       \* the timeout the monitor sleeps with is not infinite
    js,            \* what the JavaScript thread is doing
    syncTasks,     \* posted tasks that run Loop(LOOP_NOWAIT, true)
    plainTask,     \* a task of TriggerPostTask is posted: Loop(LOOP_NOWAIT, false)
    fdReady,       \* the loop's descriptor is readable
    armed,         \* timers, idle or closing handles: uv_backend_timeout shows them
    sessions       \* calls of CheckUVLoop

vars == <<checkUVLoop, sem, monitor, bounded, js, syncTasks, plainTask, fdReady,
          armed, sessions>>

TypeOK ==
    /\ checkUVLoop \in BOOLEAN
    /\ sem \in 0 .. MaxSessions + 1
    /\ monitor \in {"none", "post", "wait", "check", "timeout", "poll", "woken", "exited"}
    /\ bounded \in BOOLEAN
    /\ js \in {"idle", "loopSync", "loopPlain", "synced", "cleanup", "send",
               "semPost", "join"}
    /\ syncTasks \in 0 .. MaxSessions + 1
    /\ plainTask \in BOOLEAN
    /\ fdReady \in BOOLEAN
    /\ armed \in BOOLEAN
    /\ sessions \in 0 .. MaxSessions

Init ==
    /\ checkUVLoop = FALSE
    /\ sem = 0
    /\ monitor = "none"
    /\ bounded = FALSE
    /\ js = "idle"
    /\ syncTasks = 0
    /\ plainTask = FALSE
    /\ fdReady \in BOOLEAN
    /\ armed \in BOOLEAN
    /\ sessions = 0
-----------------------------------------------------------------------------
(* The monitor thread: UVThreadRunner *)

loopVars == <<fdReady, armed>>
taskVars == <<syncTasks, plainTask>>

MonitorMoves(from, to) == monitor = from /\ monitor' = to

\* MUTANT: the monitor does not wait for the task it posted.
PostLoopTask_noWait ==
    /\ MonitorMoves("post", "check")
    /\ syncTasks' = syncTasks + 1
    /\ UNCHANGED <<checkUVLoop, sem, bounded, js, plainTask, loopVars, sessions>>

\* postTask_(true); uv_sem_wait comes next.
PostLoopTask ==
    /\ MonitorMoves("post", "wait")
    /\ syncTasks' = syncTasks + 1
    /\ UNCHANGED <<checkUVLoop, sem, bounded, js, plainTask, loopVars, sessions>>

SemWait ==
    /\ MonitorMoves("wait", "check")
    /\ sem > 0
    /\ sem' = sem - 1
    /\ UNCHANGED <<checkUVLoop, bounded, js, taskVars, loopVars, sessions>>

\* The check after PostLoopTask and that of the while: two reads in a row end
\* the thread if either sees false.
CheckFlag ==
    /\ monitor = "check"
    /\ monitor' = IF checkUVLoop THEN "timeout" ELSE "exited"
    /\ UNCHANGED <<checkUVLoop, sem, bounded, js, taskVars, loopVars, sessions>>

\* uv_backend_timeout, then epoll_wait with it.
BackendTimeout ==
    /\ MonitorMoves("timeout", "poll")
    /\ bounded' = armed
    /\ UNCHANGED <<checkUVLoop, sem, js, taskVars, loopVars, sessions>>

PollReturns ==
    /\ MonitorMoves("poll", "woken")
    /\ fdReady \/ bounded
    /\ UNCHANGED <<checkUVLoop, sem, bounded, js, taskVars, loopVars, sessions>>

\* epoll_wait is interrupted: the while is evaluated again.
PollInterrupted ==
    /\ MonitorMoves("poll", "check")
    /\ ~fdReady
    /\ UNCHANGED <<checkUVLoop, sem, bounded, js, taskVars, loopVars, sessions>>

CheckFlagAfterPoll ==
    /\ monitor = "woken"
    /\ monitor' = IF checkUVLoop THEN "post" ELSE "exited"
    /\ UNCHANGED <<checkUVLoop, sem, bounded, js, taskVars, loopVars, sessions>>

UVThreadRunner ==
    \/ PostLoopTask \/ SemWait \/ CheckFlag \/ BackendTimeout
    \/ PollReturns \/ PollInterrupted \/ CheckFlagAfterPoll
-----------------------------------------------------------------------------
(* The JavaScript thread *)

JsMoves(from, to) == js = from /\ js' = to

CheckUVLoop ==
    /\ js = "idle"
    /\ monitor = "none"
    /\ sessions < MaxSessions
    /\ sessions' = sessions + 1
    /\ checkUVLoop' = TRUE
    /\ monitor' = "post"
    /\ UNCHANGED <<sem, bounded, js, taskVars, loopVars>>

\* The host takes a posted task: NativeEngine::Loop is entered.
RunPostedTask ==
    /\ \/ /\ JsMoves("idle", "loopSync")
          /\ syncTasks > 0
          /\ syncTasks' = syncTasks - 1
          /\ UNCHANGED plainTask
       \/ /\ JsMoves("idle", "loopPlain")
          /\ plainTask
          /\ plainTask' = FALSE
          /\ UNCHANGED syncTasks
    /\ UNCHANGED <<checkUVLoop, sem, monitor, bounded, loopVars, sessions>>

\* uv_run(loop_, UV_RUN_NOWAIT) serves what is there; its callbacks may start
\* timers and close handles.
UvRun ==
    /\ fdReady' = FALSE
    /\ armed' \in BOOLEAN

\* MUTANT: needSync is ignored.
Loop_alwaysSyncs ==
    /\ JsMoves("loopSync", "synced") \/ JsMoves("loopPlain", "synced")
    /\ UvRun
    /\ UNCHANGED <<checkUVLoop, sem, monitor, bounded, taskVars, sessions>>
Loop ==
    /\ JsMoves("loopSync", "synced") \/ JsMoves("loopPlain", "idle")
    /\ UvRun
    /\ UNCHANGED <<checkUVLoop, sem, monitor, bounded, taskVars, sessions>>

\* MUTANT: the semaphore is not posted.
LoopSync_silent ==
    /\ JsMoves("synced", "idle")
    /\ UNCHANGED <<checkUVLoop, sem, monitor, bounded, taskVars, loopVars, sessions>>
LoopSync ==
    /\ JsMoves("synced", "idle")
    /\ sem' = sem + 1
    /\ UNCHANGED <<checkUVLoop, monitor, bounded, taskVars, loopVars, sessions>>

\* Other tasks of the JavaScript thread start timers, close handles...
OtherTask ==
    /\ js = "idle"
    /\ armed' = TRUE
    /\ UNCHANGED <<checkUVLoop, sem, monitor, bounded, js, taskVars, fdReady, sessions>>

\* ... and ask for the loop to be run.
TriggerPostTask ==
    /\ js = "idle"
    /\ plainTask' = TRUE
    /\ UNCHANGED <<checkUVLoop, sem, monitor, bounded, js, syncTasks, loopVars, sessions>>

CancelCheckUVLoop ==
    /\ JsMoves("idle", "cleanup")
    /\ monitor # "none"
    /\ checkUVLoop' = FALSE
    /\ UNCHANGED <<sem, monitor, bounded, taskVars, loopVars, sessions>>

\* RunCleanup runs the loop while asynchronous clean-up hooks are awaited.
CancelRunCleanup ==
    /\ JsMoves("cleanup", "send")
    /\ UvRun \/ UNCHANGED loopVars
    /\ UNCHANGED <<checkUVLoop, sem, monitor, bounded, taskVars, sessions>>

CancelAsyncSend ==
    /\ JsMoves("send", "semPost")
    /\ fdReady' = TRUE
    /\ UNCHANGED <<checkUVLoop, sem, monitor, bounded, taskVars, armed, sessions>>

\* MUTANT: a monitor that waits for its task is not released.
CancelSemPost_missing ==
    /\ JsMoves("semPost", "join")
    /\ UNCHANGED <<checkUVLoop, sem, monitor, bounded, taskVars, loopVars, sessions>>
CancelSemPost ==
    /\ JsMoves("semPost", "join")
    /\ sem' = sem + 1
    /\ UNCHANGED <<checkUVLoop, monitor, bounded, taskVars, loopVars, sessions>>

CancelJoin ==
    /\ JsMoves("join", "idle")
    /\ MonitorMoves("exited", "none")
    /\ UNCHANGED <<checkUVLoop, sem, bounded, taskVars, loopVars, sessions>>

\* Input, or uv_async_send from another thread.
ExternalEvent ==
    /\ fdReady' = TRUE
    /\ UNCHANGED <<checkUVLoop, sem, monitor, bounded, js, taskVars, armed, sessions>>

Cancelling == CancelRunCleanup \/ CancelAsyncSend \/ CancelSemPost \/ CancelJoin

Next ==
    \/ UVThreadRunner
    \/ CheckUVLoop \/ RunPostedTask \/ Loop \/ LoopSync \/ OtherTask \/ TriggerPostTask
    \/ CancelCheckUVLoop \/ Cancelling
    \/ ExternalEvent

Spec == Init /\ [][Next]_vars

\* Both threads run; the host takes posted tasks again and again; epoll_wait
\* reports a descriptor that is ready and a timeout that is over, however often
\* signals interrupt it.
Fairness ==
    /\ WF_vars(PostLoopTask) /\ WF_vars(SemWait) /\ WF_vars(CheckFlag)
    /\ WF_vars(BackendTimeout) /\ SF_vars(PollReturns) /\ WF_vars(CheckFlagAfterPoll)
    /\ SF_vars(RunPostedTask /\ js' = "loopSync") /\ WF_vars(Loop) /\ WF_vars(LoopSync)
    /\ WF_vars(CancelRunCleanup) /\ WF_vars(CancelAsyncSend)
    /\ WF_vars(CancelSemPost) /\ WF_vars(CancelJoin)

FairSpec == Spec /\ Fairness
-----------------------------------------------------------------------------
(* Properties *)

\* A task of the monitor that has not reached its uv_sem_post.
Outstanding == syncTasks + (IF js \in {"loopSync", "synced"} THEN 1 ELSE 0)

\* Calls of uv_sem_post by CancelCheckUVLoop.
Cancels ==
    IF sessions > 0 /\ (checkUVLoop \/ js \in {"cleanup", "send", "semPost"})
    THEN sessions - 1
    ELSE sessions

\* Posted tasks, the semaphore and the waiting monitor balance: every cancelled
\* session leaves exactly one token or one task behind, and nothing else does,
\* so tasks do not pile up behind a busy JavaScript thread.
HandshakeBalance ==
    Outstanding + sem = (IF monitor = "wait" THEN 1 ELSE 0) + Cancels

\* Until the monitor has been cancelled once, it reads the loop's descriptor and
\* timeout only while no task of its own is left that would run the loop.  (One
\* that is started again after a cancel finds the token of the cancel.)
TaskAndMonitorAlternate ==
    (sessions = 1 /\ checkUVLoop /\ monitor \in {"timeout", "poll"}) =>
        Outstanding = 0 /\ sem = 0

\* Input on the loop is served unless the monitor is cancelled.  So is a timer or
\* a closing handle the monitor has not missed: one that is armed while the
\* monitor is not asleep yet.
LoopIsServed ==
    /\ (fdReady /\ checkUVLoop) ~> (~fdReady \/ ~checkUVLoop)
    /\ (armed /\ checkUVLoop /\ monitor # "poll") ~> (js \in {"loopSync", "loopPlain"} \/ ~checkUVLoop)

\* CancelCheckUVLoop returns wherever the monitor is when it is called: about to
\* post, waiting for a task the JavaScript thread will not run, or asleep.
CancelReturns == js = "cleanup" ~> js = "idle"
=============================================================================
