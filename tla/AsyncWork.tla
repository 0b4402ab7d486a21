------------------------------ MODULE AsyncWork ------------------------------
(***************************************************************************)
(* NativeAsyncWork as napi_async_work uses it (native_async_work.cpp and    *)
(* napi_create/delete/queue/cancel_async_work in native_node_api.cpp): work *)
(* is queued on libuv's thread pool, executed there, and completed on the   *)
(* loop thread.  The pool (external) takes work in order; uv_cancel can     *)
(* take back what no thread has started; finished and cancelled work waits  *)
(* for the loop in one list.                                                *)
(*                                                                          *)
(* Queue and Cancel report failure to the API functions, which drop it: a   *)
(* caller learns what became of its work from the complete callback alone.  *)
(***************************************************************************)
EXTENDS Naturals, Sequences, FiniteSets, SequencesExt

CONSTANTS
    Works,         \* NativeAsyncWork objects
    PoolThreads,   \* threads of libuv's pool
    NoWork,
    MaxQueues      \* bound: times one work is queued

ASSUME WorkAssumption ==
    /\ NoWork \notin Works
    /\ MaxQueues \in Nat

VARIABLES
    object,       \* the NativeAsyncWork: "none", "live", "deleted"
    req,          \* state of its uv_work_t
    pool,         \* libuv's queue of work not started
    running,      \* what each pool thread executes
    after,        \* work the loop has to complete
    completing,   \* the work whose complete_ is running
    queued,       \* ghost: accepted calls of napi_queue_async_work
    ran,          \* ghost: how often execute_ has returned
    told,         \* ghost: the statuses given to complete_
    freedRead     \* ghost: a callback of this code read a deleted work

workVars == <<object, req, pool, running, after, completing, queued, ran, told,
              freedRead>>

WorkTypeOK ==
    /\ object \in [Works -> {"none", "live", "deleted"}]
    /\ req \in [Works -> {"idle", "queued", "running", "finished", "cancelled"}]
    /\ pool \in Seq(Works)
    /\ running \in [PoolThreads -> Works \cup {NoWork}]
    /\ after \in Seq(Works)
    /\ completing \in Works \cup {NoWork}
    /\ queued \in [Works -> 0 .. MaxQueues]
    /\ ran \in [Works -> 0 .. MaxQueues]
    /\ told \in [Works -> Seq({"napi_ok", "napi_cancelled"})]
    /\ freedRead \in BOOLEAN

WorkInit ==
    /\ object = [w \in Works |-> "none"]
    /\ req = [w \in Works |-> "idle"]
    /\ pool = <<>>
    /\ running = [p \in PoolThreads |-> NoWork]
    /\ after = <<>>
    /\ completing = NoWork
    /\ queued = [w \in Works |-> 0]
    /\ ran = [w \in Works |-> 0]
    /\ told = [w \in Works |-> <<>>]
    /\ freedRead = FALSE
-----------------------------------------------------------------------------
(* User code on the loop thread, in a complete callback or not.  The code    *)
(* tests nothing before it queues or deletes work; a caller does either only *)
(* when complete_ has been called for each time it queued the work: before   *)
(* it is queued, in its complete callback or later.  Whether libuv and this  *)
(* code are done with the work then is a property of theirs.                 *)

Answered(w) == queued[w] = Len(told[w])

Create(w) ==
    /\ object[w] = "none"
    /\ object' = [object EXCEPT ![w] = "live"]
    /\ UNCHANGED <<req, pool, running, after, completing, queued, ran, told,
                   freedRead>>

Queue(w) ==
    /\ object[w] = "live"
    /\ Answered(w)
    /\ queued[w] < MaxQueues
    /\ req' = [req EXCEPT ![w] = "queued"]
    /\ pool' = Append(pool, w)
    /\ queued' = [queued EXCEPT ![w] = @ + 1]
    /\ UNCHANGED <<object, running, after, completing, ran, told, freedRead>>

\* MUTANT: work that is being executed is cancelled as well.
Cancel_running(w) ==
    /\ object[w] = "live"
    /\ req[w] \in {"queued", "running"}
    /\ req' = [req EXCEPT ![w] = "cancelled"]
    /\ pool' = RemoveFirst(pool, w)
    /\ after' = Append(after, w)
    /\ UNCHANGED <<object, running, completing, queued, ran, told, freedRead>>

\* MUTANT: the cancelled work is taken from the pool and not given to the loop.
Cancel_forgets(w) ==
    /\ object[w] = "live"
    /\ req[w] = "queued"
    /\ req' = [req EXCEPT ![w] = "cancelled"]
    /\ pool' = RemoveFirst(pool, w)
    /\ UNCHANGED <<object, running, after, completing, queued, ran, told,
                   freedRead>>

\* uv_cancel: otherwise it fails, nothing changes, and the API says napi_ok.
Cancel(w) ==
    /\ object[w] = "live"
    /\ req[w] \in {"queued", "cancelled"}
    /\ req' = [req EXCEPT ![w] = "cancelled"]
    /\ pool' = RemoveFirst(pool, w)
    /\ after' = Append(RemoveFirst(after, w), w)
    /\ UNCHANGED <<object, running, completing, queued, ran, told, freedRead>>

Delete(w) ==
    /\ object[w] = "live"
    /\ Answered(w)
    /\ object' = [object EXCEPT ![w] = "deleted"]
    /\ UNCHANGED <<req, pool, running, after, completing, queued, ran, told,
                   freedRead>>
-----------------------------------------------------------------------------
Reads(w) == freedRead' = (freedRead \/ object[w] # "live")

\* A pool thread takes the first work: AsyncWorkCallback calls execute_.
AsyncWorkCallback(p) ==
    /\ running[p] = NoWork
    /\ pool # <<>>
    /\ running' = [running EXCEPT ![p] = Head(pool)]
    /\ req' = [req EXCEPT ![Head(pool)] = "running"]
    /\ pool' = Tail(pool)
    /\ Reads(Head(pool))
    /\ UNCHANGED <<object, after, completing, queued, ran, told>>

ExecuteReturns(p) ==
    LET w == running[p] IN
    /\ w # NoWork
    /\ running' = [running EXCEPT ![p] = NoWork]
    /\ req' = [req EXCEPT ![w] = "finished"]
    /\ ran' = [ran EXCEPT ![w] = @ + 1]
    /\ after' = Append(after, w)
    /\ UNCHANGED <<object, pool, completing, queued, told, freedRead>>

AfterWorkStatus(w) == IF req[w] = "cancelled" THEN "napi_cancelled" ELSE "napi_ok"

\* AsyncAfterWorkCallback: libuv has let go of the request, a scope is opened,
\* and complete_ is called.
AsyncAfterWorkCallback ==
    /\ completing = NoWork
    /\ after # <<>>
    /\ LET w == Head(after) IN
       /\ completing' = w
       /\ req' = [req EXCEPT ![w] = "idle"]
       /\ told' = [told EXCEPT ![w] = Append(@, AfterWorkStatus(w))]
       /\ Reads(w)
    /\ after' = Tail(after)
    /\ UNCHANGED <<object, pool, running, queued, ran>>

\* MUTANT: the scope manager is asked for again, through the work.
CompleteReturns_reads ==
    /\ completing # NoWork
    /\ completing' = NoWork
    /\ Reads(completing)
    /\ UNCHANGED <<object, req, pool, running, after, queued, ran, told>>

\* The scope is closed; the work, which may be deleted, is not touched.
CompleteReturns ==
    /\ completing # NoWork
    /\ completing' = NoWork
    /\ UNCHANGED <<object, req, pool, running, after, queued, ran, told, freedRead>>

UserCode == \E w \in Works : Create(w) \/ Queue(w) \/ Cancel(w) \/ Delete(w)
Pool == \E p \in PoolThreads : AsyncWorkCallback(p) \/ ExecuteReturns(p)

WorkNext == UserCode \/ Pool \/ AsyncAfterWorkCallback \/ CompleteReturns

WorkSpec == WorkInit /\ [][WorkNext]_workVars

\* Pool threads and loop run, and execute and complete callbacks return.
WorkFairness ==
    /\ \A p \in PoolThreads : WF_workVars(ExecuteReturns(p))
    /\ WF_workVars(\E p \in PoolThreads : AsyncWorkCallback(p))
    /\ WF_workVars(AsyncAfterWorkCallback) /\ WF_workVars(CompleteReturns)

WorkFairSpec == WorkSpec /\ WorkFairness
-----------------------------------------------------------------------------
(* Properties *)

Pending(w) == IF req[w] = "idle" THEN 0 ELSE 1
ToldOk(statuses) == {n \in DOMAIN statuses : statuses[n] = "napi_ok"}

\* Each time work is queued it is completed once: with a cancel racing the pool
\* threads, a second cancel, and work queued again by its complete callback.
\* complete_ is told one of two things (the type invariant): "ok" means that
\* execute_ ran and has returned, "cancelled" that it never started.
ToldOnceWhatHappened ==
    /\ WorkTypeOK
    /\ \A w \in Works :
        /\ queued[w] = Len(told[w]) + Pending(w)
        /\ ran[w] = Cardinality(ToldOk(told[w]))
                      + (IF req[w] = "finished" THEN 1 ELSE 0)

InUse == Range(pool) \cup Range(after) \cup {running[p] : p \in PoolThreads}

\* A caller may delete its work as soon as complete_ was called for each time it
\* queued it, in complete_ itself at the earliest: with cancels that race the pool
\* threads and are repeated, libuv keeps no request of it, and none of the
\* callbacks, AsyncAfterWorkCallback after complete_ included, reads it again.
DeletedUntouched ==
    /\ ~freedRead
    /\ \A w \in InUse \ {NoWork} : object[w] = "live"

\* Queued work is completed in the end, cancelled or not.
QueuedIsCompleted == \A w \in Works : req[w] # "idle" ~> req[w] = "idle"
=============================================================================
