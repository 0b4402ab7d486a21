------------------------- MODULE ThreadSafeFunction -------------------------
(***************************************************************************)
(* NativeSafeAsyncWork (native_engine/native_safe_async_work.cpp): the      *)
(* object behind a napi_threadsafe_function.  Native threads Send data,     *)
(* Acquire and Release the function under mutex_; the loop thread takes the *)
(* data out one item per idle callback, HOLDING mutex_ while it calls       *)
(* callJsCallback_, and closes the two libuv handles when the last          *)
(* reference is gone or the function was aborted.                           *)
(*                                                                          *)
(* A critical section that does not wait is one action.  The loop's is two  *)
(* (IdleCallback ... CallbackReturns), because user code runs in the middle *)
(* of it; no other action that needs mutex_ is enabled between them.        *)
(* libuv is external: uv_async_send sets a coalescing flag, the loop may    *)
(* run the async, idle and close callbacks in any order.                    *)
(***************************************************************************)
EXTENDS Integers, Sequences, FiniteSets

CONSTANTS
    Threads,           \* the native threads that were given the function
    Holders,           \* the threads that own one of the initial references
    Guests,            \* threads that use the function without a reference
    Blockers,          \* threads that call with napi_tsfn_blocking
    MaxQueueSize,      \* max_queue_size, 0 for "no limit"
    AsyncSendMayFail,  \* can uv_async_send report an error?
    MaxCalls           \* bound: API calls a thread makes

MAX_THREAD_SAFE_COUNT == 128

ASSUME ThreadsAssumption ==
    /\ Holders \subseteq Threads
    /\ Guests \subseteq Threads
    /\ Blockers \subseteq Threads
    /\ IsFiniteSet(Holders)
    \* native_node_api.cpp:318-320: initial_thread_count is checked
    /\ Cardinality(Holders) \in 1 .. MAX_THREAD_SAFE_COUNT

ASSUME BoundsAssumption ==
    /\ MaxQueueSize \in Nat
    /\ MaxCalls \in Nat
    /\ AsyncSendMayFail \in BOOLEAN

VARIABLES
    status,        \* status_
    queue,         \* queue_
    threadCount,   \* threadCount_
    asyncPending,  \* asyncHandler_ was sent and its callback has not run
    idleActive,    \* idleHandler_ is started
    handles,       \* how far CloseHandles has come
    refd,          \* the handles keep the loop alive
    loop,          \* what the loop thread is doing
    pc,            \* where a native thread is inside Send
    result,        \* the napi_status of a thread's last call
    refs,          \* ghost: references a thread owns
    calls,         \* number of calls a thread has made
    aborted,       \* ghost: napi_tsfn_abort was used
    accepted,      \* ghost: data queued, in the order of queue_.push
    delivered,     \* ghost: data handed to callJsCallback_ with an environment
    drained        \* ghost: data handed to it with none, by CleanUp

vars == <<status, queue, threadCount, asyncPending, idleActive, handles, refd,
          loop, pc, result, refs, calls, aborted, accepted, delivered, drained>>
ghosts  == <<accepted, delivered, drained>>
uvVars  == <<asyncPending, idleActive, handles, refd, loop>>

Statuses == {"INTE", "CLOSING", "CLOSED"}
NapiStatuses == {"none", "ok", "queue_full", "closing", "invalid_arg",
                 "generic_failure"}
\* A datum is named by the thread that sent it and the call that did.
Items == Threads \X (1 .. MaxCalls)

TypeOK ==
    /\ status \in Statuses
    /\ queue \in Seq(Items)
    /\ threadCount \in Nat
    /\ asyncPending \in BOOLEAN
    /\ idleActive \in BOOLEAN
    /\ handles \in {"open", "closingAsync", "closingIdle", "closed"}
    /\ refd \in BOOLEAN
    /\ loop \in {"poll", "callback", "finalizing", "draining"}
    /\ pc \in [Threads -> {"out", "waiting", "woken"}]
    /\ result \in [Threads -> NapiStatuses]
    /\ refs \in [Threads -> Nat]
    /\ calls \in [Threads -> 0 .. MaxCalls]
    /\ aborted \in BOOLEAN
    /\ accepted \in Seq(Items)
    /\ delivered \in Seq(Items)
    /\ drained \in Seq(Items)

\* napi_create_threadsafe_function returned napi_ok: Init succeeded.  (When it
\* fails, no thread ever gets the function.)
Init ==
    /\ status = "INTE"
    /\ queue = <<>>
    /\ threadCount = Cardinality(Holders)
    /\ asyncPending = FALSE
    /\ idleActive = FALSE
    /\ handles = "open"
    /\ refd = TRUE
    /\ loop = "poll"
    /\ pc = [t \in Threads |-> "out"]
    /\ result = [t \in Threads |-> "none"]
    /\ refs = [t \in Threads |-> IF t \in Holders THEN 1 ELSE 0]
    /\ calls = [t \in Threads |-> 0]
    /\ aborted = FALSE
    /\ accepted = <<>>
    /\ delivered = <<>>
    /\ drained = <<>>
-----------------------------------------------------------------------------
\* mutex_ is held across actions only by the loop thread, in callJsCallback_.
MutexFree == loop # "callback"

\* MUTANT: only CLOSED counts as closing.
Closing_missesAbort == status = "CLOSED"
Closing == status \in {"CLOSING", "CLOSED"}

\* MUTANT: off by one.
IsMaxQueueSize_offByOne ==
    Len(queue) > MaxQueueSize + 1 /\ MaxQueueSize > 0 /\ ~Closing
IsMaxQueueSize ==
    /\ Len(queue) > MaxQueueSize
    /\ MaxQueueSize > 0
    /\ ~Closing

\* A thread that is not a guest calls only while it owns a reference.
MayUse(t) == refs[t] > 0 \/ t \in Guests

\* The thread enters an API function.
Enter(t) ==
    /\ pc[t] = "out"
    /\ calls[t] < MaxCalls
    /\ MutexFree
    /\ calls' = [calls EXCEPT ![t] = @ + 1]

Return(t, code) ==
    /\ pc' = [pc EXCEPT ![t] = "out"]
    /\ result' = [result EXCEPT ![t] = code]

GiveUpRef(t) == refs' = [refs EXCEPT ![t] = IF @ > 0 THEN @ - 1 ELSE 0]

Waiting == {t \in Threads : pc[t] = "waiting"}

\* MUTANT: nobody is notified.
NotifyOne_missing == pc' = pc

\* condition_.notify_one(): one waiter, if there is any.
NotifyOne ==
    \/ Waiting = {} /\ pc' = pc
    \/ \E w \in Waiting : pc' = [pc EXCEPT ![w] = "woken"]

\* uv_async_send(&asyncHandler_): sends coalesce.
AsyncSend(t) ==
    \/ asyncPending' = TRUE /\ Return(t, "ok")
    \/ AsyncSendMayFail /\ UNCHANGED asyncPending /\ Return(t, "generic_failure")

\* MUTANT: the count is not checked against zero.
SendRefused_unchecked(t) ==
    /\ Closing
    /\ threadCount' = threadCount - 1
    /\ GiveUpRef(t)
    /\ Return(t, "closing")
    /\ UNCHANGED <<queue, accepted, asyncPending>>

\* Send once the queue has room or the function is closing: what follows the
\* wait.  The reference of a caller that is told "closing" is gone.
SendRefused(t) ==
    /\ Closing
    /\ \/ /\ threadCount = 0
          /\ Return(t, "invalid_arg")
          /\ UNCHANGED <<threadCount, refs>>
       \/ /\ threadCount > 0
          /\ threadCount' = threadCount - 1
          /\ GiveUpRef(t)
          /\ Return(t, "closing")
    /\ UNCHANGED <<queue, accepted, asyncPending>>

\* The datum stays queued when the loop could not be signalled.
SendPush(t) ==
    /\ ~Closing
    /\ queue' = Append(queue, <<t, calls'[t]>>)
    /\ accepted' = Append(accepted, <<t, calls'[t]>>)
    /\ AsyncSend(t)
    /\ UNCHANGED <<threadCount, refs>>

SendFinish(t) ==
    /\ SendRefused(t) \/ SendPush(t)
    /\ UNCHANGED <<status, idleActive, handles, refd, loop, aborted, delivered,
                   drained>>
-----------------------------------------------------------------------------
(* Native threads *)

Send(t) ==
    /\ MayUse(t)
    /\ Enter(t)
    /\ \/ /\ ~IsMaxQueueSize
          /\ SendFinish(t)
       \/ /\ IsMaxQueueSize
          /\ IF t \in Blockers
               THEN /\ pc' = [pc EXCEPT ![t] = "waiting"]
                    /\ UNCHANGED result
               ELSE Return(t, "queue_full")
          /\ UNCHANGED <<status, queue, threadCount, uvVars, refs, aborted, ghosts>>

\* The waiter was notified, owns mutex_ again and re-evaluates the while.
Resume(t) ==
    /\ pc[t] = "woken"
    /\ MutexFree
    /\ UNCHANGED calls
    /\ \/ /\ ~IsMaxQueueSize
          /\ SendFinish(t)
       \/ /\ IsMaxQueueSize
          /\ pc' = [pc EXCEPT ![t] = "waiting"]
          /\ UNCHANGED <<status, queue, threadCount, uvVars, result, refs,
                         aborted, ghosts>>

\* std::condition_variable::wait may return without a notification.
SpuriousWakeup(t) ==
    /\ pc[t] = "waiting"
    /\ pc' = [pc EXCEPT ![t] = "woken"]
    /\ UNCHANGED <<status, queue, threadCount, uvVars, result, refs, calls,
                   aborted, ghosts>>

Acquire(t) ==
    /\ Enter(t)
    /\ \/ /\ Closing
          /\ Return(t, "generic_failure")
          /\ UNCHANGED <<threadCount, refs>>
       \/ /\ ~Closing
          /\ threadCount' = threadCount + 1
          /\ refs' = [refs EXCEPT ![t] = @ + 1]
          /\ Return(t, "ok")
    /\ UNCHANGED <<status, queue, uvVars, aborted, ghosts>>

\* napi_release_threadsafe_function turns every refusal into generic_failure.
ReleaseRefused(t) ==
    /\ Closing \/ threadCount = 0
    /\ GiveUpRef(t)
    /\ Return(t, "generic_failure")
    /\ UNCHANGED <<status, threadCount, asyncPending, aborted>>

ReleaseAccepted(t) ==
    /\ ~Closing
    /\ threadCount > 0
    /\ threadCount' = threadCount - 1
    /\ GiveUpRef(t)
    /\ IF threadCount' = 0
         THEN AsyncSend(t)
         ELSE Return(t, "ok") /\ UNCHANGED asyncPending
    /\ UNCHANGED <<status, aborted>>

\* notify_one first, then uv_async_send; the caller itself is not a waiter.
ReleaseAbort(t) ==
    /\ ~Closing
    /\ threadCount > 0
    /\ threadCount' = threadCount - 1
    /\ GiveUpRef(t)
    /\ status' = "CLOSING"
    /\ aborted' = TRUE
    /\ IF MaxQueueSize > 0 THEN NotifyOne ELSE pc' = pc
    /\ \/ asyncPending' = TRUE /\ result' = [result EXCEPT ![t] = "ok"]
       \/ /\ AsyncSendMayFail
          /\ UNCHANGED asyncPending
          /\ result' = [result EXCEPT ![t] = "generic_failure"]

Release(t) ==
    /\ MayUse(t)
    /\ Enter(t)
    /\ ReleaseRefused(t) \/ ReleaseAccepted(t) \/ ReleaseAbort(t)
    /\ UNCHANGED <<queue, idleActive, handles, refd, loop, ghosts>>
-----------------------------------------------------------------------------
(* The loop thread *)

clientVars == <<result, refs, calls, aborted>>

\* Ref and Unref refuse every thread but the loop's.
Ref ==
    /\ refd' = TRUE
    /\ UNCHANGED <<status, queue, threadCount, asyncPending, idleActive, handles,
                   loop, pc, clientVars, ghosts>>

Unref ==
    /\ refd' = FALSE
    /\ UNCHANGED <<status, queue, threadCount, asyncPending, idleActive, handles,
                   loop, pc, clientVars, ghosts>>

AsyncCallback ==
    /\ loop = "poll"
    /\ handles = "open"
    /\ asyncPending
    /\ asyncPending' = FALSE
    /\ idleActive' = TRUE
    /\ UNCHANGED <<status, queue, threadCount, handles, refd, loop, pc,
                   clientVars, ghosts>>

CloseHandles ==
    /\ status' = "CLOSED"
    /\ handles' = "closingAsync"

\* MUTANT: closes while one reference is left.
StopOrClose_early ==
    /\ idleActive' = FALSE
    /\ IF threadCount <= 1 THEN CloseHandles ELSE UNCHANGED <<status, handles>>

\* The end of ProcessAsyncHandle once nothing is queued.
StopOrClose ==
    /\ idleActive' = FALSE
    /\ IF threadCount = 0 THEN CloseHandles ELSE UNCHANGED <<status, handles>>

\* ProcessAsyncHandle up to the call of callJsCallback_.
IdleCallback ==
    /\ loop = "poll"
    /\ idleActive
    /\ \/ /\ status = "CLOSING"
          /\ idleActive' = FALSE
          /\ CloseHandles
          /\ UNCHANGED <<loop, pc, delivered>>
       \/ /\ status = "INTE"
          /\ queue = <<>>
          /\ StopOrClose
          /\ UNCHANGED <<loop, pc, delivered>>
       \/ /\ status = "INTE"
          /\ queue # <<>>
          /\ IF Len(queue) = MaxQueueSize THEN NotifyOne ELSE pc' = pc
          /\ loop' = "callback"
          /\ delivered' = Append(delivered, Head(queue))
          /\ UNCHANGED <<status, handles, idleActive>>
    /\ UNCHANGED <<queue, threadCount, asyncPending, refd, clientVars, accepted,
                   drained>>

\* MUTANT: the pop is counted twice.
CallbackReturns_stopsEarly ==
    /\ loop = "callback"
    /\ loop' = "poll"
    /\ queue' = Tail(queue)
    /\ IF Len(queue) <= 2 THEN StopOrClose ELSE UNCHANGED <<status, handles, idleActive>>
    /\ UNCHANGED <<threadCount, asyncPending, refd, pc, clientVars, ghosts>>

\* MUTANT: the whole queue is dropped after one callback.
CallbackReturns_clears ==
    /\ loop = "callback"
    /\ loop' = "poll"
    /\ queue' = <<>>
    /\ StopOrClose
    /\ UNCHANGED <<threadCount, asyncPending, refd, pc, clientVars, ghosts>>

\* The rest of ProcessAsyncHandle.
CallbackReturns ==
    /\ loop = "callback"
    /\ loop' = "poll"
    /\ queue' = Tail(queue)
    /\ IF Len(queue) = 1 THEN StopOrClose ELSE UNCHANGED <<status, handles, idleActive>>
    /\ UNCHANGED <<threadCount, asyncPending, refd, pc, clientVars, ghosts>>

AsyncHandleClosed ==
    /\ loop = "poll"
    /\ handles = "closingAsync"
    /\ handles' = "closingIdle"
    /\ UNCHANGED <<status, queue, threadCount, asyncPending, idleActive, refd,
                   loop, pc, clientVars, ghosts>>

\* CleanUp starts; it runs finalizeCallback_ and then drains, without mutex_.
IdleHandleClosed ==
    /\ loop = "poll"
    /\ handles = "closingIdle"
    /\ handles' = "closed"
    /\ loop' = "finalizing"
    /\ UNCHANGED <<status, queue, threadCount, asyncPending, idleActive, refd,
                   pc, clientVars, ghosts>>

FinalizerReturns ==
    /\ loop = "finalizing"
    /\ loop' = "draining"
    /\ UNCHANGED <<status, queue, threadCount, asyncPending, idleActive, handles,
                   refd, pc, clientVars, ghosts>>

\* MUTANT: drains one datum only.
Drain_onlyOne ==
    /\ loop = "draining"
    /\ loop' = "poll"
    /\ IF queue # <<>>
         THEN drained' = Append(drained, Head(queue)) /\ queue' = Tail(queue)
         ELSE UNCHANGED <<drained, queue>>
    /\ UNCHANGED <<status, threadCount, asyncPending, idleActive, handles, refd,
                   pc, clientVars, accepted, delivered>>
Drain ==
    /\ loop = "draining"
    /\ \/ /\ queue # <<>>
          /\ drained' = Append(drained, Head(queue))
          /\ queue' = Tail(queue)
          /\ UNCHANGED loop
       \/ /\ queue = <<>>
          /\ loop' = "poll"
          /\ UNCHANGED <<queue, drained>>
    /\ UNCHANGED <<status, threadCount, asyncPending, idleActive, handles, refd,
                   pc, clientVars, accepted, delivered>>

LoopStep ==
    \/ AsyncCallback \/ IdleCallback \/ CallbackReturns
    \/ AsyncHandleClosed \/ IdleHandleClosed \/ FinalizerReturns \/ Drain

ThreadStep(t) ==
    Send(t) \/ Resume(t) \/ SpuriousWakeup(t) \/ Acquire(t) \/ Release(t)

Next == LoopStep \/ Ref \/ Unref \/ \E t \in Threads : ThreadStep(t)

Spec == Init /\ [][Next]_vars

\* The host keeps running the loop, so each kind of pending loop event is
\* served; user callbacks return; a notified thread gets the mutex in the end.
\* Nothing is assumed of what threads choose to call, nor of spurious wake-ups.
Fairness ==
    /\ WF_vars(AsyncCallback)
    /\ WF_vars(IdleCallback)
    /\ WF_vars(CallbackReturns)
    /\ WF_vars(AsyncHandleClosed)
    /\ WF_vars(IdleHandleClosed)
    /\ WF_vars(FinalizerReturns)
    /\ WF_vars(Drain)
    /\ \A t \in Threads : SF_vars(Resume(t))

FairSpec == Spec /\ Fairness
-----------------------------------------------------------------------------
(* Properties *)

\* The queue holds at most one datum more than max_queue_size: Send lets a
\* caller in while queue_.size() > maxQueueSize_ is false.
QueueBound == MaxQueueSize > 0 => Len(queue) <= MaxQueueSize + 1

\* Data on its way: the one in the callback was handed over already.
InFlight == IF loop = "callback" THEN Tail(queue) ELSE queue

\* Nothing accepted by Send is lost, repeated or reordered between queue_.push,
\* the callbacks of ProcessAsyncHandle and the drain of CleanUp.
ExactlyOnceInOrder == accepted = delivered \o drained \o InFlight

\* The loop is never asleep over work: while the function is not closed,
\* queued data, an abort and the release of the last reference all leave the
\* async handle pending or the idle handle started, although ProcessAsyncHandle
\* stops the idle handle concurrently with Send.
WorkIsSignalled ==
    ~AsyncSendMayFail =>
        ((status # "CLOSED" /\ (queue # <<>> \/ status = "CLOSING" \/ threadCount = 0))
            => asyncPending \/ idleActive)

\* A function closed by its last release, not by an abort, gave every accepted
\* datum to JavaScript: ProcessAsyncHandle closes only on an empty queue.
GracefulCloseDeliversAll ==
    (status = "CLOSED" /\ ~aborted) =>
        queue = <<>> /\ drained = <<>> /\ delivered = accepted

\* The function is not closed under a thread that still owns a reference,
\* unless it was aborted (threadCount_ counts the owners).  Then it is told
\* "closing", never "invalid argument": the decrement in Send on a closing
\* function never takes another owner's share.
ReferencesKeepOpen ==
    Guests = {} =>
        /\ status = "CLOSED" /\ ~aborted => \A t \in Threads : refs[t] = 0
        /\ \A t \in Threads : result[t] # "invalid_arg"

\* The stage of the contract that status_, the handles and CleanUp stand for.
Phase ==
    CASE status = "INTE" -> "open"
      [] status = "CLOSING" -> "aborted"
      [] status = "CLOSED" ->
           IF handles = "closed" /\ loop # "finalizing" THEN "final" ELSE "closed"

\* CloseHandles comes before the finalizer, the finalizer before the drain, no
\* data is delivered in between: the code implements the contract.
Contract == INSTANCE TsfnContract WITH phase <- Phase
ContractHolds == Contract!ContractSpec

\* Every datum accepted is handed over in the end (uv_async_send working), and
\* an abort, and the release of the last reference, end in the finalizer.
LoopCompletes ==
    /\ \A i \in Items : (\E n \in DOMAIN queue : queue[n] = i)
                        ~> ~(\E n \in DOMAIN queue : queue[n] = i)
    /\ (status = "CLOSING" \/ (status = "INTE" /\ threadCount = 0 /\ Guests = {}))
        ~> (handles = "closed" \/ (status = "INTE" /\ threadCount > 0))

\* A caller that is the only one to block has not missed its notification: while
\* it waits the function is not closing (an abort wakes it), and the queue has yet
\* to pass through max_queue_size on its way down, which is when ProcessAsyncHandle
\* notifies.  Once notified it competes for mutex_ like everyone: a sender that
\* does not block and refills the queue first makes it wait again, each time.
NoNotificationMissed ==
    \A t \in Threads :
        Blockers = {t} /\ pc[t] = "waiting" =>
            /\ ~Closing
            /\ \/ Len(queue) > MaxQueueSize
               \/ Len(queue) = MaxQueueSize /\ loop = "poll"

\* "when queue is full, notify send" (native_safe_async_work.cpp:282): a caller
\* that waits for room stops waiting, when there is some or when the function is
\* aborted meanwhile (a finalizer may wait for the data source threads).
BlockedSenderResumes == \A t \in Threads : pc[t] = "waiting" ~> pc[t] # "waiting"
=============================================================================
