---------------------- MODULE ThreadSafeFunction_proofs ----------------------
(***************************************************************************)
(* Proofs about ThreadSafeFunction, for every set of threads, every queue   *)
(* limit and whether or not uv_async_send can fail.                         *)
(***************************************************************************)
EXTENDS ThreadSafeFunction, SequenceLemmas, FiniteSetTheorems

\* A thread that waits inside Send has made a call: the datum it will queue has
\* a name.
WaitersCalled == \A t \in Threads : pc[t] # "out" => calls[t] >= 1

\* mutex_ protects the datum in the callback: the queue keeps it meanwhile.
CallbackHasDatum == loop = "callback" => queue # <<>> /\ status = "INTE"

\* TypeOK is not inductive without the other two.
TypeInv == TypeOK /\ WaitersCalled /\ CallbackHasDatum

\* notify_one changes the state of one waiting thread to a woken one, of no other.
LEMMA NotifyType ==
    ASSUME TypeInv, NotifyOne
    PROVE  /\ pc' \in [Threads -> {"out", "waiting", "woken"}]
           /\ \A t \in Threads : pc'[t] # "out" => pc[t] # "out"
  BY DEF TypeInv, TypeOK, NotifyOne, Waiting

\* What Send does after its wait keeps the types, for a thread that has a call to
\* its name.
LEMMA SendFinishType ==
    ASSUME TypeInv, NEW t \in Threads, SendFinish(t),
           MutexFree,
           calls' \in [Threads -> 0 .. MaxCalls],
           calls'[t] >= 1,
           \A u \in Threads \ {t} : calls'[u] = calls[u]
    PROVE  TypeInv'
  <1> USE BoundsAssumption DEF TypeInv, TypeOK, WaitersCalled, CallbackHasDatum,
          MutexFree, SendFinish, Return, GiveUpRef
  <1>1. CASE SendRefused(t)
    <2>1. refs' \in [Threads -> Nat] /\ threadCount' \in Nat
      BY <1>1 DEF SendRefused
    <2>2. /\ pc' = [pc EXCEPT ![t] = "out"]
          /\ result' \in [Threads -> NapiStatuses]
          /\ UNCHANGED <<queue, accepted, asyncPending>>
      BY <1>1 DEF SendRefused, NapiStatuses
    <2> QED  BY <2>1, <2>2
  <1>2. CASE SendPush(t)
    <2>1. <<t, calls'[t]>> \in Items
      BY DEF Items
    <2>2. queue' \in Seq(Items) /\ accepted' \in Seq(Items)
      BY <1>2, <2>1, AppendProperties DEF SendPush
    <2> QED  BY <1>2, <2>2 DEF SendPush, AsyncSend, NapiStatuses
  <1> QED  BY <1>1, <1>2

\* Entering an API function counts one call of that thread and none of others.
LEMMA EnterType ==
    ASSUME TypeInv, NEW t \in Threads, Enter(t)
    PROVE  /\ calls' \in [Threads -> 0 .. MaxCalls]
           /\ calls'[t] >= 1
           /\ \A u \in Threads \ {t} : calls'[u] = calls[u]
           /\ \A u \in Threads : calls'[u] >= calls[u]
  BY BoundsAssumption DEF TypeInv, TypeOK, Enter

\* The rest of a non-empty queue is a queue.
LEMMA QueueTailType ==
    ASSUME TypeInv, queue # <<>>
    PROVE  /\ Tail(queue) \in Seq(Items)
           /\ Append(delivered, Head(queue)) \in Seq(Items)
           /\ Append(drained, Head(queue)) \in Seq(Items)
  <1>1. Head(queue) \in Items /\ Tail(queue) \in Seq(Items)
    BY HeadTailProperties DEF TypeInv, TypeOK
  <1> QED  BY <1>1, AppendProperties DEF TypeInv, TypeOK

\* Every step of a native thread keeps the type invariant.
LEMMA ThreadStepType ==
    ASSUME TypeInv, NEW t \in Threads, ThreadStep(t)
    PROVE  TypeInv'
  <1>1. CASE Send(t)
    <2>1. /\ calls' \in [Threads -> 0 .. MaxCalls]
          /\ calls'[t] >= 1
          /\ \A u \in Threads \ {t} : calls'[u] = calls[u]
          /\ MutexFree
      BY <1>1, EnterType DEF Send, Enter
    <2>2. CASE SendFinish(t)
      BY <2>1, <2>2, SendFinishType
    <2>3. CASE ~SendFinish(t)
      BY <1>1, <2>1, <2>3 DEF Send, TypeInv, TypeOK, WaitersCalled, CallbackHasDatum, MutexFree, Return, uvVars,
                             ghosts, NapiStatuses
    <2> QED  BY <2>2, <2>3
  <1>2. CASE Resume(t)
    <2>1. /\ calls' = calls
          /\ calls[t] >= 1
          /\ MutexFree
      BY <1>2 DEF Resume, TypeInv, WaitersCalled
    <2>2. CASE SendFinish(t)
      BY <2>1, <2>2, SendFinishType DEF TypeInv, TypeOK
    <2>3. CASE ~SendFinish(t)
      BY <1>2, <2>1, <2>3 DEF Resume, TypeInv, TypeOK, WaitersCalled, CallbackHasDatum,
                             MutexFree, uvVars, ghosts
    <2> QED  BY <2>2, <2>3
  <1>3. CASE SpuriousWakeup(t)
    BY <1>3 DEF SpuriousWakeup, TypeInv, TypeOK, WaitersCalled, CallbackHasDatum,
                             MutexFree, uvVars, ghosts
  <1>4. CASE Acquire(t)
    <2>1. /\ calls' \in [Threads -> 0 .. MaxCalls]
          /\ \A u \in Threads : calls'[u] >= calls[u]
          /\ MutexFree
      BY <1>4, EnterType DEF Acquire, Enter
    <2>2. /\ refs' \in [Threads -> Nat]
          /\ threadCount' \in Nat
      <3>1. CASE UNCHANGED <<threadCount, refs>>
        BY <3>1 DEF TypeInv, TypeOK
      <3>2. CASE /\ threadCount' = threadCount + 1
                 /\ refs' = [refs EXCEPT ![t] = @ + 1]
        BY <3>2 DEF TypeInv, TypeOK
      <3> QED  BY <1>4, <3>1, <3>2 DEF Acquire
    <2>3. /\ pc' = [pc EXCEPT ![t] = "out"]
          /\ result' \in [Threads -> NapiStatuses]
      BY <1>4 DEF Acquire, Return, TypeInv, TypeOK, NapiStatuses
    <2>4. UNCHANGED <<status, queue, uvVars, aborted, ghosts>>
      BY <1>4 DEF Acquire
    <2> QED  BY <2>1, <2>2, <2>3, <2>4 DEF TypeInv, TypeOK, WaitersCalled, CallbackHasDatum,
                              MutexFree, uvVars, ghosts
  <1>5. CASE Release(t)
    <2>1. /\ calls' \in [Threads -> 0 .. MaxCalls]
          /\ \A u \in Threads : calls'[u] >= calls[u]
          /\ MutexFree
      BY <1>5, EnterType DEF Release, Enter
    <2>2. UNCHANGED <<queue, idleActive, handles, refd, loop, accepted, delivered, drained>>
      BY <1>5 DEF Release, ghosts
    <2>3. CASE ReleaseRefused(t)
      BY <2>1, <2>2, <2>3 DEF ReleaseRefused, GiveUpRef, Return, TypeInv, TypeOK,
                             WaitersCalled, CallbackHasDatum, MutexFree, NapiStatuses
    <2>4. CASE ReleaseAccepted(t)
      <3>1. refs' \in [Threads -> Nat] /\ threadCount' \in Nat
        BY <2>4 DEF ReleaseAccepted, GiveUpRef, TypeInv, TypeOK
      <3>2. /\ pc' = [pc EXCEPT ![t] = "out"]
            /\ result' \in [Threads -> NapiStatuses]
            /\ asyncPending' \in BOOLEAN
            /\ UNCHANGED <<status, aborted>>
        BY <2>4 DEF ReleaseAccepted, AsyncSend, Return, NapiStatuses, TypeInv, TypeOK
      <3> QED  BY <2>1, <2>2, <3>1, <3>2 DEF TypeInv, TypeOK, WaitersCalled, CallbackHasDatum,
                                             MutexFree
    <2>5. CASE ReleaseAbort(t)
      <3>1. refs' \in [Threads -> Nat] /\ threadCount' \in Nat
        BY <2>5 DEF ReleaseAbort, GiveUpRef, TypeInv, TypeOK
      <3>2. /\ result' \in [Threads -> NapiStatuses]
            /\ asyncPending' \in BOOLEAN
            /\ status' \in Statuses
            /\ aborted' \in BOOLEAN
        BY <2>5 DEF ReleaseAbort, NapiStatuses, Statuses, TypeInv, TypeOK
      <3>3. /\ pc' \in [Threads -> {"out", "waiting", "woken"}]
            /\ \A u \in Threads : pc'[u] # "out" => pc[u] # "out"
        BY <2>5, NotifyType DEF ReleaseAbort, TypeInv, TypeOK
      <3> QED  BY <2>1, <2>2, <3>1, <3>2, <3>3 DEF TypeInv, TypeOK, WaitersCalled, CallbackHasDatum,
                                             MutexFree
    <2> QED  BY <1>5, <2>3, <2>4, <2>5 DEF Release
  <1> QED  BY <1>1, <1>2, <1>3, <1>4, <1>5 DEF ThreadStep

\* Every step of the loop thread keeps the type invariant.
LEMMA LoopStepType ==
    ASSUME TypeInv, LoopStep \/ Ref \/ Unref
    PROVE  TypeInv'
  <1> USE DEF TypeInv, TypeOK, WaitersCalled, CallbackHasDatum, clientVars, ghosts
  <1>1. CASE Ref \/ Unref
    BY <1>1 DEF Ref, Unref
  <1>2. CASE AsyncCallback
    BY <1>2 DEF AsyncCallback
  <1>3. CASE IdleCallback
    <2>1. /\ pc' \in [Threads -> {"out", "waiting", "woken"}]
          /\ \A t \in Threads : pc'[t] # "out" => pc[t] # "out"
      BY <1>3, NotifyType DEF IdleCallback
    <2>2. delivered' \in Seq(Items)
      BY <1>3, QueueTailType DEF IdleCallback
    <2>3. /\ status' \in Statuses
          /\ handles' \in {"open", "closingAsync", "closingIdle", "closed"}
          /\ idleActive' \in BOOLEAN
          /\ loop' \in {"poll", "callback", "finalizing", "draining"}
      BY <1>3 DEF IdleCallback, StopOrClose, CloseHandles, Statuses
    <2> QED  BY <1>3, <2>1, <2>2, <2>3 DEF IdleCallback
  <1>4. CASE CallbackReturns
    <2>1. queue' \in Seq(Items)
      BY <1>4, QueueTailType DEF CallbackReturns
    <2> QED  BY <1>4, <2>1 DEF CallbackReturns, StopOrClose, CloseHandles, Statuses
  <1>5. CASE AsyncHandleClosed \/ IdleHandleClosed \/ FinalizerReturns
    BY <1>5 DEF AsyncHandleClosed, IdleHandleClosed, FinalizerReturns
  <1>6. CASE Drain
    <2>1. queue' \in Seq(Items) /\ drained' \in Seq(Items)
      BY <1>6, QueueTailType DEF Drain
    <2> QED  BY <1>6, <2>1 DEF Drain
  <1> QED  BY <1>1, <1>2, <1>3, <1>4, <1>5, <1>6 DEF LoopStep

\* The initial states have the types.
THEOREM InitType == Init => TypeInv
  <1> SUFFICES ASSUME Init PROVE TypeInv
    OBVIOUS
  <1>1. threadCount \in Nat
    BY ThreadsAssumption, FS_CardinalityType DEF Init
  <1>2. <<>> \in Seq(Items)
    BY EmptySeq
  <1>3. calls \in [Threads -> 0 .. MaxCalls] /\ refs \in [Threads -> Nat]
    BY BoundsAssumption DEF Init
  <1> QED  BY <1>1, <1>2, <1>3 DEF Init, TypeInv, TypeOK, WaitersCalled,
                                  CallbackHasDatum, Statuses, NapiStatuses

\* The type invariant is inductive.
THEOREM NextType == TypeInv /\ [Next]_vars => TypeInv'
  <1> SUFFICES ASSUME TypeInv, [Next]_vars
               PROVE  TypeInv'
    OBVIOUS
  <1>1. CASE UNCHANGED vars
    BY <1>1 DEF vars, TypeInv, TypeOK, WaitersCalled, CallbackHasDatum
  <1>2. CASE Next
    BY <1>2, ThreadStepType, LoopStepType DEF Next
  <1> QED  BY <1>1, <1>2

\* Every variable has its type in every reachable state, whatever the threads do.
THEOREM TypeCorrect == Spec => []TypeOK
  <1>1. Spec => []TypeInv
    BY InitType, NextType, PTL DEF Spec
  <1>2. TypeInv => TypeOK
    BY DEF TypeInv
  <1> QED  BY <1>1, <1>2, PTL
-----------------------------------------------------------------------------
(***************************************************************************)
(* The safety invariant.  The properties of the component are not inductive: *)
(* CloseOrder ties status_, the libuv handles and what the loop thread does, *)
(* so that nothing is queued, delivered or drained at the wrong stage.      *)
(***************************************************************************)
CloseOrder ==
    /\ handles = "open" <=> status # "CLOSED"
    /\ loop \in {"finalizing", "draining"} => handles = "closed"
    /\ drained # <<>> => handles = "closed" /\ loop # "finalizing"
    /\ status = "INTE" => ~aborted
    /\ status = "CLOSING" => aborted
    /\ (status = "CLOSED" /\ ~aborted) => queue = <<>> /\ drained = <<>>

SafeInv == QueueBound /\ ExactlyOnceInOrder /\ WorkIsSignalled /\ CloseOrder

\* queue_.push keeps the order of acceptance.
LEMMA PushOrder ==
    ASSUME TypeInv, ExactlyOnceInOrder, NEW i \in Items, MutexFree, loop' = loop,
           queue' = Append(queue, i), accepted' = Append(accepted, i),
           UNCHANGED <<delivered, drained>>
    PROVE  ExactlyOnceInOrder'
  <1>1. accepted = (delivered \o drained) \o queue
    BY DEF ExactlyOnceInOrder, InFlight, MutexFree
  <1>2. accepted' = (delivered' \o drained') \o InFlight'
    <2>1. delivered \o drained \in Seq(Items) /\ queue \in Seq(Items)
      BY ConcatProperties DEF TypeInv, TypeOK
    <2>2. InFlight' = Append(queue, i)
      BY DEF InFlight, MutexFree
    <2>3. \A p \in Seq(Items) : p \o Append(queue, i) = Append(p \o queue, i)
      BY <2>1, PushConcat
    <2>4. (delivered \o drained) \o Append(queue, i)
             = Append((delivered \o drained) \o queue, i)
      BY <2>1, <2>3, Zenon
    <2>5. delivered' \o drained' = delivered \o drained
      OBVIOUS
    <2> QED  BY <1>1, <2>2, <2>4, <2>5
  <1> QED  BY <1>2 DEF ExactlyOnceInOrder

\* What Send does after its wait keeps the safety invariant, whether the datum is
\* pushed or the caller is refused.
LEMMA SendFinishSafe ==
    ASSUME TypeInv, SafeInv, NEW t \in Threads, SendFinish(t), MutexFree, ~IsMaxQueueSize,
           calls' \in [Threads -> 0 .. MaxCalls], calls'[t] >= 1
    PROVE  SafeInv'
  <1> USE DEF SendFinish
  <1>1. CASE SendRefused(t)
    <2>1. /\ UNCHANGED <<status, queue, idleActive, handles, loop, aborted, accepted,
                        delivered, drained, asyncPending>>
          /\ status \in {"CLOSING", "CLOSED"}
      BY <1>1 DEF SendRefused, Closing
    <2> QED  BY <2>1 DEF SafeInv, QueueBound, ExactlyOnceInOrder, InFlight,
                         WorkIsSignalled, CloseOrder
  <1>2. CASE SendPush(t)
    <2>1. /\ UNCHANGED <<status, idleActive, handles, loop, aborted, delivered, drained,
                        threadCount>>
          /\ queue' = Append(queue, <<t, calls'[t]>>)
          /\ accepted' = Append(accepted, <<t, calls'[t]>>)
          /\ ~Closing
          /\ ~AsyncSendMayFail => asyncPending' = TRUE
      BY <1>2 DEF SendPush, AsyncSend
    <2>2. <<t, calls'[t]>> \in Items
      BY BoundsAssumption DEF Items
    <2>3. status = "INTE"
      BY <2>1 DEF Closing, TypeInv, TypeOK, Statuses
    <2>4. QueueBound'
      <3>1. Len(queue') = Len(queue) + 1 /\ Len(queue) \in Nat
        BY <2>1, <2>2, AppendProperties, LenProperties DEF TypeInv, TypeOK
      <3>2. MaxQueueSize > 0 => ~(Len(queue) > MaxQueueSize)
        BY <2>1 DEF IsMaxQueueSize
      <3> QED  BY <3>1, <3>2, BoundsAssumption DEF QueueBound
    <2>5. ExactlyOnceInOrder'
      BY <2>1, <2>2, PushOrder DEF SafeInv
    <2>6. WorkIsSignalled'
      BY <2>1 DEF WorkIsSignalled
    <2>7. CloseOrder'
      BY <2>1, <2>3 DEF SafeInv, CloseOrder
    <2> QED  BY <2>4, <2>5, <2>6, <2>7 DEF SafeInv
  <1> QED  BY <1>1, <1>2

\* Every step of a native thread keeps the safety invariant.
LEMMA ThreadStepSafe ==
    ASSUME TypeInv, SafeInv, NEW t \in Threads, ThreadStep(t)
    PROVE  SafeInv'
  <1>1. CASE Send(t)
    <2>1. /\ calls' \in [Threads -> 0 .. MaxCalls] /\ calls'[t] >= 1 /\ MutexFree
      BY <1>1, EnterType DEF Send, Enter
    <2>2. CASE ~IsMaxQueueSize
      BY <1>1, <2>1, <2>2, SendFinishSafe DEF Send
    <2>3. CASE IsMaxQueueSize
      <3>1. UNCHANGED <<status, queue, threadCount, asyncPending, idleActive, handles, loop,
                        aborted, accepted, delivered, drained>>
        BY <1>1, <2>3 DEF Send, uvVars, ghosts
      <3> QED  BY <3>1 DEF SafeInv, QueueBound, ExactlyOnceInOrder, InFlight,
                           WorkIsSignalled, CloseOrder
    <2> QED  BY <2>2, <2>3
  <1>2. CASE Resume(t)
    <2>1. /\ calls' \in [Threads -> 0 .. MaxCalls] /\ calls'[t] >= 1 /\ MutexFree
      BY <1>2 DEF Resume, TypeInv, TypeOK, WaitersCalled
    <2>2. CASE ~IsMaxQueueSize
      BY <1>2, <2>1, <2>2, SendFinishSafe DEF Resume
    <2>3. CASE IsMaxQueueSize
      <3>1. UNCHANGED <<status, queue, threadCount, asyncPending, idleActive, handles, loop,
                        aborted, accepted, delivered, drained>>
        BY <1>2, <2>3 DEF Resume, uvVars, ghosts
      <3> QED  BY <3>1 DEF SafeInv, QueueBound, ExactlyOnceInOrder, InFlight,
                           WorkIsSignalled, CloseOrder
    <2> QED  BY <2>2, <2>3
  <1>3. CASE SpuriousWakeup(t)
    BY <1>3 DEF SpuriousWakeup, uvVars, ghosts, SafeInv, QueueBound, ExactlyOnceInOrder,
                InFlight, WorkIsSignalled, CloseOrder
  <1>4. CASE Acquire(t)
    <2>1. /\ UNCHANGED <<status, queue, asyncPending, idleActive, handles, loop, aborted,
                        accepted, delivered, drained>>
          /\ threadCount' = 0 => threadCount = 0
      BY <1>4 DEF Acquire, uvVars, ghosts, TypeInv, TypeOK
    <2> QED  BY <2>1 DEF SafeInv, QueueBound, ExactlyOnceInOrder, InFlight,
                         WorkIsSignalled, CloseOrder
  <1>5. CASE Release(t)
    <2>1. /\ UNCHANGED <<queue, idleActive, handles, loop, accepted, delivered, drained>>
      BY <1>5 DEF Release, ghosts
    <2>2. QueueBound' /\ ExactlyOnceInOrder'
      BY <2>1 DEF SafeInv, QueueBound, ExactlyOnceInOrder, InFlight
    <2>3. CASE ReleaseRefused(t)
      BY <2>1, <2>2, <2>3 DEF ReleaseRefused, SafeInv, WorkIsSignalled, CloseOrder
    <2>4. CASE ReleaseAccepted(t)
      <3>1. /\ UNCHANGED <<status, aborted>>
            /\ threadCount' = threadCount - 1
            /\ threadCount > 0
            /\ IF threadCount' = 0 THEN ~AsyncSendMayFail => asyncPending' = TRUE
                                   ELSE asyncPending' = asyncPending
        BY <2>4 DEF ReleaseAccepted, AsyncSend
      <3>2. WorkIsSignalled'
        BY <2>1, <3>1 DEF SafeInv, WorkIsSignalled
      <3> QED  BY <2>1, <2>2, <3>1, <3>2 DEF SafeInv, CloseOrder
    <2>5. CASE ReleaseAbort(t)
      <3>1. /\ ~Closing
            /\ status' = "CLOSING"
            /\ aborted' = TRUE
            /\ ~AsyncSendMayFail => asyncPending' = TRUE
        BY <2>5 DEF ReleaseAbort
      <3>2. status # "CLOSED"
        BY <3>1 DEF Closing
      <3> QED  BY <2>1, <2>2, <3>1, <3>2 DEF SafeInv, CloseOrder, WorkIsSignalled
    <2> QED  BY <1>5, <2>3, <2>4, <2>5 DEF Release
  <1> QED  BY <1>1, <1>2, <1>3, <1>4, <1>5 DEF ThreadStep

\* Handing the front of the queue to JavaScript keeps the order of acceptance.
LEMMA DeliverOrder ==
    ASSUME TypeInv, SafeInv, loop = "poll", status = "INTE", queue # <<>>,
           loop' = "callback", delivered' = Append(delivered, Head(queue)),
           UNCHANGED <<queue, accepted, drained>>
    PROVE  ExactlyOnceInOrder'
  <1>1. drained = <<>>
    BY DEF SafeInv, CloseOrder
  <1>2. /\ delivered \in Seq(Items) /\ queue \in Seq(Items)
        /\ Append(delivered, Head(queue)) \in Seq(Items)
    BY QueueTailType DEF TypeInv, TypeOK
  <1>3. accepted = (delivered \o drained) \o queue
    BY DEF SafeInv, ExactlyOnceInOrder, InFlight
  <1>4. accepted = delivered \o queue
    BY <1>1, <1>2, <1>3, ConcatEmptySeq
  <1>5. accepted = Append(delivered, Head(queue)) \o Tail(queue)
    BY <1>2, <1>4, HeadMoves
  <1>6. delivered' \o drained' = Append(delivered, Head(queue))
    BY <1>1, <1>2, ConcatEmptySeq
  <1>7. InFlight' = Tail(queue)
    BY DEF InFlight
  <1> QED  BY <1>5, <1>6, <1>7 DEF ExactlyOnceInOrder

\* Handing the front of the queue to the clean up keeps the order of acceptance.
LEMMA DrainOrder ==
    ASSUME TypeInv, SafeInv, loop = "draining", queue # <<>>, loop' = loop,
           drained' = Append(drained, Head(queue)), queue' = Tail(queue),
           UNCHANGED <<accepted, delivered>>
    PROVE  ExactlyOnceInOrder'
  <1>1. /\ delivered \in Seq(Items) /\ drained \in Seq(Items) /\ queue \in Seq(Items)
        /\ delivered \o drained \in Seq(Items)
        /\ Head(queue) \in Items
    BY ConcatProperties, HeadTailProperties DEF TypeInv, TypeOK
  <1>2. accepted = (delivered \o drained) \o queue
    BY DEF SafeInv, ExactlyOnceInOrder, InFlight
  <1>3. accepted = Append(delivered \o drained, Head(queue)) \o Tail(queue)
    BY <1>1, <1>2, HeadMoves
  <1>4. delivered' \o drained' = Append(delivered \o drained, Head(queue))
    BY <1>1, PushConcat
  <1>5. InFlight' = Tail(queue)
    BY DEF InFlight
  <1> QED  BY <1>2, <1>3, <1>4, <1>5 DEF ExactlyOnceInOrder

\* Popping shortens the queue by one; one datum is left before it empties.
LEMMA TailLength ==
    ASSUME TypeInv, queue # <<>>
    PROVE  /\ Len(Tail(queue)) = Len(queue) - 1
           /\ Len(queue) \in Nat \ {0}
           /\ Len(queue) = 1 <=> Tail(queue) = <<>>
  <1>1. /\ Tail(queue) \in Seq(Items)
        /\ Len(Tail(queue)) = Len(queue) - 1
    BY HeadTailProperties DEF TypeInv, TypeOK
  <1>2. Len(queue) \in Nat \ {0}
    BY EmptySeq DEF TypeInv, TypeOK
  <1>3. Tail(queue) # <<>> => Len(Tail(queue)) \in Nat \ {0}
    BY <1>1, EmptySeq
  <1>4. Tail(queue) = <<>> => Len(Tail(queue)) = 0
    BY EmptySeq
  <1> QED  BY <1>1, <1>2, <1>3, <1>4

\* Every step of the loop thread keeps the safety invariant.
LEMMA LoopStepSafe ==
    ASSUME TypeInv, SafeInv, LoopStep \/ Ref \/ Unref
    PROVE  SafeInv'
  <1> USE DEF SafeInv
  <1>1. CASE Ref \/ Unref
    <2>1. UNCHANGED <<status, queue, threadCount, asyncPending, idleActive, handles, loop,
                      aborted, accepted, delivered, drained>>
      BY <1>1 DEF Ref, Unref, clientVars, ghosts
    <2> QED  BY <2>1 DEF QueueBound, ExactlyOnceInOrder, InFlight, WorkIsSignalled, CloseOrder
  <1>2. CASE AsyncCallback
    BY <1>2 DEF AsyncCallback, clientVars, ghosts, QueueBound, ExactlyOnceInOrder,
                InFlight, WorkIsSignalled, CloseOrder
  <1>3. CASE IdleCallback
    <2>1. /\ UNCHANGED <<queue, threadCount, asyncPending, accepted, drained, aborted>>
          /\ loop = "poll" /\ idleActive
      BY <1>3 DEF IdleCallback, clientVars
    <2>2. QueueBound'
      BY <2>1 DEF QueueBound
    <2>3. CASE status = "CLOSING"
      <3>1. status' = "CLOSED" /\ handles' = "closingAsync" /\ UNCHANGED <<loop, delivered>>
        BY <1>3, <2>3 DEF IdleCallback, CloseHandles
      <3> QED  BY <2>1, <2>2, <2>3, <3>1 DEF ExactlyOnceInOrder, InFlight, WorkIsSignalled,
                                            CloseOrder
    <2>4. CASE status = "INTE" /\ queue = <<>>
      <3>1. /\ UNCHANGED <<loop, delivered>>
            /\ IF threadCount = 0 THEN status' = "CLOSED" /\ handles' = "closingAsync"
                                  ELSE UNCHANGED <<status, handles>>
        BY <1>3, <2>4 DEF IdleCallback, StopOrClose, CloseHandles
      <3> QED  BY <2>1, <2>2, <2>4, <3>1 DEF ExactlyOnceInOrder, InFlight, WorkIsSignalled,
                                            CloseOrder
    <2>5. CASE status = "INTE" /\ queue # <<>>
      <3>1. /\ loop' = "callback"
            /\ delivered' = Append(delivered, Head(queue))
            /\ UNCHANGED <<status, handles, idleActive>>
        BY <1>3, <2>5 DEF IdleCallback
      <3>2. ExactlyOnceInOrder'
        BY <2>1, <2>5, <3>1, DeliverOrder
      <3> QED  BY <2>1, <2>2, <2>5, <3>1, <3>2 DEF WorkIsSignalled, CloseOrder
    <2> QED  BY <1>3, <2>3, <2>4, <2>5 DEF IdleCallback
  <1>4. CASE CallbackReturns
    <2>1. /\ UNCHANGED <<threadCount, asyncPending, accepted, delivered, drained, aborted>>
          /\ loop = "callback" /\ loop' = "poll"
          /\ queue' = Tail(queue)
          /\ queue # <<>> /\ status = "INTE"
      BY <1>4 DEF CallbackReturns, clientVars, ghosts, TypeInv, CallbackHasDatum
    <2>2. QueueBound'
      BY <2>1, TailLength, BoundsAssumption DEF QueueBound
    <2>3. ExactlyOnceInOrder'
      BY <2>1 DEF ExactlyOnceInOrder, InFlight
    <2>4. CASE queue' = <<>>
      <3>1. IF threadCount = 0 THEN status' = "CLOSED" /\ handles' = "closingAsync"
                               ELSE UNCHANGED <<status, handles>>
        BY <1>4, <2>1, <2>4, TailLength DEF CallbackReturns, StopOrClose, CloseHandles
      <3> QED  BY <2>1, <2>2, <2>3, <2>4, <3>1 DEF WorkIsSignalled, CloseOrder
    <2>5. CASE queue' # <<>>
      <3>1. UNCHANGED <<status, handles, idleActive>>
        BY <1>4, <2>1, <2>5, TailLength DEF CallbackReturns
      <3> QED  BY <2>1, <2>2, <2>3, <3>1 DEF WorkIsSignalled, CloseOrder
    <2> QED  BY <2>4, <2>5
  <1>5. CASE AsyncHandleClosed \/ IdleHandleClosed \/ FinalizerReturns
    BY <1>5 DEF AsyncHandleClosed, IdleHandleClosed, FinalizerReturns, clientVars, ghosts,
                QueueBound, ExactlyOnceInOrder, InFlight, WorkIsSignalled, CloseOrder
  <1>6. CASE Drain
    <2>1. UNCHANGED <<status, threadCount, asyncPending, idleActive, handles, accepted,
                      delivered, aborted>>
      BY <1>6 DEF Drain, clientVars
    <2>2. loop = "draining" /\ handles = "closed" /\ status = "CLOSED"
      BY <1>6 DEF Drain, CloseOrder, TypeInv, TypeOK, Statuses
    <2>3. CASE queue = <<>>
      BY <1>6, <2>1, <2>2, <2>3 DEF Drain, QueueBound, ExactlyOnceInOrder, InFlight,
                                   WorkIsSignalled, CloseOrder
    <2>4. CASE queue # <<>>
      <3>1. /\ drained' = Append(drained, Head(queue))
            /\ queue' = Tail(queue)
            /\ loop' = loop
        BY <1>6, <2>4 DEF Drain
      <3>2. QueueBound'
        BY <2>4, <3>1, TailLength, BoundsAssumption DEF QueueBound
      <3>3. ExactlyOnceInOrder'
        BY <2>1, <2>2, <2>4, <3>1, DrainOrder
      <3> QED  BY <2>1, <2>2, <2>4, <3>1, <3>2, <3>3 DEF WorkIsSignalled, CloseOrder
    <2> QED  BY <2>3, <2>4
  <1> QED  BY <1>1, <1>2, <1>3, <1>4, <1>5, <1>6 DEF LoopStep

\* The initial states are safe.
THEOREM InitSafe == Init => SafeInv
  <1> SUFFICES ASSUME Init PROVE SafeInv
    OBVIOUS
  <1>1. Len(<<>>) = 0 /\ (<<>> \o <<>>) \o <<>> = <<>>
    BY EmptySeq, ConcatEmptySeq
  <1>2. threadCount # 0
    BY ThreadsAssumption DEF Init
  <1> QED  BY <1>1, <1>2, BoundsAssumption DEF Init, SafeInv, QueueBound, ExactlyOnceInOrder,
                                             InFlight, WorkIsSignalled, CloseOrder

\* The safety invariant is inductive, given the types.
THEOREM NextSafe == TypeInv /\ SafeInv /\ [Next]_vars => SafeInv'
  <1> SUFFICES ASSUME TypeInv, SafeInv, [Next]_vars
               PROVE  SafeInv'
    OBVIOUS
  <1>1. CASE UNCHANGED vars
    BY <1>1 DEF vars, SafeInv, QueueBound, ExactlyOnceInOrder, InFlight, WorkIsSignalled,
                CloseOrder
  <1>2. CASE Next
    BY <1>2, ThreadStepSafe, LoopStepSafe DEF Next
  <1> QED  BY <1>1, <1>2

\* The invariant behind all safety theorems.
THEOREM Invariance == Spec => [](TypeInv /\ SafeInv)
  BY InitType, NextType, InitSafe, NextSafe, PTL DEF Spec

\* However many threads push at once, queue_ never holds more than
\* max_queue_size + 1 data.
THEOREM QueueBounded == Spec => []QueueBound
  BY Invariance, PTL DEF SafeInv

\* Send, ProcessAsyncHandle and CleanUp together neither lose, repeat nor
\* reorder an accepted datum.
THEOREM DataConserved == Spec => []ExactlyOnceInOrder
  BY Invariance, PTL DEF SafeInv

\* No interleaving of Send, Release and the loop's callbacks puts the loop to
\* sleep over work, as long as uv_async_send works.
THEOREM NeverAsleepOverWork == Spec => []WorkIsSignalled
  BY Invariance, PTL DEF SafeInv

\* A function that is closed without an abort has given everything to JavaScript.
THEOREM GracefulCloseTheorem == Spec => []GracefulCloseDeliversAll
  <1>1. TypeInv /\ SafeInv => GracefulCloseDeliversAll
    <2> SUFFICES ASSUME TypeInv, SafeInv, status = "CLOSED", ~aborted
                 PROVE  queue = <<>> /\ drained = <<>> /\ delivered = accepted
      BY DEF GracefulCloseDeliversAll
    <2>1. queue = <<>> /\ drained = <<>> /\ InFlight = queue
      BY DEF SafeInv, CloseOrder, InFlight, TypeInv, CallbackHasDatum
    <2>2. delivered \in Seq(Items)
      BY DEF TypeInv, TypeOK
    <2>3. accepted = (delivered \o <<>>) \o <<>>
      BY <2>1 DEF SafeInv, ExactlyOnceInOrder
    <2>4. delivered \o <<>> = delivered
      BY <2>2, ConcatEmptySeq
    <2> QED  BY <2>1, <2>3, <2>4
  <1> QED  BY <1>1, Invariance, PTL
-----------------------------------------------------------------------------
(* The refinement: every step of the code is a step of the contract or none. *)

\* The contract's next datum is the first one in flight.
LEMMA HandedOver ==
    ASSUME TypeInv, SafeInv
    PROVE  /\ InFlight \in Seq(Items)
           /\ InFlight = <<>> => Contract!Handed = Len(accepted)
           /\ InFlight # <<>> => /\ Contract!Handed < Len(accepted)
                                /\ accepted[Contract!Handed + 1] = Head(InFlight)
  <1>1. InFlight \in Seq(Items)
    BY QueueTailType DEF InFlight, TypeInv, TypeOK, CallbackHasDatum
  <1>2. /\ delivered \o drained \in Seq(Items)
        /\ Len(delivered \o drained) = Contract!Handed
    BY ConcatProperties DEF TypeInv, TypeOK, Contract!Handed
  <1>3. accepted = (delivered \o drained) \o InFlight
    BY DEF SafeInv, ExactlyOnceInOrder
  <1>4. CASE InFlight = <<>>
    <2>1. accepted = delivered \o drained
      BY <1>2, <1>3, <1>4, ConcatEmptySeq
    <2> QED  BY <1>1, <1>2, <1>4, <2>1
  <1>5. CASE InFlight # <<>>
    <2> DEFINE p == delivered \o drained
    <2>1. p \in Seq(Items) /\ Len(p) = Contract!Handed /\ accepted = p \o InFlight
      BY <1>2, <1>3
    <2> HIDE DEF p
    <2>2. /\ (p \o InFlight)[Len(p) + 1] = Head(InFlight)
          /\ Len(p) < Len(p \o InFlight)
      BY <1>1, <1>5, <2>1, HeadMoves
    <2> QED  BY <1>1, <1>5, <2>1, <2>2
  <1> QED  BY <1>4, <1>5

\* Most steps leave everything the contract speaks of alone.
LEMMA ContractStutter ==
    ASSUME UNCHANGED <<status, handles, loop, accepted, delivered, drained>>
    PROVE  UNCHANGED Contract!contractVars
  BY DEF Contract!contractVars, Phase

\* What Send does after its wait is an Accept of the contract, or invisible to it.
LEMMA SendFinishRefines ==
    ASSUME TypeInv, NEW t \in Threads, SendFinish(t), calls' \in [Threads -> 0 .. MaxCalls],
           calls'[t] >= 1
    PROVE  [Contract!ContractNext]_(Contract!contractVars)
  <1>1. CASE SendRefused(t)
    BY <1>1, ContractStutter DEF SendFinish, SendRefused
  <1>2. CASE SendPush(t)
    <2>1. <<t, calls'[t]>> \in Items
      BY BoundsAssumption DEF Items
    <2>2. status = "INTE"
      BY <1>2 DEF SendPush, Closing, TypeInv, TypeOK, Statuses
    <2>3. Contract!Accept
      BY <1>2, <2>1, <2>2 DEF SendFinish, SendPush, Contract!Accept, Phase
    <2> QED  BY <2>3 DEF Contract!ContractNext
  <1> QED  BY <1>1, <1>2 DEF SendFinish

\* Every step of a native thread is a step of the contract or invisible to it.
LEMMA ThreadStepRefines ==
    ASSUME TypeInv, SafeInv, NEW t \in Threads, ThreadStep(t)
    PROVE  [Contract!ContractNext]_(Contract!contractVars)
  <1>1. CASE Send(t)
    <2>1. calls' \in [Threads -> 0 .. MaxCalls] /\ calls'[t] >= 1
      BY <1>1, EnterType DEF Send
    <2>2. CASE SendFinish(t)
      BY <2>1, <2>2, SendFinishRefines
    <2>3. CASE ~SendFinish(t)
      BY <1>1, <2>3, ContractStutter DEF Send, uvVars, ghosts
    <2> QED  BY <2>2, <2>3
  <1>2. CASE Resume(t)
    <2>1. calls' \in [Threads -> 0 .. MaxCalls] /\ calls'[t] >= 1
      BY <1>2 DEF Resume, TypeInv, TypeOK, WaitersCalled
    <2>2. CASE SendFinish(t)
      BY <2>1, <2>2, SendFinishRefines
    <2>3. CASE ~SendFinish(t)
      BY <1>2, <2>3, ContractStutter DEF Resume, uvVars, ghosts
    <2> QED  BY <2>2, <2>3
  <1>3. CASE SpuriousWakeup(t)
    BY <1>3, ContractStutter DEF SpuriousWakeup, uvVars, ghosts
  <1>4. CASE Acquire(t)
    BY <1>4, ContractStutter DEF Acquire, uvVars, ghosts
  <1>5. CASE Release(t)
    <2>1. UNCHANGED <<queue, handles, loop, accepted, delivered, drained>>
      BY <1>5 DEF Release, ghosts
    <2>2. CASE status' = status
      BY <2>1, <2>2, ContractStutter
    <2>3. CASE status' # status
      <3>1. ReleaseAbort(t)
        BY <1>5, <2>3 DEF Release, ReleaseRefused, ReleaseAccepted
      <3>2. status = "INTE" /\ status' = "CLOSING"
        BY <3>1 DEF ReleaseAbort, Closing, TypeInv, TypeOK, Statuses
      <3>3. Contract!Abort
        BY <2>1, <3>2 DEF Contract!Abort, Phase
      <3> QED  BY <3>3 DEF Contract!ContractNext
    <2> QED  BY <2>2, <2>3
  <1> QED  BY <1>1, <1>2, <1>3, <1>4, <1>5 DEF ThreadStep

\* Every step of the loop thread is a step of the contract or invisible to it.
LEMMA LoopStepRefines ==
    ASSUME TypeInv, SafeInv, LoopStep \/ Ref \/ Unref
    PROVE  [Contract!ContractNext]_(Contract!contractVars)
  <1>1. CASE Ref \/ Unref
    <2>1. UNCHANGED <<status, handles, loop, accepted, delivered, drained>>
      BY <1>1 DEF Ref, Unref, ghosts
    <2> QED  BY <2>1, ContractStutter
  <1>2. CASE AsyncCallback
    BY <1>2, ContractStutter DEF AsyncCallback, ghosts
  <1>3. CASE IdleCallback
    <2>1. UNCHANGED <<queue, accepted, drained>> /\ loop = "poll" /\ InFlight = queue
      BY <1>3 DEF IdleCallback, InFlight
    <2>2. CASE status' = "CLOSED"
      <3>1. /\ UNCHANGED <<delivered, loop>>
            /\ handles' = "closingAsync"
            /\ status = "CLOSING" \/ (status = "INTE" /\ queue = <<>>)
        BY <1>3, <2>2 DEF IdleCallback, StopOrClose, CloseHandles
      <3>2. Contract!Close
        BY <2>1, <2>2, <3>1, HandedOver DEF Contract!Close, Phase
      <3> QED  BY <3>2 DEF Contract!ContractNext
    <2>3. CASE loop' = "callback"
      <3>1. /\ status = "INTE" /\ status' = "INTE" /\ queue # <<>>
            /\ delivered' = Append(delivered, Head(queue))
        BY <1>3, <2>1, <2>3 DEF IdleCallback
      <3>2. Contract!Deliver
        BY <2>1, <3>1, HandedOver DEF Contract!Deliver, Phase
      <3> QED  BY <3>2 DEF Contract!ContractNext
    <2>4. CASE status' # "CLOSED" /\ loop' # "callback"
      <3>1. UNCHANGED <<status, handles, loop, delivered>>
        BY <1>3, <2>4 DEF IdleCallback, StopOrClose, CloseHandles
      <3> QED  BY <2>1, <3>1, ContractStutter
    <2> QED  BY <2>2, <2>3, <2>4
  <1>4. CASE CallbackReturns
    <2>1. /\ UNCHANGED <<accepted, delivered, drained>>
          /\ loop = "callback" /\ loop' = "poll"
          /\ queue # <<>> /\ status = "INTE"
          /\ InFlight = Tail(queue)
      BY <1>4 DEF CallbackReturns, ghosts, InFlight, TypeInv, CallbackHasDatum
    <2>2. CASE status' = "CLOSED"
      <3>1. handles' = "closingAsync" /\ InFlight = <<>>
        BY <1>4, <2>1, <2>2, TailLength DEF CallbackReturns, StopOrClose, CloseHandles
      <3>2. Contract!Close
        BY <2>1, <2>2, <3>1, HandedOver DEF Contract!Close, Phase
      <3> QED  BY <3>2 DEF Contract!ContractNext
    <2>3. CASE status' # "CLOSED"
      <3>1. status' = "INTE"
        BY <1>4, <2>1, <2>3 DEF CallbackReturns, StopOrClose, CloseHandles
      <3> QED  BY <2>1, <3>1 DEF Contract!contractVars, Phase
    <2> QED  BY <2>2, <2>3
  <1>5. CASE AsyncHandleClosed \/ IdleHandleClosed
    <2>1. /\ UNCHANGED <<status, accepted, delivered, drained>>
          /\ handles # "open" /\ handles # "closed"
          /\ handles' = "closed" => loop' = "finalizing"
      BY <1>5 DEF AsyncHandleClosed, IdleHandleClosed, ghosts
    <2>2. status = "CLOSED"
      BY <2>1 DEF SafeInv, CloseOrder
    <2> QED  BY <2>1, <2>2 DEF Contract!contractVars, Phase
  <1>6. CASE FinalizerReturns
    <2>1. /\ UNCHANGED <<status, handles, accepted, delivered, drained>>
          /\ loop = "finalizing" /\ loop' = "draining"
          /\ handles = "closed" /\ status = "CLOSED"
      BY <1>6 DEF FinalizerReturns, ghosts, SafeInv, CloseOrder
    <2>2. Contract!Finalize
      BY <2>1 DEF Contract!Finalize, Phase
    <2> QED  BY <2>2 DEF Contract!ContractNext
  <1>7. CASE Drain
    <2>1. /\ UNCHANGED <<status, handles, accepted, delivered>>
          /\ loop = "draining" /\ loop' # "finalizing"
          /\ handles = "closed" /\ status = "CLOSED"
          /\ InFlight = queue
      BY <1>7 DEF Drain, SafeInv, CloseOrder, InFlight
    <2>2. CASE queue = <<>>
      <3>1. drained' = drained
        BY <1>7, <2>2 DEF Drain
      <3> QED  BY <2>1, <3>1 DEF Contract!contractVars, Phase
    <2>3. CASE queue # <<>>
      <3>1. drained' = Append(drained, Head(queue))
        BY <1>7, <2>3 DEF Drain
      <3>2. Contract!CleanUp
        BY <2>1, <2>3, <3>1, HandedOver DEF Contract!CleanUp, Phase
      <3> QED  BY <3>2 DEF Contract!ContractNext
    <2> QED  BY <2>2, <2>3
  <1> QED  BY <1>1, <1>2, <1>3, <1>4, <1>5, <1>6, <1>7 DEF LoopStep

\* The initial states are the contract's.
LEMMA InitRefines == Init => Contract!ContractInit
  BY DEF Init, Contract!ContractInit, Phase

\* Every step is a step of the contract or invisible to it.
LEMMA NextRefines ==
    TypeInv /\ SafeInv /\ [Next]_vars => [Contract!ContractNext]_(Contract!contractVars)
  <1> SUFFICES ASSUME TypeInv, SafeInv, [Next]_vars
               PROVE  [Contract!ContractNext]_(Contract!contractVars)
    OBVIOUS
  <1>1. CASE UNCHANGED vars
    BY <1>1, ContractStutter DEF vars
  <1>2. CASE Next
    BY <1>2, ThreadStepRefines, LoopStepRefines DEF Next
  <1> QED  BY <1>1, <1>2

\* The code keeps the promise of TsfnContract: hand-over in order and exactly
\* once, nothing delivered after an abort, the drain after the finalizer.
THEOREM ImplementsContract == Spec => ContractHolds
  BY InitRefines, NextRefines, Invariance, PTL DEF Spec, ContractHolds, Contract!ContractSpec
-----------------------------------------------------------------------------
(* threadCount_ against the references that threads own *)

\* The references that threads own, one pair each.
Shares == {s \in Threads \X (Nat \ {0}) : s[2] <= refs[s[1]]}

\* Without guests threadCount_ counts the references until the function closes;
\* from then on a Release gives one up without the count, never the other way
\* round.  A thread inside Send still owns the reference it came with.
OwnersInv ==
    /\ IsFiniteSet(Shares)
    /\ ~Closing => threadCount = Cardinality(Shares)
    /\ Closing => Cardinality(Shares) <= threadCount
    /\ status = "CLOSED" /\ ~aborted => Shares = {}
    /\ status = "CLOSING" => aborted
    /\ \A t \in Threads : pc[t] # "out" => refs[t] > 0
    /\ \A t \in Threads : result[t] # "invalid_arg"

\* A thread takes one more reference: one more share, as long as there are
\* finitely many.
LEMMA ShareTaken ==
    ASSUME TypeInv, IsFiniteSet(Shares), NEW t \in Threads, refs' = [refs EXCEPT ![t] = @ + 1]
    PROVE  IsFiniteSet(Shares') /\ Cardinality(Shares') = Cardinality(Shares) + 1
  <1> DEFINE s == <<t, refs[t] + 1>>
  <1>1. refs \in [Threads -> Nat]
    BY DEF TypeInv, TypeOK
  <1>2. s \notin Shares
    BY <1>1 DEF Shares
  <1>3. Shares' = Shares \cup {s}
    <2>1. ASSUME NEW u \in Threads, NEW n \in Nat \ {0}
          PROVE  n <= refs'[u] <=> n <= refs[u] \/ (u = t /\ n = refs[t] + 1)
      <3>1. CASE u = t
        BY <1>1, <3>1
      <3>2. CASE u # t
        BY <1>1, <3>2
      <3> QED  BY <3>1, <3>2
    <2>2. s \in Threads \X (Nat \ {0})
      BY <1>1
    <2> QED  BY <2>1, <2>2 DEF Shares
  <1> QED  BY <1>2, <1>3, FS_AddElement

\* A thread gives up the last reference it took: one share less.
LEMMA ShareGivenUp ==
    ASSUME TypeInv, IsFiniteSet(Shares), NEW t \in Threads, refs[t] > 0, GiveUpRef(t)
    PROVE  /\ IsFiniteSet(Shares')
           /\ Cardinality(Shares) \in Nat /\ Cardinality(Shares) > 0
           /\ Cardinality(Shares') = Cardinality(Shares) - 1
  <1> DEFINE s == <<t, refs[t]>>
  <1>1. refs \in [Threads -> Nat] /\ refs' = [refs EXCEPT ![t] = @ - 1]
    BY DEF TypeInv, TypeOK, GiveUpRef
  <1>2. s \in Shares
    BY <1>1 DEF Shares
  <1>3. Shares' = Shares \ {s}
    <2>1. ASSUME NEW u \in Threads, NEW n \in Nat \ {0}
          PROVE  n <= refs'[u] <=> n <= refs[u] /\ ~(u = t /\ n = refs[t])
      <3>1. CASE u = t
        BY <1>1, <3>1
      <3>2. CASE u # t
        BY <1>1, <3>2
      <3> QED  BY <3>1, <3>2
    <2> QED  BY <2>1 DEF Shares
  <1>4. Cardinality(Shares) \in Nat /\ Cardinality(Shares) # 0
    BY <1>2, FS_CardinalityType, FS_EmptySet
  <1>5. IsFiniteSet(Shares') /\ Cardinality(Shares') = Cardinality(Shares) - 1
    BY <1>2, <1>3, FS_RemoveElement
  <1>6. Cardinality(Shares) > 0
    BY <1>4
  <1> QED  BY <1>4, <1>5, <1>6

\* A thread that owns a reference is one of those that threadCount_ counts.
LEMMA OwnerCounted ==
    ASSUME TypeInv, OwnersInv, NEW t \in Threads, refs[t] > 0
    PROVE  threadCount > 0 /\ ~(status = "CLOSED" /\ ~aborted)
  <1>1. refs[t] \in Nat /\ threadCount \in Nat
    BY DEF TypeInv, TypeOK
  <1>2. <<t, refs[t]>> \in Shares
    BY <1>1 DEF Shares
  <1>3. Cardinality(Shares) \in Nat /\ Cardinality(Shares) # 0
    BY <1>2, FS_CardinalityType, FS_EmptySet DEF OwnersInv
  <1> QED  BY <1>1, <1>2, <1>3 DEF OwnersInv

\* The holders of the initial references are counted.
LEMMA InitOwners == Init => OwnersInv
  <1> SUFFICES ASSUME Init PROVE OwnersInv
    OBVIOUS
  <1> DEFINE f == [t \in Holders |-> <<t, 1>>]
  <1>1. Shares = {<<t, 1>> : t \in Holders}
    <2>1. \A t \in Threads : refs[t] = IF t \in Holders THEN 1 ELSE 0
      BY DEF Init
    <2>2. \A t \in Threads, n \in Nat \ {0} : n <= refs[t] <=> t \in Holders /\ n = 1
      BY <2>1
    <2> QED  BY <2>2, ThreadsAssumption DEF Shares
  <1>2. f \in Bijection(Holders, Shares)
    BY <1>1 DEF Bijection, Injection, Surjection, IsInjective
  <1>3. ExistsBijection(Holders, Shares)
    BY <1>2 DEF ExistsBijection
  <1>4. IsFiniteSet(Shares) /\ Cardinality(Shares) = Cardinality(Holders)
    BY <1>3, FS_Bijection, ThreadsAssumption
  <1> QED  BY <1>4 DEF Init, OwnersInv, Closing

\* Send on a closing function takes the caller's own share.
LEMMA SendOwners ==
    ASSUME TypeInv, OwnersInv, NEW t \in Threads, SendFinish(t), refs[t] > 0
    PROVE  OwnersInv'
  <1>1. /\ TypeOK /\ threadCount \in Nat
        /\ UNCHANGED <<status, aborted>>
    BY DEF TypeInv, TypeOK, SendFinish
  <1>2. CASE SendRefused(t)
    <2>1. threadCount > 0
      BY OwnerCounted
    <2>2. /\ Closing /\ threadCount' = threadCount - 1 /\ GiveUpRef(t) /\ Return(t, "closing")
      BY <1>2, <2>1 DEF SendRefused
    <2>3. /\ IsFiniteSet(Shares')
          /\ Cardinality(Shares) \in Nat
          /\ Cardinality(Shares') = Cardinality(Shares) - 1
      BY ShareGivenUp, <2>2 DEF OwnersInv
    <2>4. status = "CLOSED" => aborted
      BY OwnerCounted
    <2>5. \A u \in Threads : pc'[u] # "out" => refs'[u] > 0 
      BY <1>1, <2>2 DEF OwnersInv, Return, GiveUpRef, TypeOK
    <2>6. \A u \in Threads : result'[u] # "invalid_arg"
      BY <1>1, <2>2 DEF OwnersInv, Return, TypeOK
    <2>7. Closing' /\ Cardinality(Shares') <= threadCount'
      BY <1>1, <2>2, <2>3 DEF OwnersInv, Closing
    <2> QED  BY <1>1, <2>3, <2>4, <2>5, <2>6, <2>7 DEF OwnersInv
  <1>3. CASE SendPush(t)
    <2>1. /\ UNCHANGED <<threadCount, refs>>
          /\ pc' = [pc EXCEPT ![t] = "out"]
          /\ \/ result' = [result EXCEPT ![t] = "ok"]
             \/ result' = [result EXCEPT ![t] = "generic_failure"]
      BY <1>3 DEF SendPush, AsyncSend, Return
    <2>2. Shares' = Shares
      BY <2>1 DEF Shares
    <2>3. /\ \A u \in Threads : pc'[u] # "out" => refs'[u] > 0
          /\ \A u \in Threads : result'[u] # "invalid_arg"
      BY <1>1, <2>1 DEF OwnersInv, TypeOK
    <2> QED  BY <1>1, <2>1, <2>2, <2>3 DEF OwnersInv, Closing
  <1> QED  BY <1>2, <1>3 DEF SendFinish

\* Every call of a thread keeps the count of the references, when no thread uses
\* the function without one.
LEMMA ThreadOwners ==
    ASSUME Guests = {}, TypeInv, OwnersInv, NEW t \in Threads, ThreadStep(t)
    PROVE  OwnersInv'
  <1>1. /\ TypeOK /\ threadCount \in Nat
        /\ MayUse(t) => refs[t] > 0
    BY DEF TypeInv, TypeOK, MayUse
  <1>2. CASE Send(t)
    <2>1. refs[t] > 0
      BY <1>1, <1>2 DEF Send
    <2>2. CASE SendFinish(t)
      BY <2>1, <2>2, SendOwners
    <2>3. CASE ~SendFinish(t)
      <3>1. /\ UNCHANGED <<status, threadCount, refs, aborted>>
            /\ \/ pc' = [pc EXCEPT ![t] = "waiting"] /\ UNCHANGED result
               \/ Return(t, "queue_full")
        BY <1>2, <2>3 DEF Send
      <3>2. Shares' = Shares
        BY <3>1 DEF Shares
      <3>3. /\ \A u \in Threads : pc'[u] # "out" => refs'[u] > 0
            /\ \A u \in Threads : result'[u] # "invalid_arg"
        BY <1>1, <2>1, <3>1 DEF OwnersInv, Return, TypeOK
      <3> QED  BY <3>1, <3>2, <3>3 DEF OwnersInv, Closing
    <2> QED  BY <2>2, <2>3
  <1>3. CASE Resume(t)
    <2>1. refs[t] > 0
      BY <1>3 DEF Resume, OwnersInv
    <2>2. CASE SendFinish(t)
      BY <2>1, <2>2, SendOwners
    <2>3. CASE ~SendFinish(t)
      <3>1. /\ UNCHANGED <<status, threadCount, refs, aborted, result>>
            /\ pc' = [pc EXCEPT ![t] = "waiting"]
        BY <1>3, <2>3 DEF Resume
      <3>2. Shares' = Shares
        BY <3>1 DEF Shares
      <3>3. \A u \in Threads : pc'[u] # "out" => refs'[u] > 0
        BY <1>1, <2>1, <3>1 DEF OwnersInv, TypeOK
      <3> QED  BY <3>1, <3>2, <3>3 DEF OwnersInv, Closing
    <2> QED  BY <2>2, <2>3
  <1>4. CASE SpuriousWakeup(t)
    <2>1. /\ UNCHANGED <<status, threadCount, refs, aborted, result>>
          /\ pc[t] = "waiting" /\ pc' = [pc EXCEPT ![t] = "woken"]
      BY <1>4 DEF SpuriousWakeup
    <2>2. Shares' = Shares
      BY <2>1 DEF Shares
    <2>3. \A u \in Threads : pc'[u] # "out" => refs'[u] > 0
      BY <1>1, <2>1 DEF OwnersInv, TypeOK
    <2> QED  BY <2>1, <2>2, <2>3 DEF OwnersInv, Closing
  <1>5. CASE Acquire(t)
    <2>1. /\ UNCHANGED <<status, aborted>>
          /\ pc' = [pc EXCEPT ![t] = "out"]
          /\ \/ result' = [result EXCEPT ![t] = "ok"]
             \/ result' = [result EXCEPT ![t] = "generic_failure"]
      BY <1>5 DEF Acquire, Return
    <2>2. \A u \in Threads : result'[u] # "invalid_arg"
      BY <1>1, <2>1 DEF OwnersInv, TypeOK
    <2>3. CASE Closing
      <3>1. UNCHANGED <<threadCount, refs>>
        BY <1>5, <2>3 DEF Acquire
      <3>2. Shares' = Shares
        BY <3>1 DEF Shares
      <3>3. \A u \in Threads : pc'[u] # "out" => refs'[u] > 0
        BY <1>1, <2>1, <3>1 DEF OwnersInv, TypeOK
      <3> QED  BY <2>1, <2>2, <3>1, <3>2, <3>3 DEF OwnersInv, Closing
    <2>4. CASE ~Closing
      <3>1. threadCount' = threadCount + 1 /\ refs' = [refs EXCEPT ![t] = @ + 1]
        BY <1>5, <2>4 DEF Acquire
      <3>2. IsFiniteSet(Shares') /\ Cardinality(Shares') = threadCount'
        BY <2>4, <3>1, ShareTaken DEF OwnersInv
      <3>3. \A u \in Threads : pc'[u] # "out" => refs'[u] > 0
        BY <1>1, <2>1, <3>1 DEF OwnersInv, TypeOK
      <3> QED  BY <2>1, <2>2, <2>4, <3>2, <3>3 DEF OwnersInv, Closing
    <2> QED  BY <2>3, <2>4
  <1>6. CASE Release(t)
    <2>1. refs[t] > 0 /\ pc[t] = "out"
      BY <1>1, <1>6 DEF Release, Enter
    <2>2. threadCount > 0 /\ (status = "CLOSED" => aborted)
      BY <2>1, OwnerCounted
    <2>3. GiveUpRef(t)
      BY <1>6 DEF Release, ReleaseRefused, ReleaseAccepted, ReleaseAbort
    <2>4. /\ IsFiniteSet(Shares')
          /\ Cardinality(Shares) \in Nat
          /\ Cardinality(Shares') = Cardinality(Shares) - 1
      BY <2>1, <2>3, ShareGivenUp DEF OwnersInv
    <2>5. /\ \A u \in Threads : pc'[u] # "out" => u # t /\ pc[u] # "out"
          /\ \A u \in Threads : result'[u] # "invalid_arg"
      <3>1. CASE pc' = [pc EXCEPT ![t] = "out"]
        <4>1. \A u \in Threads : pc'[u] # "out" => u # t /\ pc[u] # "out"
          BY <1>1, <3>1 DEF TypeOK
        <4>2. \E code \in NapiStatuses \ {"invalid_arg"} : result' = [result EXCEPT ![t] = code]
          BY <1>6 DEF Release, ReleaseRefused, ReleaseAccepted, ReleaseAbort, AsyncSend,
                      Return, NapiStatuses
        <4> QED  BY <1>1, <4>1, <4>2 DEF OwnersInv, TypeOK
      <3>2. CASE ReleaseAbort(t)
        <4>1. pc' = pc \/ NotifyOne
          BY <3>2 DEF ReleaseAbort
        <4>2. \A u \in Threads : pc'[u] # "out" => u # t /\ pc[u] # "out"
          BY <1>1, <2>1, <4>1 DEF NotifyOne, Waiting, TypeOK
        <4>3. \E code \in NapiStatuses \ {"invalid_arg"} : result' = [result EXCEPT ![t] = code]
          BY <3>2 DEF ReleaseAbort, NapiStatuses
        <4> QED  BY <1>1, <4>2, <4>3 DEF OwnersInv, TypeOK
      <3> QED  BY <1>6, <3>1, <3>2 DEF Release, ReleaseRefused, ReleaseAccepted, AsyncSend,
                                        Return
    <2>6. \A u \in Threads : pc'[u] # "out" => refs'[u] > 0
      BY <1>1, <2>3, <2>5 DEF OwnersInv, GiveUpRef, TypeOK
    <2>7. CASE ReleaseRefused(t)
      <3>1. Closing /\ UNCHANGED <<status, threadCount, aborted>>
        BY <2>2, <2>7 DEF ReleaseRefused
      <3> QED  BY <1>1, <2>2, <2>4, <2>5, <2>6, <3>1 DEF OwnersInv, Closing
    <2>8. CASE ReleaseAccepted(t)
      <3>1. ~Closing /\ threadCount' = threadCount - 1 /\ UNCHANGED <<status, aborted>>
        BY <2>8 DEF ReleaseAccepted
      <3> QED  BY <1>1, <2>4, <2>5, <2>6, <3>1 DEF OwnersInv, Closing
    <2>9. CASE ReleaseAbort(t)
      <3>1. /\ ~Closing /\ threadCount' = threadCount - 1
            /\ status' = "CLOSING" /\ aborted'
        BY <2>9 DEF ReleaseAbort
      <3> QED  BY <1>1, <2>4, <2>5, <2>6, <3>1 DEF OwnersInv, Closing
    <2> QED  BY <1>6, <2>7, <2>8, <2>9 DEF Release
  <1> QED  BY <1>2, <1>3, <1>4, <1>5, <1>6 DEF ThreadStep

\* The loop closes a function that was not aborted only when no reference is left.
LEMMA LoopOwners ==
    ASSUME TypeInv, OwnersInv, LoopStep \/ Ref \/ Unref
    PROVE  OwnersInv'
  <1>1. /\ TypeOK /\ UNCHANGED <<threadCount, refs, result, aborted>>
    BY DEF TypeInv, LoopStep, AsyncCallback, IdleCallback, CallbackReturns, AsyncHandleClosed,
           IdleHandleClosed, FinalizerReturns, Drain, Ref, Unref, clientVars, ghosts
  <1>2. Shares' = Shares
    BY <1>1 DEF Shares
  <1>3. \A u \in Threads : pc'[u] # "out" => pc[u] # "out"
    BY <1>1, NotifyType DEF LoopStep, AsyncCallback, IdleCallback, CallbackReturns,
           AsyncHandleClosed, IdleHandleClosed, FinalizerReturns, Drain, Ref, Unref
  <1>4. \/ UNCHANGED status
        \/ status' = "CLOSED" /\ status = "CLOSING"
        \/ status' = "CLOSED" /\ status = "INTE" /\ threadCount = 0
    <2>1. loop = "callback" => status = "INTE"
      BY DEF TypeInv, CallbackHasDatum
    <2> QED  BY <2>1 DEF LoopStep, AsyncCallback, IdleCallback, CallbackReturns,
                AsyncHandleClosed, IdleHandleClosed, FinalizerReturns, Drain, Ref, Unref,
                StopOrClose, CloseHandles
  <1>5. \A u \in Threads : pc'[u] # "out" => refs'[u] > 0
    BY <1>1, <1>3 DEF OwnersInv
  <1>6. CASE UNCHANGED status
    BY <1>1, <1>2, <1>5, <1>6 DEF OwnersInv, Closing
  <1>7. CASE status' = "CLOSED" /\ status = "CLOSING"
    BY <1>1, <1>2, <1>5, <1>7 DEF OwnersInv, Closing
  <1>8. CASE status' = "CLOSED" /\ status = "INTE" /\ threadCount = 0
    <2>1. Shares = {}
      BY <1>8, FS_EmptySet DEF OwnersInv, Closing
    <2>2. Cardinality(Shares) <= threadCount
      BY <1>8 DEF OwnersInv, Closing
    <2> QED  BY <1>1, <1>2, <1>5, <1>8, <2>1, <2>2 DEF OwnersInv, Closing
  <1> QED  BY <1>4, <1>6, <1>7, <1>8

\* Without guests the count of the references is an invariant.
LEMMA OwnersInvariant == Spec => [](Guests = {} => OwnersInv)
  <1>1. Init => (Guests = {} => OwnersInv)
    BY InitOwners
  <1>2. TypeInv /\ (Guests = {} => OwnersInv) /\ [Next]_vars => (Guests = {} => OwnersInv)'
    <2> SUFFICES ASSUME TypeInv, OwnersInv, Guests = {}, [Next]_vars PROVE OwnersInv'
      OBVIOUS
    <2>1. CASE UNCHANGED vars
      BY <2>1 DEF vars, OwnersInv, Shares, Closing
    <2>2. CASE Next
      BY <2>2, ThreadOwners, LoopOwners DEF Next
    <2> QED  BY <2>1, <2>2
  <1> QED  BY <1>1, <1>2, Invariance, PTL DEF Spec

\* A function that nobody uses without a reference is closed, unless aborted, only
\* when every reference is given up, and no call that was entitled to it is told
\* "invalid argument".
THEOREM OpenWhileReferenced == Spec => []ReferencesKeepOpen
  <1>1. TypeInv /\ (Guests = {} => OwnersInv) => ReferencesKeepOpen
    <2> SUFFICES ASSUME TypeInv, OwnersInv
                 PROVE  /\ status = "CLOSED" /\ ~aborted => \A t \in Threads : refs[t] = 0
                        /\ \A t \in Threads : result[t] # "invalid_arg"
      BY DEF ReferencesKeepOpen
    <2>1. ASSUME NEW t \in Threads, refs[t] # 0 PROVE ~(status = "CLOSED" /\ ~aborted)
      BY <2>1, OwnerCounted DEF TypeInv, TypeOK
    <2> QED  BY <2>1 DEF OwnersInv
  <1> QED  BY <1>1, OwnersInvariant, Invariance, PTL
-----------------------------------------------------------------------------
(***************************************************************************)
(* The notification of a blocked caller.  Only callers that block wait, and *)
(* only for a limited queue; that, and what the run checks, is inductive.   *)
(***************************************************************************)
WaitInv ==
    /\ \A t \in Threads : pc[t] # "out" => t \in Blockers
    /\ \A t \in Threads : pc[t] = "waiting" => MaxQueueSize > 0
    /\ NoNotificationMissed

\* The notification of t, the only caller that blocks, is still to come.
Owed == /\ ~Closing
        /\ \/ Len(queue) > MaxQueueSize
           \/ Len(queue) = MaxQueueSize /\ loop = "poll"

\* A notification reaches the only caller that waits.
LEMMA NotifyReaches ==
    ASSUME TypeInv, WaitInv, NEW t \in Threads, Blockers = {t}, NotifyOne
    PROVE  pc'[t] # "waiting" /\ \A u \in Threads : pc'[u] # "out" => pc[u] # "out"
  <1>1. Waiting \subseteq {t} /\ pc \in [Threads -> {"out", "waiting", "woken"}]
    BY DEF WaitInv, Waiting, TypeInv, TypeOK
  <1> QED  BY <1>1 DEF NotifyOne, Waiting

\* What a thread does to the callers that wait: its own call returns, or it waits
\* for room; it notifies when it aborts; and it shortens no queue.
LEMMA ThreadStepWaits ==
    ASSUME TypeInv, SafeInv, WaitInv, NEW u \in Threads, ThreadStep(u)
    PROVE  WaitInv'
  <1>1. /\ pc \in [Threads -> {"out", "waiting", "woken"}] /\ queue \in Seq(Items)
        /\ MaxQueueSize \in Nat /\ Len(queue) \in Nat
    BY BoundsAssumption, LenProperties DEF TypeInv, TypeOK
  <1>2. \A t \in Threads : Blockers = {t} /\ pc[t] = "waiting" => Owed
    BY DEF WaitInv, NoNotificationMissed, Owed
  <1>3. ASSUME MutexFree, SendFinish(u) PROVE WaitInv'
    <2>1. pc' = [pc EXCEPT ![u] = "out"] /\ UNCHANGED <<status, loop>>
      BY <1>3 DEF SendFinish, SendRefused, SendPush, AsyncSend, Return
    <2>2. Len(queue') \in Nat /\ Len(queue') >= Len(queue)
      <3>1. CASE queue' = queue
        BY <1>1, <3>1
      <3>2. CASE queue' = Append(queue, <<u, calls'[u]>>)
        BY <1>1, <3>2, AppendProperties DEF Items
      <3> QED  BY <1>3, <3>1, <3>2 DEF SendFinish, SendRefused, SendPush
    <2>3. Owed => Owed'
      BY <1>1, <1>3, <2>1, <2>2 DEF Owed, Closing, MutexFree
    <2> QED  BY <1>1, <1>2, <2>1, <2>3 DEF WaitInv, NoNotificationMissed, Owed
  <1>4. ASSUME IsMaxQueueSize, u \in Blockers, pc' = [pc EXCEPT ![u] = "waiting"],
               UNCHANGED <<status, queue, loop>>
        PROVE  WaitInv'
    <2>1. Owed' /\ MaxQueueSize > 0
      BY <1>1, <1>4 DEF Owed, IsMaxQueueSize, Closing
    <2> QED  BY <1>1, <1>4, <2>1 DEF WaitInv, NoNotificationMissed, Owed
  <1>5. ASSUME \A t \in Threads : pc'[t] = "waiting" => pc[t] = "waiting",
               \A t \in Threads : pc'[t] # "out" => pc[t] # "out",
               UNCHANGED <<status, queue, loop>>
        PROVE  WaitInv'
    <2>1. Owed => Owed'
      BY <1>5 DEF Owed, Closing
    <2> QED  BY <1>2, <1>5, <2>1 DEF WaitInv, NoNotificationMissed, Owed
  <1>6. CASE Send(u)
    <2>1. MutexFree
      BY <1>6 DEF Send, Enter
    <2>2. CASE IsMaxQueueSize /\ u \notin Blockers /\ ~SendFinish(u)
      <3>1. pc' = [pc EXCEPT ![u] = "out"] /\ UNCHANGED <<status, queue, loop>>
        BY <1>6, <2>2 DEF Send, Return, uvVars
      <3> QED  BY <1>1, <1>5, <3>1
    <2>3. CASE IsMaxQueueSize /\ u \in Blockers /\ ~SendFinish(u)
      BY <1>4, <1>6, <2>3 DEF Send, uvVars
    <2> QED  BY <1>3, <1>6, <2>1, <2>2, <2>3 DEF Send
  <1>7. CASE Resume(u)
    <2>1. u \in Blockers /\ MutexFree
      BY <1>7 DEF Resume, WaitInv
    <2>2. CASE IsMaxQueueSize /\ ~SendFinish(u)
      BY <1>4, <1>7, <2>1, <2>2 DEF Resume, uvVars
    <2> QED  BY <1>3, <1>7, <2>1, <2>2 DEF Resume
  <1>8. CASE SpuriousWakeup(u)
    <2>1. pc[u] = "waiting" /\ pc' = [pc EXCEPT ![u] = "woken"] /\ UNCHANGED <<status, queue, loop>>
      BY <1>8 DEF SpuriousWakeup, uvVars
    <2> QED  BY <1>1, <1>5, <2>1
  <1>9. CASE Acquire(u)
    <2>1. pc' = [pc EXCEPT ![u] = "out"] /\ UNCHANGED <<status, queue, loop>>
      BY <1>9 DEF Acquire, Return, uvVars
    <2> QED  BY <1>1, <1>5, <2>1
  <1>10. CASE Release(u)
    <2>1. UNCHANGED <<queue, loop>>
      BY <1>10 DEF Release
    <2>2. CASE ReleaseRefused(u) \/ ReleaseAccepted(u)
      <3>1. pc' = [pc EXCEPT ![u] = "out"] /\ UNCHANGED status
        BY <2>2 DEF ReleaseRefused, ReleaseAccepted, AsyncSend, Return
      <3> QED  BY <1>1, <1>5, <2>1, <3>1
    <2>3. CASE ReleaseAbort(u)
      <3>1. IF MaxQueueSize > 0 THEN NotifyOne ELSE pc' = pc
        BY <2>3 DEF ReleaseAbort
      <3>2. \A t \in Threads : /\ pc'[t] # "out" => pc[t] # "out"
                               /\ pc'[t] = "waiting" => pc[t] = "waiting"
        BY <1>1, <3>1 DEF NotifyOne, Waiting
      <3>3. ASSUME NEW t \in Threads, Blockers = {t} PROVE pc'[t] # "waiting"
        BY <3>1, <3>3, NotifyReaches DEF WaitInv
      <3> QED  BY <3>2, <3>3 DEF WaitInv, NoNotificationMissed
    <2> QED  BY <1>10, <2>2, <2>3 DEF Release
  <1> QED  BY <1>6, <1>7, <1>8, <1>9, <1>10 DEF ThreadStep

\* The loop notifies on the way through max_queue_size, and does not close while
\* a caller waits, since the queue is not empty then.
LEMMA LoopStepWaits ==
    ASSUME TypeInv, SafeInv, WaitInv, LoopStep \/ Ref \/ Unref
    PROVE  WaitInv'
  <1>1. /\ pc \in [Threads -> {"out", "waiting", "woken"}] /\ queue \in Seq(Items)
        /\ MaxQueueSize \in Nat /\ Len(queue) \in Nat
        /\ queue # <<>> <=> Len(queue) > 0
    BY BoundsAssumption, LenProperties, EmptySeq DEF TypeInv, TypeOK
  <1>2. \A t \in Threads : Blockers = {t} /\ pc[t] = "waiting" =>
            Owed /\ MaxQueueSize > 0 /\ queue # <<>> /\ status = "INTE"
    BY <1>1 DEF WaitInv, NoNotificationMissed, Owed, Closing, TypeInv, TypeOK, Statuses
  <1>3. ASSUME UNCHANGED pc,
               Owed /\ MaxQueueSize > 0 /\ queue # <<>> /\ status = "INTE" => Owed'
        PROVE  WaitInv'
    BY <1>2, <1>3 DEF WaitInv, NoNotificationMissed, Owed
  <1>4. CASE Ref \/ Unref \/ AsyncCallback
    <2>1. UNCHANGED <<pc, status, queue, loop>>
      BY <1>4 DEF Ref, Unref, AsyncCallback
    <2> QED  BY <1>3, <2>1 DEF Owed, Closing
  <1>5. CASE IdleCallback
    <2>1. UNCHANGED queue /\ loop = "poll"
      BY <1>5 DEF IdleCallback
    <2>2. CASE status = "CLOSING" \/ queue = <<>>
      <3>1. UNCHANGED pc
        BY <1>5, <2>2 DEF IdleCallback
      <3> QED  BY <1>3, <2>2, <3>1
    <2>3. CASE status = "INTE" /\ queue # <<>>
      <3>1. /\ IF Len(queue) = MaxQueueSize THEN NotifyOne ELSE pc' = pc
            /\ loop' = "callback" /\ UNCHANGED status
        BY <1>5, <2>3 DEF IdleCallback
      <3>2. \A t \in Threads : /\ pc'[t] # "out" => pc[t] # "out"
                               /\ pc'[t] = "waiting" => pc[t] = "waiting"
        BY <1>1, <3>1 DEF NotifyOne, Waiting
      <3>3. ASSUME NEW t \in Threads, Blockers = {t}, pc'[t] = "waiting" PROVE Owed'
        <4>1. Len(queue) # MaxQueueSize
          BY <3>1, <3>3, NotifyReaches
        <4>2. ~Closing /\ Len(queue) > MaxQueueSize
          BY <1>2, <3>2, <3>3, <4>1 DEF Owed
        <4> QED  BY <2>1, <3>1, <4>2 DEF Owed, Closing
      <3> QED  BY <3>2, <3>3 DEF WaitInv, NoNotificationMissed, Owed
    <2> QED  BY <1>5, <2>2, <2>3 DEF IdleCallback
  <1>6. CASE CallbackReturns
    <2>1. /\ UNCHANGED pc /\ loop = "callback" /\ loop' = "poll" /\ queue' = Tail(queue)
          /\ queue # <<>>
      BY <1>6 DEF CallbackReturns, TypeInv, CallbackHasDatum
    <2>2. Len(queue') = Len(queue) - 1
      BY <2>1, TailLength
    <2>3. ASSUME Owed, MaxQueueSize > 0 PROVE Owed'
      <3>1. Len(queue) > MaxQueueSize /\ Len(queue) # 1
        BY <1>1, <2>1, <2>3 DEF Owed
      <3>2. UNCHANGED status
        BY <1>6, <3>1 DEF CallbackReturns
      <3>3. Len(queue') >= MaxQueueSize
        BY <1>1, <2>2, <3>1
      <3>4. Len(queue') \in Nat
        BY <1>1, <2>2, <3>1
      <3> QED  BY <1>1, <2>1, <2>3, <3>2, <3>3, <3>4 DEF Owed, Closing
    <2> QED  BY <1>3, <2>1, <2>3
  <1>7. CASE AsyncHandleClosed \/ IdleHandleClosed \/ FinalizerReturns \/ Drain
    <2>1. status = "CLOSED"
      <3>1. handles # "open"
        BY <1>7 DEF AsyncHandleClosed, IdleHandleClosed, FinalizerReturns, Drain, SafeInv,
                    CloseOrder
      <3> QED  BY <3>1 DEF SafeInv, CloseOrder
    <2>2. UNCHANGED pc
      BY <1>7 DEF AsyncHandleClosed, IdleHandleClosed, FinalizerReturns, Drain
    <2> QED  BY <1>3, <2>1, <2>2
  <1> QED  BY <1>4, <1>5, <1>6, <1>7 DEF LoopStep

\* No caller waits initially, and every step keeps the invariant.
LEMMA WaitInvariant == Spec => []WaitInv
  <1>1. Init => WaitInv
    BY DEF Init, WaitInv, NoNotificationMissed
  <1>2. TypeInv /\ SafeInv /\ WaitInv /\ [Next]_vars => WaitInv'
    <2>1. ASSUME UNCHANGED vars, WaitInv PROVE WaitInv'
      BY <2>1 DEF vars, WaitInv, NoNotificationMissed, Closing
    <2> QED  BY <2>1, ThreadStepWaits, LoopStepWaits DEF Next
  <1> QED  BY <1>1, <1>2, Invariance, PTL DEF Spec

\* With one caller that may block, for any queue limit and any other senders, its
\* wait always ends at a notification that is still to come: ProcessAsyncHandle and
\* napi_tsfn_abort miss none, although they notify once.
THEOREM LoneCallerIsNotified == Spec => []NoNotificationMissed
  BY WaitInvariant, PTL DEF WaitInv
=============================================================================
