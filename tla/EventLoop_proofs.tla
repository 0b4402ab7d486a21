-------------------------- MODULE EventLoop_proofs --------------------------
(***************************************************************************)
(* Proofs about the three users of a libuv loop: the loop monitor, for any *)
(* number of sessions; the message channel of a worker, for any senders    *)
(* and any number of messages; and asynchronous work, for any works, any   *)
(* size of the thread pool and any number of times that work is queued.    *)
(***************************************************************************)
EXTENDS UvLoopMonitor, WorkerChannel, AsyncWork, SequenceLemmas, FiniteSetTheorems

-----------------------------------------------------------------------------
(***************************************************************************)
(* The loop monitor.  The balance of posted tasks and semaphore tokens is  *)
(* inductive together with SessionState, which ties checkUVLoop_ and the   *)
(* life of the monitor thread to the progress of CancelCheckUVLoop.        *)
(***************************************************************************)

CancelSteps == {"cleanup", "send", "semPost", "join"}

\* The flag is set exactly from the start of a session to its cancellation, and
\* the monitor thread exists from the start to the join.
SessionState ==
    /\ monitor = "none" => ~checkUVLoop /\ js \notin CancelSteps
    /\ monitor # "none" => sessions > 0
    /\ js \in CancelSteps => ~checkUVLoop
    /\ (monitor # "none" /\ js \notin CancelSteps) => checkUVLoop

Inv == TypeOK /\ SessionState /\ HandshakeBalance

\* The initial states satisfy the invariant.
THEOREM InitInv == Init => Inv
  <1> SUFFICES ASSUME Init PROVE Inv
    OBVIOUS
  <1>1. sem \in 0 .. MaxSessions + 1 /\ sessions \in 0 .. MaxSessions
    BY SessionsAssumption DEF Init
  <1>2. TypeOK
    BY <1>1 DEF Init, TypeOK
  <1>3. SessionState /\ HandshakeBalance
    BY DEF Init, SessionState, CancelSteps, HandshakeBalance, Outstanding, Cancels
  <1> QED
    BY <1>2, <1>3 DEF Inv

\* Every step keeps the balance; the bounds of TypeOK on the semaphore and the
\* tasks follow from it.
THEOREM NextInv == Inv /\ [Next]_vars => Inv'
  <1> SUFFICES ASSUME Inv, [Next]_vars PROVE Inv'
    OBVIOUS
  <1> USE SessionsAssumption DEF loopVars, taskVars, MonitorMoves, JsMoves, UvRun
  <1>1. SessionState'
    BY DEF Inv, TypeOK, SessionState, CancelSteps, Next, vars, UVThreadRunner,
       PostLoopTask, SemWait, CheckFlag, BackendTimeout, PollReturns, PollInterrupted,
       CheckFlagAfterPoll, CheckUVLoop, RunPostedTask, Loop, LoopSync, OtherTask,
       TriggerPostTask, CancelCheckUVLoop, Cancelling, CancelRunCleanup,
       CancelAsyncSend, CancelSemPost, CancelJoin, ExternalEvent
  <1>2. /\ sem' \in Nat /\ syncTasks' \in Nat /\ sessions' \in 0 .. MaxSessions
        /\ HandshakeBalance'
    <2>1. CASE UVThreadRunner
      BY <2>1 DEF Inv, TypeOK, HandshakeBalance, Outstanding, Cancels, UVThreadRunner,
         PostLoopTask, SemWait, CheckFlag, BackendTimeout, PollReturns,
         PollInterrupted, CheckFlagAfterPoll
    <2>2. CASE CheckUVLoop
      BY <2>2 DEF Inv, TypeOK, SessionState, CancelSteps, HandshakeBalance, Outstanding,
         Cancels, CheckUVLoop
    <2>3. CASE RunPostedTask \/ Loop \/ LoopSync \/ OtherTask \/ TriggerPostTask
      BY <2>3 DEF Inv, TypeOK, HandshakeBalance, Outstanding, Cancels, RunPostedTask,
         Loop, LoopSync, OtherTask, TriggerPostTask
    <2>4. CASE CancelCheckUVLoop
      BY <2>4 DEF Inv, TypeOK, SessionState, CancelSteps, HandshakeBalance, Outstanding,
         Cancels, CancelCheckUVLoop
    <2>5. CASE Cancelling
      BY <2>5 DEF Inv, TypeOK, SessionState, CancelSteps, HandshakeBalance, Outstanding,
         Cancels, Cancelling, CancelRunCleanup, CancelAsyncSend, CancelSemPost, CancelJoin
    <2>6. CASE ExternalEvent \/ UNCHANGED vars
      BY <2>6 DEF Inv, TypeOK, HandshakeBalance, Outstanding, Cancels, ExternalEvent, vars
    <2> QED
      BY <2>1, <2>2, <2>3, <2>4, <2>5, <2>6 DEF Next
  <1>3. /\ sem' \in 0 .. MaxSessions + 1
        /\ syncTasks' \in 0 .. MaxSessions + 1
    BY <1>2 DEF HandshakeBalance, Outstanding, Cancels
  <1>4. TypeOK'
    <2>1. CASE UVThreadRunner
      BY <1>2, <1>3, <2>1 DEF Inv, TypeOK, UVThreadRunner, PostLoopTask, SemWait,
         CheckFlag, BackendTimeout, PollReturns, PollInterrupted, CheckFlagAfterPoll
    <2>2. CASE CheckUVLoop
      BY <1>2, <1>3, <2>2 DEF Inv, TypeOK, CheckUVLoop
    <2>3. CASE RunPostedTask
      BY <1>2, <1>3, <2>3 DEF Inv, TypeOK, RunPostedTask
    <2>4. CASE Loop \/ LoopSync
      BY <1>2, <1>3, <2>4 DEF Inv, TypeOK, Loop, LoopSync
    <2>5. CASE OtherTask \/ TriggerPostTask
      BY <1>2, <1>3, <2>5 DEF Inv, TypeOK, OtherTask, TriggerPostTask
    <2>6. CASE ExternalEvent
      BY <1>2, <1>3, <2>6 DEF Inv, TypeOK, ExternalEvent
    <2>7. CASE CancelCheckUVLoop
      BY <1>2, <1>3, <2>7 DEF Inv, TypeOK, CancelCheckUVLoop
    <2>8. CASE CancelRunCleanup \/ CancelAsyncSend
      BY <1>2, <1>3, <2>8 DEF Inv, TypeOK, CancelRunCleanup, CancelAsyncSend
    <2>9. CASE CancelSemPost \/ CancelJoin
      BY <1>2, <1>3, <2>9 DEF Inv, TypeOK, CancelSemPost, CancelJoin
    <2>10. CASE UNCHANGED vars
      BY <2>10 DEF Inv, TypeOK, vars
    <2> QED
      BY <2>1, <2>2, <2>3, <2>4, <2>5, <2>6, <2>7, <2>8, <2>9, <2>10 DEF Next, Cancelling
  <1> QED
    BY <1>1, <1>2, <1>4 DEF Inv

\* Spec keeps the invariant.
THEOREM Invariance == Spec => []Inv
  <1>1. Init => Inv
    BY InitInv
  <1>2. Inv /\ [Next]_vars => Inv'
    BY NextInv
  <1> QED
    BY <1>1, <1>2, PTL DEF Spec

\* The variables keep their types: the semaphore and the posted tasks never
\* exceed the number of sessions by more than one.
THEOREM TypeCorrect == Spec => []TypeOK
  <1>1. Inv => TypeOK
    BY DEF Inv
  <1> QED
    BY <1>1, Invariance, PTL

\* Posted tasks, tokens and the waiting monitor balance in every session.
THEOREM Balance == Spec => []HandshakeBalance
  <1>1. Inv => HandshakeBalance
    BY DEF Inv
  <1> QED
    BY <1>1, Invariance, PTL

\* In the first session the monitor and the tasks it posts alternate.
THEOREM Alternation == Spec => []TaskAndMonitorAlternate
  <1>1. Inv => TaskAndMonitorAlternate
    BY DEF Inv, TypeOK, HandshakeBalance, TaskAndMonitorAlternate, Outstanding, Cancels
  <1> QED
    BY <1>1, Invariance, PTL

-----------------------------------------------------------------------------
(* The worker's channel *)

\* What becomes of a message that arrives before uv_async_init: there is none
\* before the object is published, and then its signal is recorded as lost.
EarlyRecorded ==
    /\ worker = "null" => data = <<>>
    /\ worker = "published" /\ data # <<>> => early

\* MessageIsAnnounced is inductive with EarlyRecorded only: InitHandle takes the
\* signal back while messages are queued.
ChannelInv == InOrderOnce /\ EarlyRecorded /\ MessageIsAnnounced

\* A sender's next message has a name.
LEMMA NextMessage ==
    ASSUME ChannelTypeOK, NEW t \in Parties, sent[t] < MaxSends,
           sent' = [sent EXCEPT ![t] = @ + 1]
    PROVE  /\ <<t, sent'[t]>> \in Messages
           /\ sent' \in [Parties -> 0 .. MaxSends]
  BY ChannelAssumption DEF ChannelTypeOK, Messages

\* Nothing was sent, and nothing is lost.
LEMMA ChannelInitInv == ChannelInit => ChannelInv
  <1> SUFFICES ASSUME ChannelInit PROVE ChannelInv
    OBVIOUS
  <1>1. ChannelTypeOK
    <2>1. <<>> \in Seq(Messages)
      BY EmptySeq
    <2>2. sent \in [Parties -> 0 .. MaxSends]
      BY ChannelAssumption DEF ChannelInit
    <2> QED  BY <2>1, <2>2 DEF ChannelInit, ChannelTypeOK
  <1>2. accepted = executed \o data
    BY <1>1, ConcatEmptySeq DEF ChannelInit, ChannelTypeOK
  <1> QED
    BY <1>1, <1>2 DEF ChannelInit, ChannelInv, InOrderOnce, EarlyRecorded, MessageIsAnnounced

\* Send appends to data_ and signals in one critical section.
LEMMA SendKeepsInv ==
    ASSUME ChannelInv, NEW t \in Parties, SendAsyncWork(t)
    PROVE  ChannelInv'
  <1> DEFINE m == <<t, sent'[t]>>
  <1> USE DEF ChannelInv, InOrderOnce
  <1>1. m \in Messages /\ sent' \in [Parties -> 0 .. MaxSends]
    BY NextMessage DEF SendAsyncWork
  <1>2. CASE worker = "null"
    BY <1>1, <1>2 DEF SendAsyncWork, ChannelTypeOK, EarlyRecorded, MessageIsAnnounced
  <1>3. CASE worker # "null"
    <2>1. /\ data' = Append(data, m) /\ accepted' = Append(accepted, m)
          /\ Signal /\ UNCHANGED <<worker, recv, executed>>
      BY <1>3 DEF SendAsyncWork
    <2>2. data' \in Seq(Messages) /\ accepted' \in Seq(Messages)
      BY <1>1, <2>1, AppendProperties DEF ChannelTypeOK
    <2>3. ChannelTypeOK'
      BY <1>1, <2>1, <2>2 DEF ChannelTypeOK, Signal
    <2>4. accepted' = executed' \o data'
      <3> HIDE DEF m
      <3>1. executed \o Append(data, m) = Append(executed \o data, m)
        BY <1>1, PushConcat DEF ChannelTypeOK
      <3> QED  BY <2>1, <3>1
    <2>5. EarlyRecorded'
      BY <1>3, <2>1 DEF Signal, EarlyRecorded
    <2>6. MessageIsAnnounced'
      BY <2>1 DEF Signal, MessageIsAnnounced
    <2> QED  BY <2>3, <2>4, <2>5, <2>6
  <1> QED  BY <1>2, <1>3

\* PopData moves the oldest message to its execution, or leaves the callback.
LEMMA PopKeepsInv ==
    ASSUME ChannelInv, PopData
    PROVE  ChannelInv'
  <1> USE DEF ChannelInv, InOrderOnce, PopData
  <1>1. CASE data = <<>>
    BY <1>1 DEF ChannelTypeOK, EarlyRecorded, MessageIsAnnounced
  <1>2. CASE data # <<>>
    <2>1. Head(data) \in Messages /\ Tail(data) \in Seq(Messages)
      BY <1>2, HeadTailProperties DEF ChannelTypeOK
    <2>2. ChannelTypeOK'
      <3>1. Append(executed, Head(data)) \in Seq(Messages)
        BY <2>1, AppendProperties DEF ChannelTypeOK
      <3> QED  BY <1>2, <2>1, <3>1 DEF ChannelTypeOK
    <2>3. Append(executed, Head(data)) \o Tail(data) = executed \o data
      <3>1. data = <<Head(data)>> \o Tail(data)
        BY <1>2, <2>1 DEF ChannelTypeOK
      <3>2. <<Head(data)>> \in Seq(Messages)
        BY <2>1
      <3> QED  BY <2>1, <3>1, <3>2, AppendIsConcat, ConcatAssociative DEF ChannelTypeOK
    <2>4. EarlyRecorded' /\ MessageIsAnnounced'
      BY <1>2 DEF EarlyRecorded, MessageIsAnnounced
    <2> QED  BY <1>2, <2>2, <2>3, <2>4
  <1> QED  BY <1>1, <1>2

\* The invariant is inductive.
LEMMA ChannelStep == ChannelInv /\ [ChannelNext]_channelVars => ChannelInv'
  <1> SUFFICES ASSUME ChannelInv, [ChannelNext]_channelVars PROVE ChannelInv'
    OBVIOUS
  <1> USE DEF ChannelInv, InOrderOnce, ChannelTypeOK, EarlyRecorded, MessageIsAnnounced
  <1>1. CASE InitAsyncWork
    BY <1>1 DEF InitAsyncWork
  <1>2. CASE InitHandle
    BY <1>2 DEF InitHandle
  <1>3. CASE CloseAsyncWork
    BY <1>3 DEF CloseAsyncWork
  <1>4. ASSUME NEW t \in Parties, SendAsyncWork(t) PROVE ChannelInv'
    BY <1>4, SendKeepsInv
  <1>5. CASE RecvCallback
    BY <1>5 DEF RecvCallback
  <1>6. CASE PopData
    BY <1>6, PopKeepsInv
  <1>7. CASE RecvExecuteReturns
    BY <1>7 DEF RecvExecuteReturns
  <1>8. CASE RecvCompleteReturns
    BY <1>8 DEF RecvCompleteReturns
  <1>9. CASE UNCHANGED channelVars
    BY <1>9 DEF channelVars
  <1> QED
    BY <1>1, <1>2, <1>3, <1>4, <1>5, <1>6, <1>7, <1>8, <1>9
       DEF ChannelNext, AsyncWorkRecvCallback

\* It holds of every behaviour.
LEMMA ChannelInvariant == ChannelSpec => []ChannelInv
  BY ChannelInitInv, ChannelStep, PTL DEF ChannelSpec

\* Whatever threads send and whenever the channel is closed, accepted messages
\* are the executed ones followed by the queued ones: SendAsyncWork, Send and
\* PopData lose, repeat and reorder nothing, and each variable keeps its type.
THEOREM NothingLostInChannel == ChannelSpec => []InOrderOnce
  BY ChannelInvariant, PTL DEF ChannelInv

\* A message queued in an open channel is announced to the worker's loop, by the
\* signal or by the callback that has yet to look into the queue, unless its
\* signal went to a handle that InitAsyncWork had not initialised.
THEOREM ChannelNeverAsleep == ChannelSpec => []MessageIsAnnounced
  BY ChannelInvariant, PTL DEF ChannelInv

-----------------------------------------------------------------------------
(* Asynchronous work: what complete_ was told *)

\* complete_ was told napi_ok at most once for each time it was called.
LEMMA ToldOkBound ==
    ASSUME NEW st \in Seq({"napi_ok", "napi_cancelled"})
    PROVE  /\ IsFiniteSet(ToldOk(st))
           /\ Cardinality(ToldOk(st)) \in 0 .. Len(st)
  <1>1. Len(st) \in Nat /\ DOMAIN st = 1 .. Len(st)
    BY LenProperties
  <1>2. IsFiniteSet(1 .. Len(st)) /\ Cardinality(1 .. Len(st)) = Len(st)
    BY <1>1, FS_Interval
  <1>3. ToldOk(st) \subseteq 1 .. Len(st)
    BY <1>1 DEF ToldOk
  <1>4. IsFiniteSet(ToldOk(st)) /\ Cardinality(ToldOk(st)) <= Cardinality(1 .. Len(st))
    BY <1>2, <1>3, FS_Subset
  <1> QED  BY <1>1, <1>2, <1>4, FS_CardinalityType

\* One more status told: one more napi_ok, when that is what it was.
LEMMA ToldOneMore ==
    ASSUME NEW st \in Seq({"napi_ok", "napi_cancelled"}),
           NEW x \in {"napi_ok", "napi_cancelled"}
    PROVE  /\ Append(st, x) \in Seq({"napi_ok", "napi_cancelled"})
           /\ Len(Append(st, x)) = Len(st) + 1
           /\ Cardinality(ToldOk(Append(st, x)))
                = Cardinality(ToldOk(st)) + (IF x = "napi_ok" THEN 1 ELSE 0)
  <1>1. /\ Len(st) \in Nat /\ DOMAIN st = 1 .. Len(st)
        /\ Append(st, x) \in Seq({"napi_ok", "napi_cancelled"})
        /\ Len(Append(st, x)) = Len(st) + 1
        /\ \A i \in 1 .. Len(st) : Append(st, x)[i] = st[i]
        /\ Append(st, x)[Len(st) + 1] = x
    BY AppendProperties, LenProperties
  <1>2. DOMAIN Append(st, x) = 1 .. Len(st) + 1
    BY <1>1, LenProperties
  <1>3. CASE x = "napi_ok"
    <2>1. ToldOk(Append(st, x)) = ToldOk(st) \cup {Len(st) + 1}
      BY <1>1, <1>2, <1>3 DEF ToldOk
    <2>2. Len(st) + 1 \notin ToldOk(st)
      BY <1>1 DEF ToldOk
    <2> QED  BY <1>1, <1>3, <2>1, <2>2, ToldOkBound, FS_AddElement
  <1>4. CASE x = "napi_cancelled"
    <2>1. ToldOk(Append(st, x)) = ToldOk(st)
      BY <1>1, <1>2, <1>4 DEF ToldOk
    <2> QED  BY <1>1, <1>4, <2>1, ToldOkBound
  <1> QED  BY <1>1, <1>3, <1>4

-----------------------------------------------------------------------------
(***************************************************************************)
(* The inductive invariant.  Cancel and the pool threads take a work from   *)
(* the same queue: that each work is at one place, the one its uv_work_t    *)
(* says, is what makes either of them find it, and the loop once.           *)
(***************************************************************************)
Placed ==
    /\ IsInjective(pool) /\ IsInjective(after)
    /\ \A w \in Works : w \in Range(pool) <=> req[w] = "queued"
    /\ \A w \in Works : w \in Range(after) <=> req[w] \in {"finished", "cancelled"}
    /\ \A p \in PoolThreads : running[p] # NoWork => req[running[p]] = "running"
    /\ \A p, q \in PoolThreads :
          running[p] = running[q] /\ running[p] # NoWork => p = q

\* No work is pending that was deleted, and none that was deleted has been read.
OwnerWaits ==
    /\ ~freedRead
    /\ \A w \in Works : req[w] # "idle" => object[w] = "live"

WorkInv == ToldOnceWhatHappened /\ Placed /\ OwnerWaits

\* What a caller counts is what libuv does: with an answer to each queueing, there
\* is no request.
LEMMA AnsweredIsIdle ==
    ASSUME WorkInv, NEW w \in Works, Answered(w)
    PROVE  req[w] = "idle"
  <1>1. /\ queued[w] = Len(told[w]) + Pending(w) /\ queued[w] = Len(told[w])
        /\ told[w] \in Seq({"napi_ok", "napi_cancelled"})
    BY DEF WorkInv, ToldOnceWhatHappened, WorkTypeOK, Answered
  <1>2. Len(told[w]) \in Nat
    BY <1>1, LenProperties
  <1>3. Pending(w) = 0
    <2>1. Pending(w) \in {0, 1}
      BY DEF Pending
    <2> QED  BY <1>1, <1>2, <2>1
  <1> QED  BY <1>3 DEF Pending

\* A work that was not queued yet is nowhere.
LEMMA WorkInitInv == WorkInit => WorkInv
  <1> SUFFICES ASSUME WorkInit PROVE WorkInv
    OBVIOUS
  <1>1. WorkTypeOK
    <2>1. /\ <<>> \in Seq(Works) /\ <<>> \in Seq({"napi_ok", "napi_cancelled"})
          /\ 0 \in 0 .. MaxQueues
      BY EmptySeq, WorkAssumption
    <2> QED  BY <2>1 DEF WorkInit, WorkTypeOK
  <1>2. ToldOk(<<>>) = {} /\ Cardinality(ToldOk(<<>>)) = 0 /\ Len(<<>>) = 0
    BY FS_EmptySet, EmptySeq DEF ToldOk
  <1>3. IsInjective(<<>>) /\ Range(<<>>) = {}
    BY DEF IsInjective, Range
  <1>4. Placed
    BY <1>3 DEF WorkInit, Placed
  <1> QED  BY <1>1, <1>2, <1>4 DEF WorkInit, WorkInv, ToldOnceWhatHappened, Pending, OwnerWaits

\* Queue: the work joins those no thread has started.
LEMMA QueueStep ==
    ASSUME WorkInv, NEW w \in Works, Queue(w)
    PROVE  WorkInv'
  <1>idle. req[w] = "idle"
    BY AnsweredIsIdle DEF Queue
  <1> USE <1>idle DEF WorkInv, ToldOnceWhatHappened, Queue
  <1>1. WorkTypeOK /\ w \notin Range(pool)
    BY DEF Placed
  <1>2. pool' \in Seq(Works) /\ IsInjective(pool') /\ Range(pool') = Range(pool) \cup {w}
    BY <1>1, AppendNew DEF WorkTypeOK, Placed
  <1>3. WorkTypeOK'
    BY <1>1, <1>2, WorkAssumption DEF WorkTypeOK
  <1>4. Placed'
    BY <1>1, <1>2 DEF WorkTypeOK, Placed
  <1>5. OwnerWaits'
    BY <1>1 DEF WorkTypeOK, OwnerWaits
  <1>6. \A v \in Works : queued'[v] = Len(told'[v]) + Pending(v)'
    BY <1>1 DEF WorkTypeOK, Pending
  <1> QED  BY <1>1, <1>3, <1>4, <1>5, <1>6 DEF WorkTypeOK

\* Cancel: a work that no thread has started, or one cancelled before, goes to
\* the end of those the loop has to complete.
LEMMA CancelStep ==
    ASSUME WorkInv, NEW w \in Works, Cancel(w)
    PROVE  WorkInv'
  <1> USE DEF WorkInv, ToldOnceWhatHappened, Cancel
  <1> DEFINE rest == RemoveFirst(after, w)
  <1>1. WorkTypeOK /\ Placed
    OBVIOUS
  <1>2. pool' \in Seq(Works) /\ IsInjective(pool') /\ Range(pool') = Range(pool) \ {w}
    BY <1>1, RemoveFirstProperties DEF WorkTypeOK, Placed
  <1>3. rest \in Seq(Works) /\ IsInjective(rest) /\ Range(rest) = Range(after) \ {w}
    BY <1>1, RemoveFirstProperties DEF WorkTypeOK, Placed
  <1> HIDE DEF rest
  <1>4. after' = Append(rest, w)
    BY DEF rest
  <1>5. after' \in Seq(Works) /\ IsInjective(after') /\ Range(after') = Range(after) \cup {w}
    BY <1>3, <1>4, AppendNew
  <1>6. WorkTypeOK'
    BY <1>1, <1>2, <1>5 DEF WorkTypeOK
  <1>7. Placed'
    BY <1>1, <1>2, <1>5 DEF WorkTypeOK, Placed
  <1>8. OwnerWaits'
    BY <1>1 DEF WorkTypeOK, OwnerWaits
  <1>9. \A v \in Works : Pending(v)' = Pending(v) /\ (req'[v] = "finished" <=> req[v] = "finished")
    BY <1>1 DEF WorkTypeOK, Pending
  <1> QED  BY <1>1, <1>6, <1>7, <1>8, <1>9

\* A pool thread takes the first work that was not started.
LEMMA ExecuteStep ==
    ASSUME WorkInv, NEW p \in PoolThreads, AsyncWorkCallback(p)
    PROVE  WorkInv'
  <1> USE DEF WorkInv, ToldOnceWhatHappened, AsyncWorkCallback
  <1> DEFINE w == Head(pool)
  <1>1. WorkTypeOK /\ Placed
    OBVIOUS
  <1>2. /\ w \in Range(pool) /\ pool' \in Seq(Works) /\ IsInjective(pool')
        /\ Range(pool') = Range(pool) \ {w}
    BY <1>1, TakeFirst DEF WorkTypeOK, Placed
  <1>3. w \in Works /\ req[w] = "queued"
    BY <1>1, <1>2, HeadTailProperties DEF WorkTypeOK, Placed
  <1> HIDE DEF w
  <1>4. /\ running' = [running EXCEPT ![p] = w]
        /\ req' = [req EXCEPT ![w] = "running"]
        /\ after' = after
    BY DEF w
  <1>moved. /\ \A v \in Works : req'[v] = IF v = w THEN "running" ELSE req[v]
         /\ \A q \in PoolThreads : running'[q] = IF q = p THEN w ELSE running[q]
    BY <1>1, <1>4 DEF WorkTypeOK
  <1>unread. ~freedRead /\ ~freedRead' /\ freedRead' \in BOOLEAN
    <2>1. ~freedRead /\ ~freedRead'
      BY <1>3 DEF OwnerWaits, Reads, w
    <2>2. freedRead' \in BOOLEAN
      BY Zenon DEF Reads, w
    <2> QED  BY <2>1, <2>2
  <1>5. WorkTypeOK'
    BY <1>1, <1>2, <1>3, <1>4, <1>unread DEF WorkTypeOK
  <1>6. Placed'
    <2>1. \A v \in Works :
             /\ v \in Range(pool') <=> req'[v] = "queued"
             /\ v \in Range(after') <=> req'[v] \in {"finished", "cancelled"}
      <3>1. \A v \in Works : v \in Range(pool') <=> v \in Range(pool) /\ v # w
        BY <1>2
      <3>2. \A v \in Works : v \in Range(after') <=> v \in Range(after)
        BY <1>4
      <3>3. \A v \in Works : /\ v \in Range(pool) <=> req[v] = "queued"
                             /\ v \in Range(after) <=> req[v] \in {"finished", "cancelled"}
        BY <1>1 DEF Placed
      <3> QED  BY <1>3, <1>moved, <3>1, <3>2, <3>3
    <2>2. \A q \in PoolThreads : running[q] # w
      BY <1>3, WorkAssumption DEF Placed
    <2>3. \A q \in PoolThreads : running'[q] # NoWork => req'[running'[q]] = "running"
      <3>1. \A q \in PoolThreads : running[q] \in Works \cup {NoWork}
        BY <1>1 DEF WorkTypeOK
      <3>2. \A q \in PoolThreads : running[q] # NoWork => req[running[q]] = "running"
        BY <1>1 DEF Placed
      <3> QED  BY <1>3, <1>moved, <2>2, <3>1, <3>2
    <2>4. \A q, r \in PoolThreads :
             running'[q] = running'[r] /\ running'[q] # NoWork => q = r
      BY <1>1, <1>3, <1>4, <2>2 DEF WorkTypeOK, Placed
    <2>5. IsInjective(pool') /\ IsInjective(after')
      BY <1>2 DEF Placed
    <2> QED  BY <2>1, <2>3, <2>4, <2>5 DEF Placed
  <1>7. OwnerWaits'
    BY <1>1, <1>3, <1>4, <1>unread DEF WorkTypeOK, OwnerWaits
  <1>8. \A v \in Works : Pending(v)' = Pending(v) /\ (req'[v] = "finished" <=> req[v] = "finished")
    BY <1>1, <1>3, <1>4 DEF WorkTypeOK, Pending
  <1> QED  BY <1>1, <1>5, <1>6, <1>7, <1>8

\* execute_ has returned: the work waits for the loop.
LEMMA ExecuteReturnsStep ==
    ASSUME WorkInv, NEW p \in PoolThreads, ExecuteReturns(p)
    PROVE  WorkInv'
  <1> USE DEF WorkInv, ToldOnceWhatHappened, ExecuteReturns
  <1> DEFINE w == running[p]
  <1>1. WorkTypeOK /\ Placed
    OBVIOUS
  <1>2. w \in Works /\ req[w] = "running" /\ w \notin Range(after)
    <2>1. w \in Works
      BY <1>1 DEF WorkTypeOK
    <2>2. req[w] = "running"
      BY <1>1 DEF Placed
    <2> QED  BY <1>1, <2>1, <2>2 DEF Placed
  <1>3. after' \in Seq(Works) /\ IsInjective(after') /\ Range(after') = Range(after) \cup {w}
    BY <1>1, <1>2, AppendNew DEF WorkTypeOK, Placed
  <1>4. ran[w] < queued[w] /\ queued[w] <= MaxQueues /\ ran[w] = Cardinality(ToldOk(told[w]))
    <2>1. queued[w] = Len(told[w]) + 1 /\ ran[w] = Cardinality(ToldOk(told[w])) + 0
      BY <1>2 DEF Pending
    <2>2. Cardinality(ToldOk(told[w])) \in 0 .. Len(told[w]) /\ Len(told[w]) \in Nat
      BY <1>1, <1>2, ToldOkBound, LenProperties DEF WorkTypeOK
    <2>3. queued[w] \in 0 .. MaxQueues
      BY <1>1, <1>2 DEF WorkTypeOK
    <2> QED  BY <2>1, <2>2, <2>3, WorkAssumption
  <1>5. ran' \in [Works -> 0 .. MaxQueues]
    <2>1. ran[w] \in 0 .. MaxQueues /\ queued[w] \in 0 .. MaxQueues
      BY <1>1, <1>2 DEF WorkTypeOK
    <2>2. ran[w] + 1 \in 0 .. MaxQueues
      BY <1>4, <2>1, WorkAssumption
    <2> QED  BY <1>1, <1>2, <2>2 DEF WorkTypeOK
  <1>6. WorkTypeOK'
    BY <1>1, <1>2, <1>3, <1>5 DEF WorkTypeOK
  <1>7. Placed'
    BY <1>1, <1>2, <1>3 DEF WorkTypeOK, Placed
  <1>8. OwnerWaits'
    BY <1>1, <1>2 DEF WorkTypeOK, OwnerWaits
  <1>9. ASSUME NEW v \in Works
        PROVE  /\ queued'[v] = Len(told'[v]) + Pending(v)'
               /\ ran'[v] = Cardinality(ToldOk(told'[v]))
                              + (IF req'[v] = "finished" THEN 1 ELSE 0)
    <2>1. CASE v = w
      BY <1>1, <1>2, <1>4, <2>1 DEF WorkTypeOK, Pending
    <2>2. CASE v # w
      BY <1>1, <1>2, <2>2 DEF WorkTypeOK, Pending
    <2> QED  BY <2>1, <2>2
  <1> QED  BY <1>6, <1>7, <1>8, <1>9

\* The loop completes the first work: what it is told accounts for its last queueing.
LEMMA AfterWorkStep ==
    ASSUME WorkInv, AsyncAfterWorkCallback
    PROVE  WorkInv'
  <1> USE DEF WorkInv, ToldOnceWhatHappened, AsyncAfterWorkCallback
  <1> DEFINE w == Head(after)
             told_w == Append(told[w], AfterWorkStatus(w))
  <1>1. WorkTypeOK /\ Placed
    OBVIOUS
  <1>2. /\ w \in Range(after) /\ after' \in Seq(Works) /\ IsInjective(after')
        /\ Range(after') = Range(after) \ {w}
    BY <1>1, TakeFirst DEF WorkTypeOK, Placed
  <1>3. w \in Works /\ req[w] \in {"finished", "cancelled"}
    BY <1>1, <1>2, HeadTailProperties DEF WorkTypeOK, Placed
  <1>4. /\ told_w \in Seq({"napi_ok", "napi_cancelled"})
        /\ Len(told_w) = Len(told[w]) + 1
        /\ Cardinality(ToldOk(told_w))
             = Cardinality(ToldOk(told[w])) + (IF req[w] = "finished" THEN 1 ELSE 0)
    <2>1. AfterWorkStatus(w) \in {"napi_ok", "napi_cancelled"}
      BY DEF AfterWorkStatus
    <2>2. AfterWorkStatus(w) = "napi_ok" <=> req[w] = "finished"
      BY <1>3 DEF AfterWorkStatus
    <2>3. told[w] \in Seq({"napi_ok", "napi_cancelled"})
      BY <1>1, <1>3 DEF WorkTypeOK
    <2> QED  BY <2>1, <2>2, <2>3, ToldOneMore
  <1> HIDE DEF w, told_w
  <1>5. /\ completing' = w
        /\ req' = [req EXCEPT ![w] = "idle"]
        /\ told' = [told EXCEPT ![w] = told_w]
    BY DEF w, told_w
  <1>moved. \A v \in Works : req'[v] = IF v = w THEN "idle" ELSE req[v]
    BY <1>1, <1>5 DEF WorkTypeOK
  <1>unread. ~freedRead /\ ~freedRead' /\ freedRead' \in BOOLEAN
    <2>1. ~freedRead /\ ~freedRead'
      BY <1>3 DEF OwnerWaits, Reads, w
    <2>2. freedRead' \in BOOLEAN
      BY Zenon DEF Reads, w
    <2> QED  BY <2>1, <2>2
  <1>6. WorkTypeOK'
    <2>1. told' \in [Works -> Seq({"napi_ok", "napi_cancelled"})]
      BY <1>1, <1>3, <1>4, <1>5 DEF WorkTypeOK
    <2>2. /\ req' \in [Works -> {"idle", "queued", "running", "finished", "cancelled"}]
          /\ completing' \in Works \cup {NoWork}
      BY <1>1, <1>3, <1>5 DEF WorkTypeOK
    <2>3. after' \in Seq(Works)
      BY <1>2
    <2>4. UNCHANGED <<object, pool, running, queued, ran>>
      OBVIOUS
    <2> QED  BY <1>1, <1>unread, <2>1, <2>2, <2>3, <2>4 DEF WorkTypeOK
  <1>7. Placed'
    <2>1. \A v \in Works :
             /\ v \in Range(pool) <=> req'[v] = "queued"
             /\ v \in Range(after') <=> req'[v] \in {"finished", "cancelled"}
      <3>1. \A v \in Works : v \in Range(after') <=> v \in Range(after) /\ v # w
        BY <1>2
      <3>2. \A v \in Works : /\ v \in Range(pool) <=> req[v] = "queued"
                             /\ v \in Range(after) <=> req[v] \in {"finished", "cancelled"}
        BY <1>1 DEF Placed
      <3> QED  BY <1>3, <1>moved, <3>1, <3>2
    <2>2. \A q \in PoolThreads : running[q] # NoWork => req'[running[q]] = "running"
      <3>1. \A q \in PoolThreads : running[q] \in Works \cup {NoWork}
        BY <1>1 DEF WorkTypeOK
      <3>2. \A q \in PoolThreads : running[q] # NoWork => req[running[q]] = "running"
        BY <1>1 DEF Placed
      <3> QED  BY <1>3, <1>moved, <3>1, <3>2
    <2>3. UNCHANGED <<pool, running>>
      OBVIOUS
    <2> QED  BY <1>1, <1>2, <2>1, <2>2, <2>3 DEF Placed
  <1>8. OwnerWaits'
    BY <1>1, <1>3, <1>5, <1>unread DEF WorkTypeOK, OwnerWaits
  <1>9. ASSUME NEW v \in Works
        PROVE  /\ queued'[v] = Len(told'[v]) + Pending(v)'
               /\ ran'[v] = Cardinality(ToldOk(told'[v]))
                              + (IF req'[v] = "finished" THEN 1 ELSE 0)
    <2>1. CASE v = w
      <3>1. /\ queued[w] = Len(told[w]) + 1
            /\ ran[w] = Cardinality(ToldOk(told[w])) + (IF req[w] = "finished" THEN 1 ELSE 0)
        BY <1>3 DEF Pending
      <3>2. told'[w] = told_w /\ req'[w] = "idle"
        BY <1>1, <1>3, <1>5 DEF WorkTypeOK
      <3>3. /\ Len(told[w]) \in Nat
            /\ Cardinality(ToldOk(told[w])) \in Nat
        BY <1>1, <1>3, ToldOkBound, LenProperties DEF WorkTypeOK
      <3>4. queued'[w] = Len(told_w) /\ ran'[w] = Cardinality(ToldOk(told_w))
        BY <1>4, <3>1, <3>3
      <3>5. Pending(v)' = 0
        BY <2>1, <3>2 DEF Pending
      <3>6. Len(told_w) \in Nat /\ Cardinality(ToldOk(told_w)) \in Nat
        BY <1>4, <3>3
      <3> QED  BY ONLY <2>1, <3>2, <3>4, <3>5, <3>6
    <2>2. CASE v # w
      <3>1. told'[v] = told[v] /\ req'[v] = req[v] /\ UNCHANGED <<queued, ran>>
        BY <1>1, <1>3, <1>5, <2>2 DEF WorkTypeOK
      <3> QED  BY <3>1 DEF Pending
    <2> QED  BY <2>1, <2>2
  <1> QED  BY <1>6, <1>7, <1>8, <1>9

\* The invariant is inductive.
LEMMA WorkStep == WorkInv /\ [WorkNext]_workVars => WorkInv'
  <1> SUFFICES ASSUME WorkInv, [WorkNext]_workVars PROVE WorkInv'
    OBVIOUS
  <1>1. ASSUME NEW w \in Works, Create(w) PROVE WorkInv'
    BY <1>1 DEF WorkInv, ToldOnceWhatHappened, WorkTypeOK, Placed, OwnerWaits, Pending, Create
  <1>2. ASSUME NEW w \in Works, Queue(w) PROVE WorkInv'
    BY <1>2, QueueStep
  <1>3. ASSUME NEW w \in Works, Cancel(w) PROVE WorkInv'
    BY <1>3, CancelStep
  <1>4. ASSUME NEW w \in Works, Delete(w) PROVE WorkInv'
    <2>1. req[w] = "idle"
      BY <1>4, AnsweredIsIdle DEF Delete
    <2> QED
      BY <1>4, <2>1 DEF WorkInv, ToldOnceWhatHappened, WorkTypeOK, Placed, OwnerWaits, Pending, Delete
  <1>5. ASSUME NEW p \in PoolThreads, AsyncWorkCallback(p) PROVE WorkInv'
    BY <1>5, ExecuteStep
  <1>6. ASSUME NEW p \in PoolThreads, ExecuteReturns(p) PROVE WorkInv'
    BY <1>6, ExecuteReturnsStep
  <1>7. CASE AsyncAfterWorkCallback
    BY <1>7, AfterWorkStep
  <1>8. CASE CompleteReturns
    BY <1>8 DEF WorkInv, ToldOnceWhatHappened, WorkTypeOK, Placed, OwnerWaits, Pending,
                CompleteReturns
  <1>9. CASE UNCHANGED workVars
    BY <1>9 DEF WorkInv, ToldOnceWhatHappened, WorkTypeOK, Placed, OwnerWaits, Pending, workVars
  <1> QED
    BY <1>1, <1>2, <1>3, <1>4, <1>5, <1>6, <1>7, <1>8, <1>9 DEF WorkNext, UserCode, Pool

\* It holds of every behaviour.
LEMMA WorkInvariant == WorkSpec => []WorkInv
  BY WorkInitInv, WorkStep, PTL DEF WorkSpec

-----------------------------------------------------------------------------
\* Each accepted napi_queue_async_work is completed at most once and then by the
\* status that is true, however cancels and pool threads race.
THEOREM CompletedOnceTruly == WorkSpec => []ToldOnceWhatHappened
  BY WorkInvariant, PTL DEF WorkInv

\* A work that its owner deletes once complete_ was called for each queueing is in
\* none of libuv's lists, and no callback has read it or will.
THEOREM DeletedWorkUntouched == WorkSpec => []DeletedUntouched
  <1>1. WorkInv => DeletedUntouched
    <2> SUFFICES ASSUME WorkInv
                 PROVE  ~freedRead /\ \A w \in InUse \ {NoWork} : object[w] = "live"
      BY DEF DeletedUntouched
    <2>1. ASSUME NEW w \in InUse \ {NoWork} PROVE object[w] = "live"
      <3>1. w \in Works
        BY <2>1, RangeOfSeq DEF WorkInv, ToldOnceWhatHappened, WorkTypeOK, InUse
      <3>2. req[w] # "idle"
        BY <2>1, <3>1 DEF WorkInv, Placed, InUse
      <3> QED  BY <3>1, <3>2 DEF WorkInv, OwnerWaits
    <2> QED  BY <2>1 DEF WorkInv, OwnerWaits
  <1> QED  BY <1>1, WorkInvariant, PTL
=============================================================================
