---------------------------- MODULE WorkerChannel ----------------------------
(***************************************************************************)
(* The message channel of a worker's engine: NativeEngine::InitAsyncWork,   *)
(* SendAsyncWork and CloseAsyncWork (native_engine.cpp) over the Init,      *)
(* Send, PopData, AsyncWorkRecvCallback and Close of a NativeAsyncWork      *)
(* (native_async_work.cpp).  Any thread sends; the worker's loop receives,  *)
(* and the callbacks it runs may send and close themselves.                 *)
(*                                                                          *)
(* InitAsyncWork publishes the object before it initialises the uv_async_t: *)
(* a send in between pushes its message and signals memory that is not a    *)
(* handle yet; if the process survives it, uv_async_init resets the signal. *)
(***************************************************************************)
EXTENDS Naturals, Sequences

CONSTANTS
    Senders,     \* threads that send, the worker itself apart
    Worker,      \* the worker, when its callbacks send
    MaxSends     \* bound: messages each of them sends

ASSUME ChannelAssumption == MaxSends \in Nat /\ Worker \notin Senders

VARIABLES
    worker,     \* asyncWorker_: "null", "published", "open", "closed"
    data,       \* asyncWorkRecvData_
    pending,    \* workAsyncHandler_ is signalled
    recv,       \* where AsyncWorkRecvCallback is
    sent,       \* calls of SendAsyncWork by each sender
    accepted,   \* ghost: messages for which SendAsyncWork said true
    executed,   \* ghost: messages given to execute_
    early       \* ghost: nothing was signalled since a send before uv_async_init

channelVars == <<worker, data, pending, recv, sent, accepted, executed, early>>

Parties == Senders \cup {Worker}
Messages == Parties \X (1 .. MaxSends)

ChannelTypeOK ==
    /\ worker \in {"null", "published", "open", "closed"}
    /\ data \in Seq(Messages)
    /\ pending \in BOOLEAN
    /\ recv \in {"poll", "pop", "execute", "complete"}
    /\ sent \in [Parties -> 0 .. MaxSends]
    /\ accepted \in Seq(Messages)
    /\ executed \in Seq(Messages)
    /\ early \in BOOLEAN

ChannelInit ==
    /\ worker = "null"
    /\ data = <<>>
    /\ pending = FALSE
    /\ recv = "poll"
    /\ sent = [t \in Parties |-> 0]
    /\ accepted = <<>>
    /\ executed = <<>>
    /\ early = FALSE
-----------------------------------------------------------------------------
\* InitAsyncWork: make_unique, then Init.
InitAsyncWork ==
    /\ worker = "null"
    /\ worker' = "published"
    /\ UNCHANGED <<data, pending, recv, sent, accepted, executed, early>>

InitHandle ==
    /\ worker = "published"
    /\ worker' = "open"
    /\ pending' = FALSE
    /\ UNCHANGED <<data, recv, sent, accepted, executed, early>>

\* The worker's user code: a task of its own, or a callback of the channel.
InWorkerCode == recv # "pop" /\ worker # "published"

\* MUTANT: only the message that finds the queue empty is signalled.
Signal_ifEmpty ==
    /\ pending' = (pending \/ (worker = "open" /\ data = <<>>))
    /\ early' = ((early /\ worker # "open") \/ worker = "published")

\* uv_async_send, in the critical section of Send.
Signal ==
    /\ pending' = (pending \/ worker = "open")
    /\ early' = ((early /\ worker # "open") \/ worker = "published")

\* A closed channel still takes messages, and SendAsyncWork says true.
SendAsyncWork(t) ==
    /\ sent[t] < MaxSends
    /\ t = Worker => InWorkerCode
    /\ sent' = [sent EXCEPT ![t] = @ + 1]
    /\ IF worker = "null"
         THEN UNCHANGED <<data, pending, accepted, early>>
         ELSE /\ data' = Append(data, <<t, sent'[t]>>)
              /\ accepted' = Append(accepted, <<t, sent'[t]>>)
              /\ Signal
    /\ UNCHANGED <<worker, recv, executed>>

\* uv_is_active, uv_close: the handle's callback does not run any more.
CloseAsyncWork ==
    /\ InWorkerCode
    /\ worker = "open"
    /\ worker' = "closed"
    /\ pending' = FALSE
    /\ UNCHANGED <<data, recv, sent, accepted, executed, early>>
-----------------------------------------------------------------------------
\* AsyncWorkRecvCallback starts.
RecvCallback ==
    /\ recv = "poll"
    /\ worker = "open"
    /\ pending
    /\ pending' = FALSE
    /\ recv' = "pop"
    /\ UNCHANGED <<worker, data, sent, accepted, executed, early>>

\* MUTANT: one message per signal.
RecvCompleteReturns_once ==
    /\ recv = "complete"
    /\ recv' = "poll"
    /\ UNCHANGED <<worker, data, pending, sent, accepted, executed, early>>

\* MUTANT: the queue is emptied with its first message.
PopData_clears ==
    /\ recv = "pop"
    /\ IF data = <<>>
         THEN recv' = "poll" /\ UNCHANGED <<data, executed>>
         ELSE /\ executed' = Append(executed, Head(data))
              /\ data' = <<>>
              /\ recv' = "execute"
    /\ UNCHANGED <<worker, pending, sent, accepted, early>>

\* PopData, and execute_ when there was a message.
PopData ==
    /\ recv = "pop"
    /\ IF data = <<>>
         THEN recv' = "poll" /\ UNCHANGED <<data, executed>>
         ELSE /\ executed' = Append(executed, Head(data))
              /\ data' = Tail(data)
              /\ recv' = "execute"
    /\ UNCHANGED <<worker, pending, sent, accepted, early>>

RecvExecuteReturns ==
    /\ recv = "execute"
    /\ recv' = "complete"
    /\ UNCHANGED <<worker, data, pending, sent, accepted, executed, early>>

RecvCompleteReturns ==
    /\ recv = "complete"
    /\ recv' = "pop"
    /\ UNCHANGED <<worker, data, pending, sent, accepted, executed, early>>

AsyncWorkRecvCallback == RecvCallback \/ PopData \/ RecvExecuteReturns \/ RecvCompleteReturns

ChannelNext ==
    \/ InitAsyncWork \/ InitHandle \/ CloseAsyncWork
    \/ \E t \in Parties : SendAsyncWork(t)
    \/ AsyncWorkRecvCallback

ChannelSpec == ChannelInit /\ [][ChannelNext]_channelVars

\* The worker runs its loop, and its callbacks return.
ChannelFairness ==
    /\ WF_channelVars(RecvCallback) /\ WF_channelVars(PopData)
    /\ WF_channelVars(RecvExecuteReturns) /\ WF_channelVars(RecvCompleteReturns)

ChannelFairSpec == ChannelSpec /\ ChannelFairness
-----------------------------------------------------------------------------
(* Properties *)

\* Accepted messages are executed once each and in the order of acceptance,
\* those a callback sends to its own worker included, whatever Close does, and
\* nothing else is taken from the queue (the type invariant).
InOrderOnce == ChannelTypeOK /\ accepted = executed \o data

\* A message in an open channel is always announced: by the signal, or by the
\* callback that will look into the queue again before it returns -- unless all
\* it had was a signal from before uv_async_init.
MessageIsAnnounced ==
    (worker = "open" /\ data # <<>>) => pending \/ recv # "poll" \/ early

\* An early message waits for the next send at most, and one that is sent to an
\* open channel is executed unless the channel is closed.
MessageIsExecuted ==
    \A m \in Messages :
        (worker = "open" /\ ~early /\ \E n \in DOMAIN data : data[n] = m)
            ~> ((\E n \in DOMAIN executed : executed[n] = m) \/ worker = "closed")
=============================================================================
