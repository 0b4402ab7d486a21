---------------------------- MODULE CleanupHooks ----------------------------
(***************************************************************************)
(* Environment clean-up hooks: NativeEngine::AddCleanupHook,                *)
(* RemoveCleanupHook and RunCleanup (native_engine/native_engine.cpp) with  *)
(* the asynchronous hooks native_node_api.cpp builds on them.               *)
(*                                                                          *)
(* Everything happens on the JavaScript thread, but hooks are user code:    *)
(* RunCleanup is a loop over a snapshot in whose middle hooks, and the      *)
(* callbacks uv_run makes while asynchronous hooks are awaited, add and     *)
(* remove hooks.  An asynchronous hook is entered in cleanup_hooks_ under   *)
(* the address of its AsyncCleanupHookInfo; the elements of AsyncHooks are  *)
(* those addresses.                                                         *)
(***************************************************************************)
EXTENDS Naturals, Sequences, FiniteSets, SequencesExt

CONSTANTS
    SyncHooks,     \* (function, argument) pairs of synchronous hooks
    AsyncHooks,    \* addresses of AsyncCleanupHookInfo objects
    ReusedKeys,    \* keys that may be registered again while their hook runs
                   \* (the hook registers itself, or the allocator reuses the
                   \* address of an asynchronous hook that is finished)
    NoHook,        \* "no hook is running"
    MaxAdds        \* bound: calls of AddCleanupHook

ASSUME HooksAssumption ==
    /\ SyncHooks \cap AsyncHooks = {}
    /\ IsFiniteSet(SyncHooks)
    /\ IsFiniteSet(AsyncHooks)
    /\ ReusedKeys \subseteq SyncHooks \cup AsyncHooks
    /\ MaxAdds \in Nat
    /\ NoHook \notin [id : SyncHooks \cup AsyncHooks, order : 0 .. MaxAdds]

VARIABLES
    cleanup_hooks,     \* a set of [id, order], ids are unique
    counter,           \* cleanup_hook_counter_
    request_waiting,   \* request_waiting_
    async,             \* what became of an asynchronous hook
    phase,             \* how far RunCleanup has come
    callbacks,         \* the rest of its snapshot, most recent hook first
    current,           \* the hook that is running
    snapshotEnd,       \* ghost: counter when the snapshot was taken
    owed               \* ghost: hooks entered and neither run nor removed since

vars == <<cleanup_hooks, counter, request_waiting, async, phase, callbacks,
          current, snapshotEnd, owed>>

Ids == SyncHooks \cup AsyncHooks
Entries == [id : Ids, order : 0 .. MaxAdds]

TypeOK ==
    /\ cleanup_hooks \subseteq Entries
    /\ \A c, d \in cleanup_hooks : c.id = d.id => c = d
    /\ counter \in 0 .. MaxAdds
    /\ request_waiting \in 0 .. Cardinality(AsyncHooks)
    /\ async \in [AsyncHooks -> {"none", "registered", "started", "removed"}]
    /\ phase \in {"running", "handles", "batch", "hook", "done"}
    /\ callbacks \in Seq(Entries)
    /\ current \in Entries \cup {NoHook}
    /\ snapshotEnd \in 0 .. MaxAdds
    /\ owed \subseteq Ids

Init ==
    /\ cleanup_hooks = {}
    /\ counter = 0
    /\ request_waiting = 0
    /\ async = [a \in AsyncHooks |-> "none"]
    /\ phase = "running"
    /\ callbacks = <<>>
    /\ current = NoHook
    /\ snapshotEnd = 0
    /\ owed = {}
-----------------------------------------------------------------------------
Registered(id) == \E c \in cleanup_hooks : c.id = id

\* User code runs before the clean-up, inside a hook, and inside uv_run.
UserCode == phase \in {"running", "hook"} \/ (phase = "handles" /\ request_waiting > 0)

\* cleanup_hooks_.emplace: a key that is present is not entered again, yet the
\* counter has moved and the caller is told napi_ok.
AddCleanupHook(id) ==
    /\ counter < MaxAdds
    /\ counter' = counter + 1
    /\ IF Registered(id)
         THEN UNCHANGED <<cleanup_hooks, owed>>
         ELSE /\ cleanup_hooks' = cleanup_hooks \cup {[id |-> id, order |-> counter]}
              /\ owed' = owed \cup {id}

\* cleanup_hooks_.erase
RemoveCleanupHook(id) ==
    /\ cleanup_hooks' = {c \in cleanup_hooks : c.id # id}
    /\ owed' = owed \ {id}

\* A key may be (re)used now.
MayRegister(id) == (phase = "hook" /\ id \notin ReusedKeys) => current.id # id

AddHook(id) ==
    /\ UserCode
    /\ MayRegister(id)
    /\ AddCleanupHook(id)
    /\ UNCHANGED <<request_waiting, async, phase, callbacks, current, snapshotEnd>>

RemoveHook(id) ==
    /\ UserCode
    /\ RemoveCleanupHook(id)
    /\ UNCHANGED <<counter, request_waiting, async, phase, callbacks, current, snapshotEnd>>

\* napi_add_async_cleanup_hook: a new info, at an address no live info has.
AddAsyncHook(a) ==
    /\ UserCode
    /\ async[a] = "none" \/ (a \in ReusedKeys /\ async[a] = "removed")
    /\ MayRegister(a)
    /\ AddCleanupHook(a)
    /\ async' = [async EXCEPT ![a] = "registered"]
    /\ UNCHANGED <<request_waiting, phase, callbacks, current, snapshotEnd>>

\* MUTANT: the request is counted down although the hook has not started.
RemoveAsyncHook_countsDown(a) ==
    /\ UserCode
    /\ async[a] \in {"registered", "started"}
    /\ async' = [async EXCEPT ![a] = "removed"]
    /\ RemoveCleanupHook(a)
    /\ request_waiting' = request_waiting - 1
    /\ UNCHANGED <<counter, phase, callbacks, current, snapshotEnd>>

\* napi_remove_async_cleanup_hook deletes the handle: a hook that has not
\* started is unregistered, one that has is finished by its done callback.
RemoveAsyncHook(a) ==
    /\ UserCode
    /\ async' = [async EXCEPT ![a] = "removed"]
    /\ \/ /\ async[a] = "registered"
          /\ RemoveCleanupHook(a)
          /\ UNCHANGED request_waiting
       \/ /\ async[a] = "started"
          /\ request_waiting' = request_waiting - 1
          /\ UNCHANGED <<cleanup_hooks, owed>>
    /\ UNCHANGED <<counter, phase, callbacks, current, snapshotEnd>>
-----------------------------------------------------------------------------
(* RunCleanup *)

StartCleanup ==
    /\ phase = "running"
    /\ phase' = "handles"
    /\ UNCHANGED <<cleanup_hooks, counter, request_waiting, async, callbacks,
                   current, snapshotEnd, owed>>

\* MUTANT: the hooks are sorted in ascending order.
Snapshots_ascending ==
    {s \in SetToSeqs(cleanup_hooks) :
        \A i, j \in DOMAIN s : i < j => s[i].order < s[j].order}

\* The sequences std::sort may make of the copy (one: no two orders are equal):
\* the most recently inserted callbacks are run first.
Snapshots ==
    {s \in SetToSeqs(cleanup_hooks) :
        \A i, j \in DOMAIN s : i < j => s[i].order > s[j].order}

\* CleanupHandles left its loop: RunCleanup evaluates its while, and copies and
\* sorts the hooks.
CleanupHandlesDone ==
    /\ phase = "handles"
    /\ request_waiting = 0
    /\ IF cleanup_hooks = {}
         THEN /\ phase' = "done"
              /\ UNCHANGED <<callbacks, snapshotEnd>>
         ELSE /\ phase' = "batch"
              /\ callbacks' \in Snapshots
              /\ snapshotEnd' = counter
    /\ UNCHANGED <<cleanup_hooks, counter, request_waiting, async, current, owed>>

\* The hook was removed by another hook of the batch.
SkipHook ==
    /\ phase = "batch"
    /\ callbacks # <<>>
    /\ ~Registered(Head(callbacks).id)
    /\ callbacks' = Tail(callbacks)
    /\ UNCHANGED <<cleanup_hooks, counter, request_waiting, async, phase,
                   current, snapshotEnd, owed>>

\* cb.fn_(cb.arg_) is called; RunAsyncCleanupHook counts its request first.
RunHook ==
    /\ phase = "batch"
    /\ callbacks # <<>>
    /\ Registered(Head(callbacks).id)
    /\ current' = Head(callbacks)
    /\ callbacks' = Tail(callbacks)
    /\ phase' = "hook"
    /\ owed' = owed \ {Head(callbacks).id}
    /\ LET id == Head(callbacks).id
       IN  IF id \in AsyncHooks
             THEN /\ request_waiting' = request_waiting + 1
                  /\ async' = [async EXCEPT ![id] = "started"]
             ELSE UNCHANGED <<request_waiting, async>>
    /\ UNCHANGED <<cleanup_hooks, counter, snapshotEnd>>

\* MUTANT: the entry is not erased.
HookReturns_keeps ==
    /\ phase = "hook"
    /\ phase' = "batch"
    /\ current' = NoHook
    /\ UNCHANGED <<cleanup_hooks, counter, request_waiting, async, callbacks,
                   snapshotEnd, owed>>

\* cleanup_hooks_.erase(cb), by key: also what was entered under it meanwhile.
HookReturns ==
    /\ phase = "hook"
    /\ phase' = "batch"
    /\ cleanup_hooks' = {c \in cleanup_hooks : c.id # current.id}
    /\ current' = NoHook
    /\ UNCHANGED <<counter, request_waiting, async, callbacks, snapshotEnd, owed>>

\* MUTANT: the set is emptied after the batch.
BatchDone_clears ==
    /\ phase = "batch"
    /\ callbacks = <<>>
    /\ phase' = "handles"
    /\ cleanup_hooks' = {}
    /\ UNCHANGED <<counter, request_waiting, async, callbacks, current,
                   snapshotEnd, owed>>

BatchDone ==
    /\ phase = "batch"
    /\ callbacks = <<>>
    /\ phase' = "handles"
    /\ UNCHANGED <<cleanup_hooks, counter, request_waiting, async, callbacks,
                   current, snapshotEnd, owed>>

RunCleanup ==
    \/ StartCleanup \/ CleanupHandlesDone \/ SkipHook \/ RunHook
    \/ HookReturns \/ BatchDone

Next ==
    \/ RunCleanup
    \/ \E id \in SyncHooks : AddHook(id) \/ RemoveHook(id)
    \/ \E a \in AsyncHooks : AddAsyncHook(a) \/ RemoveAsyncHook(a)

Spec == Init /\ [][Next]_vars

\* The clean-up code runs, hooks return, and the owner of an asynchronous hook
\* that has started removes it in the end (the contract of these hooks).
Fairness ==
    /\ WF_vars(CleanupHandlesDone) /\ WF_vars(SkipHook) /\ WF_vars(RunHook)
    /\ WF_vars(HookReturns) /\ WF_vars(BatchDone)
    /\ \A a \in AsyncHooks : WF_vars(async[a] = "started" /\ RemoveAsyncHook(a))

FairSpec == Spec /\ Fairness
-----------------------------------------------------------------------------
(* Properties *)

\* request_waiting_ counts the asynchronous hooks that started and have not
\* finished, wherever in RunCleanup they are removed (and every variable keeps
\* its type).
WaitingMatchesStarted ==
    /\ TypeOK
    /\ request_waiting = Cardinality({a \in AsyncHooks : async[a] = "started"})

\* A hook that was entered stays entered until it runs or is removed (unless
\* its key was registered again while its own hook ran: RunCleanup erases by
\* key); so when RunCleanup returns no hook is left and no asynchronous hook is
\* working, although hooks and loop callbacks kept adding hooks meanwhile.
NoHookLost ==
    /\ \A id \in owed \ ReusedKeys : Registered(id)
    /\ phase = "done" =>
           cleanup_hooks = {} /\ \A a \in AsyncHooks : async[a] # "started"

\* A hook runs only when it is owed a run, never twice for one registration nor
\* after it was removed, though it is still in the snapshot; and no hook of the
\* snapshot that is still entered was inserted after it.
RunsInTurn ==
    [][phase' = "hook" /\ phase # "hook" =>
         /\ current'.id \in owed
         /\ \A c \in cleanup_hooks' :
               c.id # current'.id => ~(current'.order < c.order /\ c.order < snapshotEnd')]_vars

\* RunCleanup returns if started asynchronous hooks are removed in the end.
CleanupTerminates == phase = "handles" ~> phase = "done"
=============================================================================
