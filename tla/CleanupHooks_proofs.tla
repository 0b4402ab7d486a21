------------------------ MODULE CleanupHooks_proofs ------------------------
(***************************************************************************)
(* Proofs about CleanupHooks, for every set of hooks and any number of      *)
(* registrations.                                                          *)
(***************************************************************************)
EXTENDS CleanupHooks, SequenceTheorems, FiniteSetTheorems, TLAPS

\* The entry of a hook that is running will be erased when the hook returns.
Running(id) == phase = "hook" /\ current.id = id

\* The entries are finitely many, and older than the counter.
EntriesInv ==
    /\ IsFiniteSet(cleanup_hooks)
    /\ \A c \in cleanup_hooks : c.order < counter
    /\ snapshotEnd <= counter
    /\ phase = "hook" <=> current # NoHook

\* What an entry says: its hook has not started, and is owed a run.
OwedInv ==
    /\ \A a \in AsyncHooks : Registered(a) /\ ~Running(a) => async[a] = "registered"
    /\ \A id \in Ids : Registered(id) /\ ~Running(id) => id \in owed
    /\ \A id \in owed \ ReusedKeys : Registered(id) /\ ~Running(id)

\* What is left of the snapshot: all its entries that are still there, the
\* youngest first.
SnapshotInv ==
    /\ \A i, j \in DOMAIN callbacks : i < j => callbacks[i].order > callbacks[j].order
    /\ phase \in {"batch", "hook"} =>
           \A c \in cleanup_hooks :
               c.order < snapshotEnd /\ ~Running(c.id) => c \in Range(callbacks)

HookInv == WaitingMatchesStarted /\ NoHookLost /\ EntriesInv /\ OwedInv /\ SnapshotInv

Started == {a \in AsyncHooks : async[a] = "started"}
-----------------------------------------------------------------------------
(* The snapshot *)

\* The snapshot RunCleanup works through holds every entry.
LEMMA SnapshotComplete ==
    ASSUME IsFiniteSet(cleanup_hooks), NEW s \in Snapshots
    PROVE  /\ s \in Seq(cleanup_hooks)
           /\ Range(s) = cleanup_hooks
           /\ \A i, j \in DOMAIN s : i < j => s[i].order > s[j].order
  <1> DEFINE n == Cardinality(cleanup_hooks)
  <1>1. n \in Nat
    BY FS_CardinalityType
  <1>2. /\ s \in [1 .. n -> cleanup_hooks]
        /\ \A i, j \in 1 .. n : i # j => s[i] # s[j]
    BY DEF Snapshots, SetToSeqs
  <1>3. s \in Injection(1 .. n, cleanup_hooks)
    BY <1>2 DEF Injection, IsInjective
  <1>4. Cardinality(1 .. n) = n
    BY <1>1, FS_Interval
  <1>5. s \in Surjection(1 .. n, cleanup_hooks)
    BY <1>3, <1>4, FS_Injection
  <1>6. Range(s) = cleanup_hooks
    BY <1>2, <1>5 DEF Surjection, Range
  <1>7. s \in Seq(cleanup_hooks)
    BY <1>1, <1>2, SeqDef
  <1> QED  BY <1>6, <1>7 DEF Snapshots

\* Taking the head off a sequence in order leaves the rest in order, and what
\* follows the head comes after it.
LEMMA TailInOrder ==
    ASSUME callbacks \in Seq(Entries), callbacks # <<>>,
           \A i, j \in DOMAIN callbacks : i < j => callbacks[i].order > callbacks[j].order
    PROVE  /\ Head(callbacks) \in Entries
           /\ Tail(callbacks) \in Seq(Entries)
           /\ Range(callbacks) = {Head(callbacks)} \cup Range(Tail(callbacks))
           /\ \A c \in Range(Tail(callbacks)) : Head(callbacks).order > c.order
           /\ \A i, j \in DOMAIN Tail(callbacks) :
                 i < j => Tail(callbacks)[i].order > Tail(callbacks)[j].order
  <1> DEFINE t == Tail(callbacks)
  <1>1. /\ Head(callbacks) = callbacks[1] /\ callbacks[1] \in Entries
        /\ Len(callbacks) \in Nat \ {0} /\ DOMAIN callbacks = 1 .. Len(callbacks)
    BY HeadTailProperties, EmptySeq, LenProperties, ElementOfSeq
  <1>2. /\ t \in Seq(Entries) /\ Len(t) = Len(callbacks) - 1
        /\ \A i \in 1 .. Len(t) : t[i] = callbacks[i + 1]
    BY HeadTailProperties
  <1>3. DOMAIN t = 1 .. Len(t)
    BY <1>2, LenProperties
  <1> HIDE DEF t
  <1>4. \A i \in DOMAIN t : i + 1 \in DOMAIN callbacks /\ t[i] = callbacks[i + 1]
    BY <1>1, <1>2, <1>3
  <1>5. ASSUME NEW c \in Range(callbacks) PROVE c \in {Head(callbacks)} \cup Range(t)
    <2>1. PICK i \in 1 .. Len(callbacks) : c = callbacks[i]
      BY <1>1, <1>5 DEF Range
    <2>2. CASE i = 1
      BY <1>1, <2>1, <2>2
    <2>3. CASE i # 1
      <3>1. i - 1 \in DOMAIN t /\ t[i - 1] = callbacks[(i - 1) + 1]
        BY <1>1, <1>2, <1>3, <2>3
      <3> QED  BY <2>1, <3>1 DEF Range
    <2> QED  BY <2>2, <2>3
  <1>6. {Head(callbacks)} \cup Range(t) \subseteq Range(callbacks)
    BY <1>1, <1>4 DEF Range
  <1>7. \A c \in Range(t) : Head(callbacks).order > c.order
    <2> SUFFICES ASSUME NEW i \in DOMAIN t PROVE Head(callbacks).order > t[i].order
      BY DEF Range
    <2>1. 1 \in DOMAIN callbacks /\ i + 1 \in DOMAIN callbacks /\ 1 < i + 1
      BY <1>1, <1>3, <1>4, <1>2
    <2> QED  BY <1>1, <1>4, <2>1
  <1>8. \A i, j \in DOMAIN t : i < j => t[i].order > t[j].order
    <2> SUFFICES ASSUME NEW i \in DOMAIN t, NEW j \in DOMAIN t, i < j
                 PROVE  t[i].order > t[j].order
      OBVIOUS
    <2>1. i + 1 < j + 1
      BY <1>2, <1>3
    <2> QED  BY <1>4, <2>1
  <1> QED  BY <1>1, <1>2, <1>5, <1>6, <1>7, <1>8 DEF t
-----------------------------------------------------------------------------
(* The set of entries *)

\* Entering a hook: what is registered, what is owed, and that the new entry is
\* younger than all the others.
LEMMA Entered ==
    ASSUME HookInv, NEW id \in Ids, AddCleanupHook(id)
    PROVE  /\ cleanup_hooks' \subseteq Entries
           /\ \A c, d \in cleanup_hooks' : c.id = d.id => c = d
           /\ IsFiniteSet(cleanup_hooks')
           /\ counter' \in 0 .. MaxAdds /\ counter' > counter
           /\ \A c \in cleanup_hooks' : c.order < counter'
           /\ \A c \in cleanup_hooks' : c \in cleanup_hooks \/ c.order = counter
           /\ \A x : Registered(x)' <=> Registered(x) \/ x = id
           /\ owed' = IF Registered(id) THEN owed ELSE owed \cup {id}
  <1> DEFINE e == [id |-> id, order |-> counter]
  <1>1. /\ cleanup_hooks \subseteq Entries
        /\ \A c, d \in cleanup_hooks : c.id = d.id => c = d
        /\ counter \in 0 .. MaxAdds /\ MaxAdds \in Nat
        /\ IsFiniteSet(cleanup_hooks)
        /\ \A c \in cleanup_hooks : c.order < counter
    BY HooksAssumption DEF HookInv, WaitingMatchesStarted, TypeOK, EntriesInv
  <1>2. counter < MaxAdds /\ counter' = counter + 1
    BY DEF AddCleanupHook
  <1>3. CASE Registered(id)
    <2>1. cleanup_hooks' = cleanup_hooks /\ owed' = owed
      BY <1>3 DEF AddCleanupHook
    <2>2. \A x : Registered(x)' <=> Registered(x)
      BY <2>1 DEF Registered
    <2>3. \A c \in cleanup_hooks : c.order \in Nat
      BY <1>1 DEF Entries
    <2> QED  BY <1>1, <1>2, <1>3, <2>1, <2>2, <2>3
  <1>4. CASE ~Registered(id)
    <2>1. cleanup_hooks' = cleanup_hooks \cup {e} /\ owed' = owed \cup {id}
      BY <1>4 DEF AddCleanupHook
    <2>2. e.id = id /\ e.order = counter /\ e \in Entries
      BY <1>1 DEF Entries
    <2>3. \A c \in cleanup_hooks : c.id # id /\ c.order \in Nat
      BY <1>1, <1>4 DEF Registered, Entries
    <2>4. IsFiniteSet(cleanup_hooks')
      BY <1>1, <2>1, FS_AddElement
    <2> HIDE DEF e
    <2>5. \A x : Registered(x)' <=> Registered(x) \/ x = id
      BY <2>1, <2>2 DEF Registered
    <2>6. \A c, d \in cleanup_hooks' : c.id = d.id => c = d
      BY <1>1, <2>1, <2>2, <2>3
    <2>7. \A c \in cleanup_hooks' : c.order < counter'
      BY <1>1, <1>2, <2>1, <2>2, <2>3
    <2> QED  BY <1>1, <1>2, <1>4, <2>1, <2>2, <2>4, <2>5, <2>6, <2>7
  <1> QED  BY <1>3, <1>4

\* Erasing a key.
LEMMA Erased ==
    ASSUME HookInv, NEW id, cleanup_hooks' = {c \in cleanup_hooks : c.id # id}
    PROVE  /\ cleanup_hooks' \subseteq cleanup_hooks
           /\ IsFiniteSet(cleanup_hooks')
           /\ \A x : Registered(x)' <=> Registered(x) /\ x # id
  <1>1. IsFiniteSet(cleanup_hooks)
    BY DEF HookInv, EntriesInv
  <1>2. cleanup_hooks' \in SUBSET cleanup_hooks
    OBVIOUS
  <1>3. IsFiniteSet(cleanup_hooks')
    BY <1>1, <1>2, FS_Subset
  <1>4. \A x : Registered(x)' <=> Registered(x) /\ x # id
    BY DEF Registered
  <1> QED  BY <1>3, <1>4

\* The asynchronous hooks that have started are finitely many; one more, one
\* less.
LEMMA StartedCount ==
    ASSUME HookInv, NEW a \in AsyncHooks
    PROVE  /\ IsFiniteSet(Started)
           /\ request_waiting = Cardinality(Started) /\ request_waiting \in Nat
           /\ Cardinality(Started \cup {a}) =
                 IF a \in Started THEN request_waiting ELSE request_waiting + 1
           /\ Cardinality(Started \ {a}) =
                 IF a \in Started THEN request_waiting - 1 ELSE request_waiting
  <1>1. IsFiniteSet(AsyncHooks) /\ Started \in SUBSET AsyncHooks
    BY HooksAssumption DEF Started
  <1>2. IsFiniteSet(Started)
    BY <1>1, FS_Subset
  <1>3. request_waiting = Cardinality(Started)
    BY DEF HookInv, WaitingMatchesStarted, Started
  <1> QED  BY <1>2, <1>3, FS_CardinalityType, FS_AddElement, FS_RemoveElement

\* No more hooks have started than there are.
LEMMA StartedBounded ==
    Cardinality(Started)' \in 0 .. Cardinality(AsyncHooks)
  <1>1. IsFiniteSet(AsyncHooks) /\ Started' \in SUBSET AsyncHooks
    BY HooksAssumption DEF Started
  <1> QED  BY <1>1, FS_Subset, FS_CardinalityType
-----------------------------------------------------------------------------
(* The invariant holds initially, and every action preserves it *)

\* Initially nothing is entered, owed or waited for.
LEMMA HookInit == Init => HookInv
  <1> SUFFICES ASSUME Init PROVE HookInv
    OBVIOUS
  <1> USE DEF Init
  <1>1. IsFiniteSet(AsyncHooks) /\ IsFiniteSet({}) /\ Cardinality({}) = 0
    BY HooksAssumption, FS_EmptySet
  <1>2. Cardinality(AsyncHooks) \in Nat
    BY <1>1, FS_CardinalityType
  <1>3. {a \in AsyncHooks : async[a] = "started"} = {}
    OBVIOUS
  <1>4. <<>> \in Seq(Entries) /\ DOMAIN <<>> = {}
    BY EmptySeq, LenProperties
  <1>5. MaxAdds \in Nat
    BY HooksAssumption
  <1>6. TypeOK
    BY <1>2, <1>4, <1>5 DEF TypeOK
  <1>7. WaitingMatchesStarted
    BY <1>1, <1>3, <1>6 DEF WaitingMatchesStarted
  <1>8. NoHookLost /\ EntriesInv
    BY <1>1 DEF NoHookLost, EntriesInv
  <1>9. OwedInv
    BY DEF OwedInv, Registered
  <1>10. SnapshotInv
    BY <1>4 DEF SnapshotInv
  <1> QED  BY <1>7, <1>8, <1>9, <1>10 DEF HookInv

\* User code that enters a hook, synchronous or asynchronous.
LEMMA EnterStep ==
    ASSUME HookInv, NEW id \in Ids, UserCode, MayRegister(id), AddCleanupHook(id),
           UNCHANGED <<request_waiting, phase, callbacks, current, snapshotEnd>>,
           async' = IF id \in AsyncHooks THEN [async EXCEPT ![id] = "registered"] ELSE async,
           id \in AsyncHooks => async[id] # "started"
    PROVE  HookInv'
  <1>1. /\ cleanup_hooks' \subseteq Entries
        /\ \A c, d \in cleanup_hooks' : c.id = d.id => c = d
        /\ IsFiniteSet(cleanup_hooks')
        /\ counter' \in 0 .. MaxAdds /\ counter' > counter
        /\ \A c \in cleanup_hooks' : c.order < counter'
        /\ \A c \in cleanup_hooks' : c \in cleanup_hooks \/ c.order = counter
        /\ \A x : Registered(x)' <=> Registered(x) \/ x = id
        /\ owed' = IF Registered(id) THEN owed ELSE owed \cup {id}
    BY Entered
  <1>2. /\ TypeOK /\ EntriesInv /\ OwedInv /\ SnapshotInv /\ NoHookLost
        /\ request_waiting = Cardinality({a \in AsyncHooks : async[a] = "started"})
    BY DEF HookInv, WaitingMatchesStarted
  <1>3. async' \in [AsyncHooks -> {"none", "registered", "started", "removed"}]
    BY <1>2 DEF TypeOK
  <1>4. {a \in AsyncHooks : async[a] = "started"}' = {a \in AsyncHooks : async[a] = "started"}
    BY <1>2 DEF TypeOK
  <1>5. TypeOK'
    BY <1>1, <1>2, <1>3 DEF TypeOK
  <1>6. WaitingMatchesStarted'
    BY <1>2, <1>4, <1>5 DEF WaitingMatchesStarted
  <1>7. EntriesInv'
    <2>1. snapshotEnd' <= counter'
      BY <1>1, <1>2 DEF EntriesInv, TypeOK
    <2> QED  BY <1>1, <1>2, <2>1 DEF EntriesInv
  <1>8. \A x : Running(x)' <=> Running(x)
    BY DEF Running
  <1>9. OwedInv'
    <2>1. \A a \in AsyncHooks : Registered(a)' /\ ~Running(a)' => async'[a] = "registered"
      BY <1>1, <1>2, <1>8 DEF OwedInv, TypeOK
    <2>2. \A x \in Ids : Registered(x)' /\ ~Running(x)' => x \in owed'
      BY <1>1, <1>2, <1>8 DEF OwedInv
    <2>3. \A x \in owed' \ ReusedKeys : Registered(x)' /\ ~Running(x)'
      BY <1>1, <1>2, <1>8 DEF OwedInv, MayRegister, Running
    <2> QED  BY <2>1, <2>2, <2>3 DEF OwedInv
  <1>10. NoHookLost'
    BY <1>9 DEF NoHookLost, OwedInv, UserCode
  <1>11. SnapshotInv'
    <2>1. \A c \in cleanup_hooks' : c.order < snapshotEnd => c \in cleanup_hooks
      BY <1>1, <1>2 DEF EntriesInv, TypeOK
    <2> QED  BY <1>2, <1>8, <2>1 DEF SnapshotInv
  <1> QED  BY <1>6, <1>7, <1>9, <1>10, <1>11 DEF HookInv

\* User code that erases a key: no entry of the others is touched.
LEMMA EraseStep ==
    ASSUME HookInv, NEW id \in Ids, UserCode, RemoveCleanupHook(id),
           UNCHANGED <<counter, request_waiting, phase, callbacks, current, snapshotEnd>>,
           async' = IF id \in AsyncHooks THEN [async EXCEPT ![id] = "removed"] ELSE async,
           id \in AsyncHooks => async[id] # "started"
    PROVE  HookInv'
  <1>1. /\ cleanup_hooks' \subseteq cleanup_hooks
        /\ IsFiniteSet(cleanup_hooks')
        /\ \A x : Registered(x)' <=> Registered(x) /\ x # id
    BY Erased DEF RemoveCleanupHook
  <1>2. /\ TypeOK /\ EntriesInv /\ OwedInv /\ SnapshotInv /\ NoHookLost
        /\ request_waiting = Cardinality({a \in AsyncHooks : async[a] = "started"})
    BY DEF HookInv, WaitingMatchesStarted
  <1>3. async' \in [AsyncHooks -> {"none", "registered", "started", "removed"}]
    BY <1>2 DEF TypeOK
  <1>4. {a \in AsyncHooks : async[a] = "started"}' = {a \in AsyncHooks : async[a] = "started"}
    BY <1>2 DEF TypeOK
  <1>5. owed' = owed \ {id}
    BY DEF RemoveCleanupHook
  <1>6. WaitingMatchesStarted'
    <2>1. TypeOK'
      BY <1>1, <1>2, <1>3, <1>5 DEF TypeOK
    <2> QED  BY <1>2, <1>4, <2>1 DEF WaitingMatchesStarted
  <1>7. EntriesInv'
    BY <1>1, <1>2 DEF EntriesInv
  <1>8. \A x : Running(x)' <=> Running(x)
    BY DEF Running
  <1>9. OwedInv'
    <2>1. \A a \in AsyncHooks : Registered(a)' /\ ~Running(a)' => async'[a] = "registered"
      BY <1>1, <1>2, <1>8 DEF OwedInv, TypeOK
    <2>2. \A x \in Ids : Registered(x)' /\ ~Running(x)' => x \in owed'
      BY <1>1, <1>2, <1>5, <1>8 DEF OwedInv
    <2>3. \A x \in owed' \ ReusedKeys : Registered(x)' /\ ~Running(x)'
      BY <1>1, <1>2, <1>5, <1>8 DEF OwedInv
    <2> QED  BY <2>1, <2>2, <2>3 DEF OwedInv
  <1>10. NoHookLost'
    BY <1>9 DEF NoHookLost, OwedInv, UserCode
  <1>11. SnapshotInv'
    BY <1>1, <1>2, <1>8 DEF SnapshotInv
  <1> QED  BY <1>6, <1>7, <1>9, <1>10, <1>11 DEF HookInv

\* The done callback of an asynchronous hook that has started counts it out.
LEMMA FinishStep ==
    ASSUME HookInv, NEW a \in AsyncHooks, UserCode, async[a] = "started",
           async' = [async EXCEPT ![a] = "removed"],
           request_waiting' = request_waiting - 1,
           UNCHANGED <<cleanup_hooks, owed, counter, phase, callbacks, current, snapshotEnd>>
    PROVE  HookInv'
  <1>1. /\ TypeOK /\ EntriesInv /\ OwedInv /\ SnapshotInv /\ NoHookLost
    BY DEF HookInv, WaitingMatchesStarted
  <1>2. Started' = Started \ {a} /\ a \in Started
    BY <1>1 DEF Started, TypeOK
  <1>3. request_waiting' = Cardinality(Started')
    BY <1>2, StartedCount
  <1>4. request_waiting' \in 0 .. Cardinality(AsyncHooks)
    BY <1>3, StartedBounded
  <1>5. async' \in [AsyncHooks -> {"none", "registered", "started", "removed"}]
    BY <1>1 DEF TypeOK
  <1>6. WaitingMatchesStarted'
    <2>1. TypeOK'
      BY <1>1, <1>4, <1>5 DEF TypeOK
    <2> QED  BY <1>3, <2>1 DEF WaitingMatchesStarted, Started
  <1>7. EntriesInv'
    BY <1>1 DEF EntriesInv
  <1>8. \A x : (Running(x)' <=> Running(x)) /\ (Registered(x)' <=> Registered(x))
    BY DEF Running, Registered
  <1>9. OwedInv'
    <2>1. \A b \in AsyncHooks : Registered(b)' /\ ~Running(b)' => async'[b] = "registered"
      BY <1>1, <1>8 DEF OwedInv, TypeOK
    <2> QED  BY <1>1, <1>8, <2>1 DEF OwedInv
  <1>10. NoHookLost'
    BY <1>9 DEF NoHookLost, OwedInv, UserCode
  <1>11. SnapshotInv'
    BY <1>1, <1>8 DEF SnapshotInv
  <1> QED  BY <1>6, <1>7, <1>9, <1>10, <1>11 DEF HookInv

\* CleanupHandles has waited for the hooks that started: the clean-up is over, or
\* takes a snapshot that holds every entry.
LEMMA HandlesDoneStep == HookInv /\ CleanupHandlesDone => HookInv'
  <1> SUFFICES ASSUME HookInv, CleanupHandlesDone PROVE HookInv'
    OBVIOUS
  <1>1. /\ TypeOK /\ EntriesInv /\ OwedInv /\ SnapshotInv /\ NoHookLost
    BY DEF HookInv, WaitingMatchesStarted
  <1>2. /\ phase = "handles" /\ request_waiting = 0
        /\ UNCHANGED <<cleanup_hooks, counter, request_waiting, async, current, owed>>
    BY DEF CleanupHandlesDone
  <1>3. \A a \in AsyncHooks : async[a] # "started"
    <2> SUFFICES ASSUME NEW a \in AsyncHooks, a \in Started PROVE FALSE
      BY DEF Started
    <2>1. IsFiniteSet(Started) /\ Cardinality(Started) = 0
      BY <1>2, StartedCount
    <2> QED  BY <2>1, FS_EmptySet
  <1>4. \A x : Registered(x)' <=> Registered(x)
    BY <1>2 DEF Registered
  <1>5. CASE cleanup_hooks = {}
    <2>1. phase' = "done" /\ UNCHANGED <<callbacks, snapshotEnd>>
      BY <1>5 DEF CleanupHandlesDone
    <2>2. \A x : Running(x)' <=> Running(x)
      BY <1>2, <2>1 DEF Running
    <2>3. TypeOK'
      BY <1>1, <1>2, <2>1 DEF TypeOK
    <2>4. WaitingMatchesStarted'
      BY <1>2, <2>3 DEF WaitingMatchesStarted, HookInv
    <2>5. EntriesInv' /\ SnapshotInv'
      BY <1>1, <1>2, <2>1 DEF EntriesInv, SnapshotInv
    <2>6. OwedInv'
      BY <1>1, <1>2, <1>4, <2>2 DEF OwedInv
    <2>7. NoHookLost'
      BY <1>2, <1>3, <1>5, <2>6 DEF NoHookLost, OwedInv
    <2> QED  BY <2>4, <2>5, <2>6, <2>7 DEF HookInv
  <1>6. CASE cleanup_hooks # {}
    <2>1. phase' = "batch" /\ callbacks' \in Snapshots /\ snapshotEnd' = counter
      BY <1>6 DEF CleanupHandlesDone
    <2>2. /\ callbacks' \in Seq(cleanup_hooks) /\ Range(callbacks') = cleanup_hooks
          /\ \A i, j \in DOMAIN callbacks' :
                i < j => callbacks'[i].order > callbacks'[j].order
      BY <1>1, <2>1, SnapshotComplete DEF EntriesInv
    <2>3. \A x : Running(x)' <=> Running(x)
      BY <1>2, <2>1 DEF Running
    <2>4. TypeOK'
      <3>1. Seq(cleanup_hooks) \subseteq Seq(Entries)
        BY <1>1, SeqMonotonic DEF TypeOK
      <3>2. callbacks' \in Seq(Entries)
        BY <2>2, <3>1
      <3> QED  BY <1>1, <1>2, <2>1, <3>2 DEF TypeOK
    <2>5. WaitingMatchesStarted'
      BY <1>2, <2>4 DEF WaitingMatchesStarted, HookInv
    <2>6. EntriesInv'
      BY <1>1, <1>2, <2>1 DEF EntriesInv, TypeOK
    <2>7. SnapshotInv'
      BY <1>2, <2>2 DEF SnapshotInv
    <2>8. OwedInv'
      BY <1>1, <1>2, <1>4, <2>3 DEF OwedInv
    <2>9. NoHookLost'
      BY <2>1, <2>8 DEF NoHookLost, OwedInv
    <2> QED  BY <2>5, <2>6, <2>7, <2>8, <2>9 DEF HookInv
  <1> QED  BY <1>5, <1>6

\* A hook of the snapshot that was removed in the meantime is passed over.
LEMMA SkipStep == HookInv /\ SkipHook => HookInv'
  <1> SUFFICES ASSUME HookInv, SkipHook PROVE HookInv'
    OBVIOUS
  <1>1. /\ TypeOK /\ EntriesInv /\ OwedInv /\ SnapshotInv /\ NoHookLost
    BY DEF HookInv, WaitingMatchesStarted
  <1>2. /\ phase = "batch" /\ callbacks # <<>> /\ callbacks' = Tail(callbacks)
        /\ ~Registered(Head(callbacks).id)
        /\ UNCHANGED <<cleanup_hooks, counter, request_waiting, async, phase,
                       current, snapshotEnd, owed>>
    BY DEF SkipHook
  <1>3. \A x : (Running(x)' <=> Running(x)) /\ (Registered(x)' <=> Registered(x))
    BY <1>2 DEF Running, Registered
  <1>4. /\ callbacks' \in Seq(Entries)
        /\ Range(callbacks) = {Head(callbacks)} \cup Range(callbacks')
        /\ \A i, j \in DOMAIN callbacks' :
              i < j => callbacks'[i].order > callbacks'[j].order
    BY <1>1, <1>2, TailInOrder DEF TypeOK, SnapshotInv
  <1>5. WaitingMatchesStarted'
    <2>1. TypeOK'
      BY <1>1, <1>2, <1>4 DEF TypeOK
    <2> QED  BY <1>2, <2>1 DEF WaitingMatchesStarted, HookInv
  <1>6. EntriesInv'
    BY <1>1, <1>2 DEF EntriesInv
  <1>7. OwedInv'
    BY <1>1, <1>2, <1>3 DEF OwedInv
  <1>8. NoHookLost'
    BY <1>2, <1>7 DEF NoHookLost, OwedInv
  <1>9. SnapshotInv'
    <2>1. \A c \in cleanup_hooks : c # Head(callbacks)
      BY <1>2 DEF Registered
    <2> QED  BY <1>1, <1>2, <1>3, <1>4, <2>1 DEF SnapshotInv
  <1> QED  BY <1>5, <1>6, <1>7, <1>8, <1>9 DEF HookInv

\* The next hook of the snapshot starts; an asynchronous one is waited for.
LEMMA RunStep == HookInv /\ RunHook => HookInv'
  <1> SUFFICES ASSUME HookInv, RunHook PROVE HookInv'
    OBVIOUS
  <1> DEFINE h == Head(callbacks)
  <1>1. /\ TypeOK /\ EntriesInv /\ OwedInv /\ SnapshotInv /\ NoHookLost
        /\ request_waiting = Cardinality(Started)
    BY DEF HookInv, WaitingMatchesStarted, Started
  <1>2. /\ phase = "batch" /\ callbacks # <<>> /\ Registered(h.id)
        /\ current' = h /\ callbacks' = Tail(callbacks) /\ phase' = "hook"
        /\ owed' = owed \ {h.id}
        /\ UNCHANGED <<cleanup_hooks, counter, snapshotEnd>>
    BY DEF RunHook
  <1>3. /\ h \in Entries /\ callbacks' \in Seq(Entries)
        /\ Range(callbacks) = {h} \cup Range(callbacks')
        /\ \A i, j \in DOMAIN callbacks' :
              i < j => callbacks'[i].order > callbacks'[j].order
    BY <1>1, <1>2, TailInOrder DEF TypeOK, SnapshotInv
  <1>4. \A x : /\ Registered(x)' <=> Registered(x)
               /\ Running(x)' <=> x = h.id
               /\ ~Running(x)
    BY <1>2 DEF Running, Registered
  <1>5. h.id \in Ids /\ h # NoHook
    BY <1>3, HooksAssumption DEF Entries, Ids
  <1>6. WaitingMatchesStarted' /\ \A b \in AsyncHooks : b # h.id => async'[b] = async[b]
    <2>1. CASE h.id \in AsyncHooks
      <3>1. request_waiting' = request_waiting + 1 /\ async' = [async EXCEPT ![h.id] = "started"]
        BY <2>1 DEF RunHook
      <3>2. async[h.id] = "registered"
        BY <1>1, <1>2, <1>4, <2>1 DEF OwedInv
      <3>3. Started' = Started \cup {h.id} /\ h.id \notin Started
        BY <1>1, <2>1, <3>1, <3>2 DEF Started, TypeOK
      <3>4. request_waiting' = Cardinality(Started')
        BY <2>1, <3>1, <3>3, StartedCount
      <3>5. request_waiting' \in 0 .. Cardinality(AsyncHooks)
        BY <3>4, StartedBounded
      <3>6. async' \in [AsyncHooks -> {"none", "registered", "started", "removed"}]
        BY <1>1, <3>1 DEF TypeOK
      <3>7. TypeOK'
        BY <1>1, <1>2, <1>3, <3>5, <3>6 DEF TypeOK
      <3> QED  BY <1>1, <3>1, <3>4, <3>7 DEF WaitingMatchesStarted, Started, TypeOK
    <2>2. CASE h.id \notin AsyncHooks
      <3>1. UNCHANGED <<request_waiting, async>>
        BY <2>2 DEF RunHook
      <3>2. TypeOK'
        BY <1>1, <1>2, <1>3, <3>1 DEF TypeOK
      <3> QED  BY <1>1, <3>1, <3>2 DEF WaitingMatchesStarted, Started
    <2> QED  BY <2>1, <2>2
  <1>7. EntriesInv'
    BY <1>1, <1>2, <1>5 DEF EntriesInv
  <1>8. OwedInv'
    <2>1. \A a \in AsyncHooks : Registered(a)' /\ ~Running(a)' => async'[a] = "registered"
      BY <1>1, <1>4, <1>6 DEF OwedInv
    <2>2. \A x \in Ids : Registered(x)' /\ ~Running(x)' => x \in owed'
      BY <1>1, <1>2, <1>4 DEF OwedInv
    <2>3. \A x \in owed' \ ReusedKeys : Registered(x)' /\ ~Running(x)'
      BY <1>1, <1>2, <1>4 DEF OwedInv
    <2> QED  BY <2>1, <2>2, <2>3 DEF OwedInv
  <1>9. NoHookLost'
    BY <1>2, <1>8 DEF NoHookLost, OwedInv
  <1>10. SnapshotInv'
    BY <1>1, <1>2, <1>3, <1>4 DEF SnapshotInv
  <1> QED  BY <1>6, <1>7, <1>8, <1>9, <1>10 DEF HookInv

\* The hook returns, and RunCleanup erases its key.
LEMMA ReturnStep == HookInv /\ HookReturns => HookInv'
  <1> SUFFICES ASSUME HookInv, HookReturns PROVE HookInv'
    OBVIOUS
  <1>1. /\ TypeOK /\ EntriesInv /\ OwedInv /\ SnapshotInv /\ NoHookLost
    BY DEF HookInv, WaitingMatchesStarted
  <1>2. /\ phase = "hook" /\ phase' = "batch" /\ current' = NoHook
        /\ cleanup_hooks' = {c \in cleanup_hooks : c.id # current.id}
        /\ UNCHANGED <<counter, request_waiting, async, callbacks, snapshotEnd, owed>>
    BY DEF HookReturns
  <1>3. /\ cleanup_hooks' \subseteq cleanup_hooks
        /\ IsFiniteSet(cleanup_hooks')
        /\ \A x : Registered(x)' <=> Registered(x) /\ x # current.id
    BY <1>2, Erased
  <1>4. \A x : ~Running(x)' /\ (Running(x) <=> x = current.id)
    BY <1>2 DEF Running
  <1>5. WaitingMatchesStarted'
    <2>1. TypeOK'
      BY <1>1, <1>2, <1>3 DEF TypeOK
    <2> QED  BY <1>2, <2>1 DEF WaitingMatchesStarted, HookInv
  <1>6. EntriesInv'
    BY <1>1, <1>2, <1>3 DEF EntriesInv
  <1>7. OwedInv'
    BY <1>1, <1>2, <1>3, <1>4 DEF OwedInv
  <1>8. NoHookLost'
    BY <1>2, <1>7 DEF NoHookLost, OwedInv
  <1>9. SnapshotInv'
    BY <1>1, <1>2, <1>3, <1>4 DEF SnapshotInv
  <1> QED  BY <1>5, <1>6, <1>7, <1>8, <1>9 DEF HookInv

\* The clean-up goes from one part to the next, and nothing else changes.
LEMMA PhaseStep ==
    ASSUME HookInv, phase \notin {"hook", "done"}, phase' \in {"handles", phase},
           UNCHANGED <<cleanup_hooks, counter, request_waiting, async, callbacks,
                       current, snapshotEnd, owed>>
    PROVE  HookInv'
  <1>1. /\ TypeOK /\ EntriesInv /\ OwedInv /\ SnapshotInv /\ NoHookLost
    BY DEF HookInv, WaitingMatchesStarted
  <1>2. \A x : (Running(x)' <=> Running(x)) /\ (Registered(x)' <=> Registered(x))
    BY DEF Running, Registered
  <1>3. WaitingMatchesStarted'
    <2>1. TypeOK'
      BY <1>1 DEF TypeOK
    <2> QED  BY <2>1 DEF WaitingMatchesStarted, HookInv
  <1>4. EntriesInv' /\ OwedInv' /\ SnapshotInv'
    BY <1>1, <1>2 DEF EntriesInv, OwedInv, SnapshotInv
  <1>5. NoHookLost'
    BY <1>4 DEF NoHookLost, OwedInv
  <1> QED  BY <1>3, <1>4, <1>5 DEF HookInv

\* Every step preserves the invariant.
LEMMA HookStep == HookInv /\ [Next]_vars => HookInv'
  <1> SUFFICES ASSUME HookInv, [Next]_vars PROVE HookInv'
    OBVIOUS
  <1>1. CASE StartCleanup
    BY <1>1, PhaseStep DEF StartCleanup
  <1>2. CASE BatchDone
    BY <1>2, PhaseStep DEF BatchDone
  <1>3. CASE CleanupHandlesDone
    BY <1>3, HandlesDoneStep
  <1>4. CASE SkipHook
    BY <1>4, SkipStep
  <1>5. CASE RunHook
    BY <1>5, RunStep
  <1>6. CASE HookReturns
    BY <1>6, ReturnStep
  <1>7. ASSUME NEW id \in SyncHooks, AddHook(id) PROVE HookInv'
    <2>1. id \in Ids /\ id \notin AsyncHooks
      BY HooksAssumption DEF Ids
    <2> QED  BY <1>7, <2>1, EnterStep DEF AddHook
  <1>8. ASSUME NEW id \in SyncHooks, RemoveHook(id) PROVE HookInv'
    <2>1. id \in Ids /\ id \notin AsyncHooks
      BY HooksAssumption DEF Ids
    <2> QED  BY <1>8, <2>1, EraseStep DEF RemoveHook
  <1>9. ASSUME NEW a \in AsyncHooks, AddAsyncHook(a) PROVE HookInv'
    <2>1. a \in Ids
      BY DEF Ids
    <2> QED  BY <1>9, <2>1, EnterStep DEF AddAsyncHook
  <1>10. ASSUME NEW a \in AsyncHooks, RemoveAsyncHook(a) PROVE HookInv'
    <2>1. a \in Ids
      BY DEF Ids
    <2>2. CASE async[a] = "registered"
      BY <1>10, <2>1, <2>2, EraseStep DEF RemoveAsyncHook
    <2>3. CASE async[a] = "started"
      BY <1>10, <2>3, FinishStep DEF RemoveAsyncHook
    <2> QED  BY <1>10, <2>2, <2>3 DEF RemoveAsyncHook
  <1>11. CASE UNCHANGED vars
    <2>1. \A x : (Running(x)' <=> Running(x)) /\ (Registered(x)' <=> Registered(x))
      BY <1>11 DEF Running, Registered, vars
    <2> QED  BY <1>11, <2>1 DEF HookInv, WaitingMatchesStarted, NoHookLost, EntriesInv,
                               OwedInv, SnapshotInv, TypeOK, vars
  <1> QED  BY <1>1, <1>2, <1>3, <1>4, <1>5, <1>6, <1>7, <1>8, <1>9, <1>10, <1>11
           DEF Next, RunCleanup

\* The invariant holds in every reachable state.
LEMMA HookInvariant == Spec => []HookInv
  BY HookInit, HookStep, PTL DEF Spec
-----------------------------------------------------------------------------
(* What follows for every behaviour *)

\* request_waiting_ counts the asynchronous hooks that started and have not been
\* finished, whichever hooks and callbacks added and removed hooks meanwhile: so
\* CleanupHandles waits for exactly those.
THEOREM WaitingCountsStarted == Spec => []WaitingMatchesStarted
  BY HookInvariant, PTL DEF HookInv

\* No hook that was entered is lost before it ran or was removed, and RunCleanup
\* leaves none, and none that is still working.
THEOREM EveryHookAccounted == Spec => []NoHookLost
  BY HookInvariant, PTL DEF HookInv

\* RunCleanup calls a hook only when it is owed a run, and the youngest of its
\* snapshot that is still entered first.
THEOREM HooksRunInTurn == Spec => RunsInTurn
  <1>1. HookInv /\ [Next]_vars
          => [phase' = "hook" /\ phase # "hook" =>
                /\ current'.id \in owed
                /\ \A c \in cleanup_hooks' :
                      c.id # current'.id =>
                         ~(current'.order < c.order /\ c.order < snapshotEnd')]_vars
    <2> SUFFICES ASSUME HookInv, Next, phase' = "hook", phase # "hook"
                 PROVE  /\ current'.id \in owed
                        /\ \A c \in cleanup_hooks' :
                              c.id # current'.id =>
                                 ~(current'.order < c.order /\ c.order < snapshotEnd')
      BY DEF vars
    <2>1. RunHook
      BY DEF Next, RunCleanup, StartCleanup, CleanupHandlesDone, SkipHook, HookReturns,
             BatchDone, AddHook, RemoveHook, AddAsyncHook, RemoveAsyncHook
    <2>2. TypeOK /\ OwedInv /\ SnapshotInv
      BY DEF HookInv, WaitingMatchesStarted
    <2>3. /\ phase = "batch" /\ callbacks # <<>> /\ Registered(Head(callbacks).id)
          /\ current' = Head(callbacks)
          /\ UNCHANGED <<cleanup_hooks, snapshotEnd>>
      BY <2>1 DEF RunHook
    <2>4. /\ Head(callbacks) \in Entries
          /\ Range(callbacks) = {Head(callbacks)} \cup Range(Tail(callbacks))
          /\ \A c \in Range(Tail(callbacks)) : Head(callbacks).order > c.order
      BY <2>2, <2>3, TailInOrder DEF TypeOK, SnapshotInv
    <2>5. current'.id \in owed
      BY <2>2, <2>3, <2>4 DEF OwedInv, Running, Entries
    <2>6. ASSUME NEW c \in cleanup_hooks, c.id # Head(callbacks).id, c.order < snapshotEnd
          PROVE  Head(callbacks).order > c.order
      BY <2>2, <2>3, <2>4, <2>6 DEF SnapshotInv, Running
    <2>7. \A c \in cleanup_hooks : c.order \in Nat /\ Head(callbacks).order \in Nat
      BY <2>2, <2>4, HooksAssumption DEF TypeOK, Entries
    <2> QED  BY <2>3, <2>5, <2>6, <2>7
  <1> QED  BY <1>1, HookInvariant, PTL DEF Spec, RunsInTurn
=============================================================================
