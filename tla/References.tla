---------------------------- MODULE References ----------------------------
(***************************************************************************)
(* References, wrapped objects and finalizers: napi_create_reference to     *)
(* napi_get_reference_value, napi_wrap, napi_remove_wrap and                *)
(* napi_add_finalizer over the back ends Ark, QuickJS and JerryScript, the   *)
(* collector, and NativeReferenceManager with its part in Deinit.           *)
(*                                                                          *)
(* A finalizer is user code in the middle of an operation: the operation    *)
(* waits on the stack while the finalizer makes calls of its own.  The V8   *)
(* back end is left out: it does not implement the present interface        *)
(* (CreateReference takes two parameters there, AddFinalizer is missing).   *)
(*                                                                          *)
(* Objects are what JavaScript holds; the values that wrap them belong to   *)
(* the handle scopes, and are in HandleScopes.                              *)
(*                                                                          *)
(* What the program keeps to: one native datum per object at a time; a      *)
(* finalizer leaves the reference alone that is being finalized; no wrap    *)
(* is removed during Deinit, and none on QuickJS that was never made.       *)
(***************************************************************************)
EXTENDS Naturals, FiniteSets, Sequences, SequencesExt

CONSTANTS
    Engines,         \* the back ends: a subset of AllEngines
    Objects,         \* JavaScript objects, all in the program's hands at first
    MaxRefs,         \* bound: NativeReference objects created in all
    MaxCount,        \* bound: the count of a reference
    MaxData,         \* bound: native data registered in all
    MaxDepth,        \* bound: finalizers inside finalizers
    None,
    UsesCollected    \* the program uses weak references whose object is gone

AllEngines == {"ark", "quickjs", "jerryscript"}
RefIds == 1 .. MaxRefs
Data == 1 .. MaxData

ASSUME ReferencesAssumption ==
    /\ Engines \subseteq AllEngines
    /\ {MaxRefs, MaxCount, MaxData, MaxDepth} \subseteq Nat
    /\ MaxCount > 0
    /\ None \notin Nat
    /\ UsesCollected \in BOOLEAN

VARIABLES
    engine,     \* the back end that runs
    held,       \* objects the program reaches through JavaScript or a handle
    live,       \* objects that are not collected
    ref,        \* the NativeReference objects
    made,       \* how many of them were created
    attached,   \* what an object carries: _napiwrapper or the native info
    handlers,   \* referenceHandlers_, the head first
    registered, \* native data registered so far
    ran,        \* ghost: how often the finalizer of a datum was called
    removed,    \* ghost: data the program took back with napi_remove_wrap
    stack,      \* operations that wait for a finalizer, the innermost last
    mode        \* "up", "deinit" in ~NativeReferenceManager, "down"

vars == <<engine, held, live, ref, made, attached, handlers, registered, ran,
          removed, stack, mode>>

Reference == [obj : Objects \cup {None}, count : 0 .. MaxCount,
              pins : 0 .. MaxCount, managed : BOOLEAN,
              datum : Data \cup {None}, freed : BOOLEAN]
Frame == [op : {"unref", "delete", "object"}, ref : RefIds \cup {None}]

TypeOK ==
    /\ engine \in Engines
    /\ held \subseteq Objects
    /\ live \subseteq Objects
    /\ ref \in [RefIds -> Reference]
    /\ made \in 0 .. MaxRefs
    /\ attached \in [Objects -> RefIds \cup Data \cup {None}]
    /\ handlers \in Seq(RefIds)
    /\ registered \in 0 .. MaxData
    /\ ran \in [Data -> Nat]
    /\ removed \subseteq Data
    /\ stack \in Seq(Frame) /\ Len(stack) <= MaxDepth
    /\ mode \in {"up", "deinit", "down"}

Unused == [obj |-> None, count |-> 0, pins |-> 0, managed |-> FALSE,
           datum |-> None, freed |-> TRUE]

Init ==
    /\ engine \in Engines
    /\ held = Objects
    /\ live = Objects
    /\ ref = [r \in RefIds |-> Unused]
    /\ made = 0
    /\ attached = [o \in Objects |-> None]
    /\ handlers = <<>>
    /\ registered = 0
    /\ ran = [d \in Data |-> 0]
    /\ removed = {}
    /\ stack = <<>>
    /\ mode = "up"
-----------------------------------------------------------------------------
Ark == engine = "ark"
QuickJS == engine = "quickjs"
JerryScript == engine = "jerryscript"

\* Native code of the program runs: called by JavaScript, or as a finalizer.
ProgramRuns == mode = "up" \/ stack # <<>>

BeingFinalized == {r \in RefIds : \E i \in DOMAIN stack : stack[i].ref = r}

\* The napi_ref the program owns; those of wraps it never sees (napi_wrap
\* leaves *result alone).
ProgramRefs == {r \in RefIds : ~ref[r].freed /\ ~ref[r].managed} \ BeingFinalized

\* The contract: one datum per object.
Unregistered(o) ==
    /\ Ark \/ attached[o] = None
    /\ \A r \in RefIds : ~(~ref[r].freed /\ ref[r].obj = o /\ ref[r].datum # None)

\* Ark makes the global handle strong or weak; the others take the value once
\* for each count.
\* MUTANT: the handle is made strong one count too late.
PinsFor_Late(count) == IF Ark THEN (IF count > 1 THEN 1 ELSE 0) ELSE count
PinsFor(count) == IF Ark THEN (IF count > 0 THEN 1 ELSE 0) ELSE count

NewReference(o, count, isManaged, d) ==
    /\ made < MaxRefs
    /\ made' = made + 1
    /\ ref' = [ref EXCEPT ![made + 1] =
                 [obj |-> o, count |-> count, pins |-> PinsFor(count),
                  managed |-> isManaged, datum |-> d, freed |-> FALSE]]
    /\ handlers' = IF isManaged THEN <<made + 1>> \o handlers ELSE handlers

\* The finalizer of d is called; frame is the rest of the operation.
CallFinalizer(d, frame) ==
    /\ Len(stack) < MaxDepth
    /\ ran' = [ran EXCEPT ![d] = @ + 1]
    /\ stack' = Append(stack, frame)

NoFinalizer == UNCHANGED <<ran, stack>>

Pinned(o) == \E r \in RefIds : ref[r].obj = o /\ ref[r].pins > 0
-----------------------------------------------------------------------------
CreateReference(o, count) ==
    /\ ProgramRuns
    /\ o \in held
    /\ NewReference(o, count, FALSE, None)
    /\ UNCHANGED <<engine, held, live, attached, registered, ran, removed, stack, mode>>

\* SetNativePointer with a pointer.
Wrap(o) ==
    /\ ProgramRuns
    /\ o \in held
    /\ registered < MaxData
    /\ Unregistered(o)
    /\ registered' = registered + 1
    /\ IF Ark
       THEN /\ NewReference(o, 1, TRUE, registered + 1)
            /\ attached' = [attached EXCEPT ![o] = made + 1]
       ELSE /\ attached' = [attached EXCEPT ![o] = registered + 1]
            /\ UNCHANGED <<ref, made, handlers>>
    /\ UNCHANGED <<engine, held, live, ran, removed, stack, mode>>

\* ReleaseHandler: not in the list is no error.
\* MUTANT: the first handler goes, whichever was asked for.
ReleaseHandler_Head(r) == handlers' = Tail(handlers)
ReleaseHandler(r) == handlers' = RemoveFirst(handlers, r)

\* ~ArkNativeReference up to the finalizer.
DeleteArk(r) ==
    IF ref[r].datum # None
    THEN /\ ref' = [ref EXCEPT ![r].pins = 0, ![r].count = 0]
         /\ CallFinalizer(ref[r].datum, [op |-> "delete", ref |-> r])
    ELSE /\ ref' = [ref EXCEPT ![r].pins = 0, ![r].count = 0, ![r].freed = TRUE]
         /\ NoFinalizer

\* SetNativePointer(nullptr) on Ark.  Without a wrap it makes one of nullptr,
\* which keeps the object until it is removed in its turn or the engine ends.
RemoveWrapArk(o) ==
    IF attached[o] # None
    THEN /\ attached' = [attached EXCEPT ![o] = None]
         /\ ReleaseHandler(attached[o])
         /\ DeleteArk(attached[o])
         /\ UNCHANGED made
    ELSE /\ NewReference(o, 1, TRUE, None)
         /\ attached' = [attached EXCEPT ![o] = made + 1]
         /\ NoFinalizer

\* The other back ends forget the info and call no finalizer.  The program
\* removes wraps, not the data of napi_add_finalizer.
RemoveWrapInfo(o) ==
    /\ attached[o] # None
    /\ \A r \in RefIds : ref[r].datum # attached[o]
    /\ attached' = [attached EXCEPT ![o] = None]
    /\ removed' = removed \cup {attached[o]}
    /\ NoFinalizer
    /\ UNCHANGED <<ref, made, handlers>>

RemoveWrap(o) ==
    /\ ProgramRuns
    /\ mode = "up"
    /\ o \in held
    /\ \/ Ark /\ RemoveWrapArk(o) /\ UNCHANGED removed
       \/ ~Ark /\ RemoveWrapInfo(o)
    /\ UNCHANGED <<engine, held, live, registered, mode>>

\* napi_add_finalizer.  Ark ignores the finalizer: AddFinalizer is empty there
\* and CreateReference drops its callback.
AddFinalizer(o, withRef) ==
    /\ ProgramRuns
    /\ o \in held
    /\ IF Ark
       THEN UNCHANGED <<registered, attached>>
       ELSE /\ registered < MaxData
            /\ Unregistered(o)
            /\ registered' = registered + 1
            /\ attached' = [attached EXCEPT ![o] = registered + 1]
    /\ IF withRef
       THEN NewReference(o, 1, FALSE, IF Ark THEN None ELSE registered + 1)
       ELSE UNCHANGED <<ref, made, handlers>>
    /\ UNCHANGED <<engine, held, live, ran, removed, stack, mode>>
-----------------------------------------------------------------------------
\* JerryScript does not count up from zero.
CountsUp(r) == JerryScript => ref[r].count > 0

Ref(r) ==
    /\ ProgramRuns
    /\ r \in ProgramRefs
    /\ ref[r].count < MaxCount
    /\ CountsUp(r)
    /\ UsesCollected \/ ref[r].obj \in live
    /\ ref' = [ref EXCEPT ![r].count = @ + 1, ![r].pins = PinsFor(ref[r].count + 1)]
    /\ UNCHANGED <<engine, held, live, made, attached, handlers, registered, ran,
                   removed, stack, mode>>

\* FinalizeCallback of JerryScript takes the info off the object before it
\* calls, the one of QuickJS after.  For that JerryScript wraps the object in a
\* value that registers its handle with the current scope, and deletes the value
\* at once: the handle that stays, and the second deletion by the scope, are
\* HandleScopes!FinalizeCallback.
InfoBeforeCall(o) == IF JerryScript THEN [attached EXCEPT ![o] = None] ELSE attached
\* MUTANT: FinalizeCallback of QuickJS without JS_FreeFinalizer.
InfoAfterCall_Kept(o) == attached
InfoAfterCall(o) == IF QuickJS THEN [attached EXCEPT ![o] = None] ELSE attached

\* From a count of zero all back ends return zero and change nothing.
MayCountDown(r) == ref[r].count > 0

\* MUTANT: the value is not given back after the finalizer.
UnrefEnds_Kept(r) == ref' = [ref EXCEPT ![r].datum = None]
UnrefEnds(r) == ref' = [ref EXCEPT ![r].datum = None, ![r].pins = @ - 1]

Unref(r) ==
    /\ ProgramRuns
    /\ r \in ProgramRefs
    /\ MayCountDown(r)
    /\ IF ref[r].count = 1 /\ ref[r].datum # None
       THEN /\ ref' = [ref EXCEPT ![r].count = 0]
            /\ attached' = InfoBeforeCall(ref[r].obj)
            /\ CallFinalizer(ref[r].datum, [op |-> "unref", ref |-> r])
       ELSE /\ ref' = [ref EXCEPT ![r].count = @ - 1, ![r].pins = PinsFor(ref[r].count - 1)]
            /\ NoFinalizer
            /\ UNCHANGED attached
    /\ UNCHANGED <<engine, held, live, made, handlers, registered, removed, mode>>

\* QuickJS frees every count but the last before the finalizer, JerryScript all
\* of them after it.
CountsGivenBackFirst(r) ==
    IF QuickJS THEN [ref EXCEPT ![r].count = 0, ![r].pins = 1] ELSE ref

Delete(r) ==
    /\ ProgramRuns
    /\ r \in ProgramRefs
    /\ IF ref[r].datum # None
       THEN /\ ref' = CountsGivenBackFirst(r)
            /\ attached' = InfoBeforeCall(ref[r].obj)
            /\ CallFinalizer(ref[r].datum, [op |-> "delete", ref |-> r])
       ELSE /\ ref' = [ref EXCEPT ![r].count = 0, ![r].pins = 0, ![r].freed = TRUE]
            /\ NoFinalizer
            /\ UNCHANGED attached
    /\ UNCHANGED <<engine, held, live, made, handlers, registered, removed, mode>>

\* A collected value is undefined on Ark; JerryScript answers nullptr to a count
\* of zero; QuickJS takes the value, collected or not.
GetYields(r) ==
    CASE Ark         -> ref[r].obj \in live
      [] QuickJS     -> UsesCollected \/ ref[r].obj \in live
      [] JerryScript -> ref[r].count > 0

Get(r) ==
    /\ ProgramRuns
    /\ r \in ProgramRefs
    /\ GetYields(r)
    /\ held' = held \cup {ref[r].obj}
    /\ UNCHANGED <<engine, live, ref, made, attached, handlers, registered, ran,
                   removed, stack, mode>>
-----------------------------------------------------------------------------
\* JavaScript lets go of an object, its handles go with their scope.
Drop(o) ==
    /\ ProgramRuns
    /\ o \in held
    /\ held' = held \ {o}
    /\ UNCHANGED <<engine, live, ref, made, attached, handlers, registered, ran,
                   removed, stack, mode>>

\* The collector, or the last count of a counted value.  Ark does not tell; on
\* the others the info an object carries is finalized with it.
Collect(o) ==
    /\ mode # "down"
    /\ o \in live \ held
    /\ ~Pinned(o)
    /\ live' = live \ {o}
    /\ IF ~Ark /\ attached[o] # None
       THEN /\ CallFinalizer(attached[o], [op |-> "object", ref |-> None])
            /\ attached' = [attached EXCEPT ![o] = None]
       ELSE NoFinalizer /\ UNCHANGED attached
    /\ UNCHANGED <<engine, held, ref, made, handlers, registered, removed, mode>>

\* The finalizer has returned: the rest of the operation that called it.
FinalizerReturns ==
    /\ stack # <<>>
    /\ stack' = Front(stack)
    /\ LET frame == Last(stack)
           r     == frame.ref
       IN CASE frame.op = "unref" ->
                 /\ UnrefEnds(r)
                 /\ attached' = InfoAfterCall(ref[r].obj)
            [] frame.op = "delete" ->
                 /\ ref' = [ref EXCEPT ![r].datum = None, ![r].count = 0,
                                       ![r].pins = 0, ![r].freed = TRUE]
                 /\ attached' = InfoAfterCall(ref[r].obj)
            [] frame.op = "object" -> UNCHANGED <<ref, attached>>
    /\ UNCHANGED <<engine, held, live, made, handlers, registered, ran, removed, mode>>
-----------------------------------------------------------------------------
\* NativeEngine::Deinit begins with ~NativeReferenceManager.
Deinit ==
    /\ mode = "up"
    /\ stack = <<>>
    /\ mode' = "deinit"
    /\ UNCHANGED <<engine, held, live, ref, made, attached, handlers, registered,
                   ran, removed, stack>>

\* One turn of the loop in the destructor.
DeleteNext ==
    /\ mode = "deinit"
    /\ stack = <<>>
    /\ handlers # <<>>
    /\ handlers' = Tail(handlers)
    /\ DeleteArk(Head(handlers))
    /\ UNCHANGED <<engine, held, live, made, attached, registered, removed, mode>>

ManagerGone ==
    /\ mode = "deinit"
    /\ stack = <<>>
    /\ handlers = <<>>
    /\ mode' = "down"
    /\ UNCHANGED <<engine, held, live, ref, made, attached, handlers, registered,
                   ran, removed, stack>>

Next ==
    \/ \E o \in Objects, count \in 0 .. 1 : CreateReference(o, count)
    \/ \E o \in Objects : Wrap(o)
    \/ \E o \in Objects : RemoveWrap(o)
    \/ \E o \in Objects, withRef \in BOOLEAN : AddFinalizer(o, withRef)
    \/ \E r \in RefIds : Ref(r)
    \/ \E r \in RefIds : Unref(r)
    \/ \E r \in RefIds : Delete(r)
    \/ \E r \in RefIds : Get(r)
    \/ \E o \in Objects : Drop(o)
    \/ \E o \in Objects : Collect(o)
    \/ FinalizerReturns
    \/ Deinit
    \/ DeleteNext
    \/ ManagerGone

Spec == Init /\ [][Next]_vars
-----------------------------------------------------------------------------
\* What the program can reach, and what a counted reference stands for, is
\* there: no value is collected under a count, and none is handed out after it
\* was collected (Ref, Unref and Get of the back ends' NativeReference).
ReachableIsLive ==
    /\ held \subseteq live
    /\ \A r \in RefIds : ref[r].count > 0 => ref[r].obj \in live

\* Between operations a reference keeps its value exactly as its count says,
\* and a deleted one not at all, whatever the finalizers inside the operations
\* did (the constructors, Ref, Unref and destructors of the back ends); and every
\* variable keeps its type, no count passing below zero.
PinsBalance ==
    /\ TypeOK
    /\ \A r \in RefIds \ BeingFinalized :
           ref[r].pins = IF ref[r].freed THEN 0 ELSE PinsFor(ref[r].count)

Carriers(d) ==
    {r \in RefIds : ref[r].datum = d /\ ~ref[r].freed}
        \cup (IF Ark THEN {} ELSE {o \in live : attached[o] = d})

\* Every datum is finalized once or given back, and until then something will
\* finalize it: its object, a reference, or on Ark the manager's list.
FinalizerAccounts ==
    \A d \in 1 .. registered :
        /\ ran[d] + (IF d \in removed THEN 1 ELSE 0) <= 1
        /\ ran[d] = 0 /\ d \notin removed =>
               \E c \in Carriers(d) : Ark => Contains(handlers, c) /\ mode # "down"
        /\ ran[d] = 1 /\ stack = <<>> => Carriers(d) = {}

\* The manager's list holds each of its references once and none that was
\* deleted, and until Deinit an object's wrapper is one of them (CreateHandler
\* and ReleaseHandler under finalizers that wrap and remove wraps).
ListSound ==
    /\ IsInjective(handlers)
    /\ \A r \in RefIds \ BeingFinalized :
           Contains(handlers, r) <=> ref[r].managed /\ ~ref[r].freed
    /\ Ark /\ mode = "up" =>
           \A o \in Objects : attached[o] # None =>
               Contains(handlers, attached[o]) /\ ref[attached[o]].obj = o
=============================================================================
