---------------------------- MODULE HandleScopes ----------------------------
(***************************************************************************)
(* NativeScopeManager (scope_manager/native_scope_manager.cpp): the chain   *)
(* of handle scopes of an engine, as the Node-API functions and the         *)
(* callbacks of the engine back ends drive it.                              *)
(*                                                                          *)
(* Open pushes below current_, but Close takes any scope, and it is called  *)
(* by two parties: user code closes the scopes it opened, and a back end    *)
(* closes the scope it opened around a call of user code (a native          *)
(* function, a constructor, an after-work callback) whatever user code has  *)
(* left open inside.  A NativeHandle is identified with its value.          *)
(*                                                                          *)
(* A value registers itself with the current scope when it is constructed,  *)
(* and the scope deletes it.  JerryScript's references break that rule: to  *)
(* finalize, they make a value for themselves and delete it at once, and    *)
(* its handle stays.  A freed value's address is not used again here.       *)
(***************************************************************************)
EXTENDS Naturals, Sequences, SequencesExt

CONSTANTS
    NullScope,     \* nullptr
    MaxScopes,     \* bound: scopes opened in all
    MaxValues      \* bound: values created in all

ASSUME ScopesAssumption ==
    /\ MaxScopes \in Nat
    /\ MaxValues \in Nat
    /\ NullScope \notin 0 .. MaxScopes

root == 0
Scopes == 0 .. MaxScopes
Values == 1 .. MaxValues

VARIABLES
    alive,      \* the NativeScope objects that are allocated
    opened,     \* scopes created so far, the root left out
    current,    \* current_
    parent,     \* scope->parent
    child,      \* scope->child
    escaped,    \* scope->escaped: opened by OpenEscape
    handles,    \* scope->handlePtr, the most recent handle first
    created,    \* values created so far
    deletions,  \* ghost: how often a value was deleted
    discarded,  \* ghost: the values a back end made for itself and deleted
    open,       \* ghost: the scopes their openers have to close, last one on top
    home,       \* ghost: the open scope a value was created in or escaped to
    leaked      \* ghost: user code returned without closing its scopes

vars == <<alive, opened, current, parent, child, escaped, handles, created,
          deletions, discarded, open, home, leaked>>

Pointers == Scopes \cup {NullScope}

TypeOK ==
    /\ alive \subseteq Scopes
    /\ opened \in 0 .. MaxScopes
    /\ current \in Pointers
    /\ parent \in [Scopes -> Pointers]
    /\ child \in [Scopes -> Pointers]
    /\ escaped \in [Scopes -> BOOLEAN]
    /\ handles \in [Scopes -> Seq(Values)]
    /\ created \in 0 .. MaxValues
    /\ deletions \in [Values -> 0 .. 2]
    /\ discarded \subseteq 1 .. created
    /\ open \in Seq([scope : Scopes, by : {"user", "engine"}])
    /\ home \in [Values -> Scopes]
    /\ leaked \in BOOLEAN

Init ==
    /\ alive = {root}
    /\ opened = 0
    /\ current = root
    /\ parent = [s \in Scopes |-> NullScope]
    /\ child = [s \in Scopes |-> NullScope]
    /\ escaped = [s \in Scopes |-> FALSE]
    /\ handles = [s \in Scopes |-> <<>>]
    /\ created = 0
    /\ deletions = [v \in Values |-> 0]
    /\ discarded = {}
    /\ open = <<[scope |-> root, by |-> "engine"]>>
    /\ home = [v \in Values |-> root]
    /\ leaked = FALSE
-----------------------------------------------------------------------------
Destroyed == root \notin alive

Deleted(vs) == deletions' = [v \in Values |-> deletions[v] + (IF v \in vs THEN 1 ELSE 0)]

Open(by, isEscaped) ==
    LET scope == opened + 1 IN
    /\ ~Destroyed
    /\ opened < MaxScopes
    /\ opened' = scope
    /\ alive' = alive \cup {scope}
    /\ child' = [child EXCEPT ![current] = scope]
    /\ parent' = [parent EXCEPT ![scope] = current]
    /\ escaped' = [escaped EXCEPT ![scope] = isEscaped]
    /\ current' = scope
    /\ open' = Append(open, [scope |-> scope, by |-> by])
    /\ UNCHANGED <<handles, created, deletions, discarded, home, leaked>>

\* MUTANT: current_ keeps pointing at the scope that was closed.
Close_staysCurrent(scope) ==
    /\ scope # root
    /\ child' = [child EXCEPT ![parent[scope]] = child[scope]]
    /\ Deleted(Range(handles[scope]))
    /\ handles' = [handles EXCEPT ![scope] = <<>>]
    /\ alive' = alive \ {scope}
    /\ UNCHANGED <<current, opened, parent, escaped, created, discarded, home>>

\* The scope goes with its handles and their values.  Its child, if it has one,
\* moves up the chain but keeps its parent pointer.
Close(scope) ==
    /\ scope # root
    /\ current' = IF scope = current THEN parent[scope] ELSE current
    /\ child' = [child EXCEPT ![parent[scope]] = child[scope]]
    /\ Deleted(Range(handles[scope]))
    /\ handles' = [handles EXCEPT ![scope] = <<>>]
    /\ alive' = alive \ {scope}
    /\ UNCHANGED <<opened, parent, escaped, created, discarded, home>>

\* The constructor of a value puts its handle first in the current scope.
CreateHandle(value) ==
    /\ ~Destroyed
    /\ created < MaxValues
    /\ value = created + 1
    /\ created' = value
    /\ handles' = [handles EXCEPT ![current] = <<value>> \o @]
    /\ home' = [home EXCEPT ![value] = Last(open).scope]
    /\ UNCHANGED <<alive, opened, current, parent, child, escaped, open, leaked>>

\* MUTANT: the handle is copied to the parent, not moved.
Escape_copies(scope, value) ==
    /\ escaped[scope]
    /\ value \in Range(handles[scope])
    /\ handles' = [handles EXCEPT ![parent[scope]] = <<value>> \o @]

\* The handle moves to the front of the parent's list.
Escape(scope, value) ==
    /\ escaped[scope]
    /\ value \in Range(handles[scope])
    /\ handles' = [handles EXCEPT
                      ![scope] = RemoveFirst(@, value),
                      ![parent[scope]] = <<value>> \o @]
-----------------------------------------------------------------------------
(* Who calls *)

\* napi_open_handle_scope, napi_open_escapable_handle_scope
UserOpens(isEscaped) == Open("user", isEscaped)

\* napi_close_(escapable_)handle_scope: user code closes its scopes in reverse
\* order, as Node-API demands.
UserCloses ==
    /\ Last(open).by = "user"
    /\ Close(Last(open).scope)
    /\ open' = Front(open)
    /\ UNCHANGED leaked

\* A value the caller is given: any call with a result.
UserCreates ==
    /\ \E value \in Values : CreateHandle(value)
    /\ UNCHANGED <<deletions, discarded>>

\* The last napi_reference_unref or napi_delete_reference on JerryScript: the
\* JerryScriptNativeObject made for AddFinalizer is deleted, its handle is not.
FinalizeCallback ==
    \E value \in Values :
        /\ CreateHandle(value)
        /\ Deleted({value})
        /\ discarded' = discarded \cup {value}

\* napi_escape_handle with a value the caller holds, on a scope it has open.
\* A value that is not found in the scope gives a null result and napi_ok.
UserEscapes(n, value) ==
    /\ open[n].by = "user"
    /\ value \notin discarded
    /\ Escape(open[n].scope, value)
    /\ home' = [home EXCEPT ![value] = open[n - 1].scope]
    /\ UNCHANGED <<alive, opened, current, parent, child, escaped, created,
                   deletions, discarded, open, leaked>>

\* The engine calls user code: NativeFunctionCallBack, AsyncAfterWorkCallback...
CallUser == Open("engine", FALSE)

\* User code returns, and the engine closes the scope it opened for the call.
UserReturns ==
    \E n \in 2 .. Len(open) :
        /\ open[n].by = "engine"
        /\ \A m \in n + 1 .. Len(open) : open[m].by = "user"
        /\ Close(open[n].scope)
        /\ open' = SubSeq(open, 1, n - 1)
        /\ leaked' = (leaked \/ n < Len(open))

\* Where the destructor is after n steps along the child pointers.
Hop[n \in 0 .. MaxScopes] ==
    IF n = 0 THEN root
    ELSE IF Hop[n - 1] = NullScope THEN NullScope ELSE child[Hop[n - 1]]

\* The scopes the destructor finds.
ChainFromRoot == {Hop[n] : n \in 0 .. MaxScopes} \ {NullScope}

\* ~NativeScopeManager: every scope of the chain, its handles and their values.
Destroy ==
    /\ ~Destroyed
    /\ alive' = alive \ ChainFromRoot
    /\ Deleted(UNION {Range(handles[s]) : s \in ChainFromRoot})
    /\ handles' = [s \in Scopes |-> IF s \in ChainFromRoot THEN <<>> ELSE handles[s]]
    /\ current' = NullScope
    /\ open' = <<>>
    /\ UNCHANGED <<opened, parent, child, escaped, created, discarded, home, leaked>>

Next ==
    \/ \E isEscaped \in BOOLEAN : UserOpens(isEscaped)
    \/ open # <<>> /\ UserCloses
    \/ \E n \in 2 .. Len(open), value \in 1 .. created : UserEscapes(n, value)
    \/ UserCreates
    \/ FinalizeCallback
    \/ CallUser
    \/ UserReturns
    \/ Destroy

Spec == Init /\ [][Next]_vars
-----------------------------------------------------------------------------
(* Properties *)

OpenScopes == {open[n].scope : n \in DOMAIN open}

\* Every value but those a back end discards.
KeptByScopes == (1 .. created) \ discarded

\* Nothing the next call dereferences is freed: current_, the open scopes, and
\* the parents Close and Escape go through, although an engine scope may be
\* closed above scopes that user code left open.  The chain the destructor walks
\* holds every live scope and no freed one, and a value is deleted once: never a
\* second time by a scope it has left, and at the latest by the destructor.  The
\* exception is a value that JerryScript's FinalizeCallback discards: its scope,
\* or the destructor, deletes it again.
NothingDangles ==
    /\ TypeOK
    /\ ~Destroyed =>
           /\ current \in alive
           /\ \A s \in OpenScopes : s \in alive /\ (s # root => parent[s] \in alive)
           /\ ChainFromRoot = alive
    /\ \A v \in KeptByScopes :
           /\ deletions[v] <= 1
           /\ Destroyed => deletions[v] = 1

\* No value is deleted while the scope it was created in or escaped to is open,
\* but for those a back end discards.  When user code closes what it opens, a
\* value also goes with its scope: none is kept by a scope that is not open, and
\* its home is the scope that holds it.
ValuesLiveWithScope ==
    /\ \A v \in KeptByScopes : home[v] \in OpenScopes => deletions[v] = 0
    /\ ~leaked =>
           /\ ~Destroyed => alive = OpenScopes
           /\ \A v \in KeptByScopes :
                 \/ deletions[v] = 1
                 \/ v \in Range(handles[home[v]])
=============================================================================
