--------------------------- MODULE NativeModules ---------------------------
(***************************************************************************)
(* Loading native modules: NativeModuleManager, one list of modules for    *)
(* the process, and the functions requireNapi and requireInternal with     *)
(* which the scripts of each thread's environment ask for a module, next   *)
(* to GetModuleFromName and LoadModuleByName of the engine.                *)
(*                                                                         *)
(* A library tells its modules to the manager from its constructors, which *)
(* the dynamic loader runs one after the other, its dependencies' first;   *)
(* Register takes no lock.  A thread may load a library without asking     *)
(* the manager.  The loader, its lock and the libraries are external.  A   *)
(* module's callback or code runs in one step: what it requires in turn    *)
(* is left out, and so is a second registration under a name in the list.  *)
(***************************************************************************)
EXTENDS Naturals, Sequences, FiniteSets, FiniteSetsExt, SequencesExt

CONSTANTS
    Threads,      \* threads with an environment each
    BackEnds,     \* the back ends the process may be built with
    Names,        \* what is asked for: [stem, shape]
    Lower,        \* the lower-case form of each stem
    Libraries,    \* by path, [modules, needs, code] of a library, see the MC module
    MaxRequires,  \* bound on the number of requires
    MaxOutside    \* bound on the number of libraries loaded without the manager

Shapes == {"plain", "a file's name", "ends in a dot"}

\* A path of GetNativeModulePath, and none.
Path(place, stem, form) == [place |-> place, stem |-> stem, form |-> form]
NoPath == Path("none", "none", "none")

ASSUME ModulesAssumption ==
    /\ "free" \notin Threads
    /\ BackEnds \subseteq {"Ark", "V8", "QuickJS", "JerryScript"}
    /\ "null" \notin DOMAIN Lower
    /\ Names \subseteq [stem : DOMAIN Lower, shape : Shapes]
    /\ NoPath \notin DOMAIN Libraries
    /\ \A p \in DOMAIN Libraries :
          /\ Libraries[p].modules \in Seq([name : DOMAIN Lower, callback : BOOLEAN])
          /\ Libraries[p].needs \subseteq DOMAIN Libraries /\ IsFiniteSet(Libraries[p].needs)
    /\ MaxRequires \in Nat /\ MaxOutside \in Nat

VARIABLES
    backEnd,      \* the back end of the process
    list,         \* the modules, from firstNativeModule_ to lastNativeModule_
    appLibPath,   \* whether SetAppLibPath was called
    mutex,        \* the thread that holds mutex_, or "free"
    loader,       \* the thread that runs constructors, or "free"
    loaded,       \* the paths of the libraries in the process
    at,           \* where each thread is, with what it is after
    exports,      \* loadedModules_ of each environment: modules with an exports object
    count         \* number of requires and of loads outside so far

vars == <<backEnd, list, appLibPath, mutex, loader, loaded, at, exports, count>>
manager == <<backEnd, list, appLibPath>>

NoCode == [kind |-> "none"]

\* A module of the list: its fields, the library that registered it and whether
\* the manager was loading that library.
Linked(library, asked) ==
    [name |-> "null", from |-> library, asked |-> asked, callback |-> FALSE, code |-> NoCode]
NoAsk == [route |-> "none"]
NoName == [stem |-> "none", shape |-> "plain"]

\* Where a thread is; the rest is what it is after and what it has found.
Idle == [pc |-> "idle", asking |-> FALSE, ask |-> NoAsk, name |-> NoName,
         before |-> 0,         \* length of the list when it was searched
         paths |-> <<>>,       \* paths that are left to try
         path |-> NoPath,      \* the library that was opened
         todo |-> <<>>,        \* what its constructors have still to register
         module |-> 0,         \* the module that was found
         where |-> "nowhere"]  \* where the null pointer was followed
Crashed == \E t \in Threads : at[t].pc = "crashed"

Init ==
    /\ backEnd \in BackEnds
    /\ list = <<>> /\ appLibPath = FALSE
    /\ mutex = "free" /\ loader = "free" /\ loaded = {}
    /\ at = [t \in Threads |-> Idle] /\ exports = [t \in Threads |-> {}] /\ count = [requires |-> 0, outside |-> 0]

\* Takes no lock; called when no module is being loaded.
SetAppLibPath ==
    /\ \A t \in Threads : at[t] = Idle
    /\ ~appLibPath /\ appLibPath' = TRUE
    /\ UNCHANGED <<backEnd, list, mutex, loader, loaded, at, exports, count>>

Goes(t, pc) == at' = [at EXCEPT ![t].pc = pc]
Crash(t, where) == at' = [at EXCEPT ![t].pc = "crashed", ![t].where = where]
Constructs(t, path, todo) ==
    at' = [at EXCEPT ![t].pc = "construct", ![t].path = path, ![t].todo = todo]

-----------------------------------------------------------------------------
(***************************************************************************)
(* The ways to ask.  internal: no code is looked for; ark: it is looked    *)
(* for as byte code, which of Ark's ways only requireNapi does.  cached:   *)
(* the environment keeps the exports; code: the module's code is run;      *)
(* tests: the callback is not called when there is none.                   *)
(***************************************************************************)
Ask(route, app, internal, ark, cached, code, tests) ==
    [route |-> route, app |-> app, internal |-> internal, ark |-> ark,
     cached |-> cached, code |-> code, tests |-> tests]
ArkAsks(app) ==
    {Ask("requireNapi", app, FALSE, TRUE, TRUE, TRUE, TRUE),
     Ask("requireInternal", FALSE, FALSE, FALSE, TRUE, FALSE, FALSE)}
V8Asks(app) ==
    {Ask("requireNapi", app, FALSE, FALSE, FALSE, TRUE, TRUE),
     Ask("requireInternal", FALSE, TRUE, FALSE, FALSE, FALSE, FALSE)}
QuickJSAsks(app) ==
    {Ask("requireNapi", app, FALSE, FALSE, FALSE, TRUE, TRUE),
     Ask("requireInternal", FALSE, TRUE, FALSE, FALSE, FALSE, TRUE)}
JerryAsks == {Ask("requireNapi", FALSE, FALSE, FALSE, FALSE, FALSE, FALSE)}

\* GetModuleFromName and LoadModuleByName: alike but for what they put into exports.
ByName(app) == {Ask("GetModuleFromName", app, FALSE, FALSE, FALSE, FALSE, FALSE)}

Asks(app) == CASE backEnd = "Ark"         -> ArkAsks(app) \cup ByName(app)
               [] backEnd = "V8"          -> V8Asks(app) \cup ByName(app)
               [] backEnd = "QuickJS"     -> QuickJSAsks(app) \cup ByName(app)
               [] backEnd = "JerryScript" -> JerryAsks

Require(t, ask, name) ==
    /\ count.requires < MaxRequires
    /\ at' = [at EXCEPT ![t].pc = "lock", ![t].asking = TRUE, ![t].ask = ask, ![t].name = name]
    /\ count' = [count EXCEPT !.requires = @ + 1]
    /\ UNCHANGED <<manager, mutex, loader, loaded, exports>>

\* GetNativeModulePath: the primary path and the secondary one, "" when there is none.
Paths(name, app) ==
    LET own   == app /\ appLibPath
        place == IF own THEN "app" ELSE "system"
        stem  == IF own THEN name.stem ELSE Lower[name.stem] IN
    CASE name.shape = "ends in a dot" -> <<>>
      [] name.shape = "a file's name" \/ own -> <<Path(place, stem, "lib")>>
      [] OTHER -> <<Path(place, stem, "lib"), Path(place, stem, "lib_napi")>>

\* Whether a registered name is the one asked for, without regard to case.
SameName(registered, name) ==
    name.shape = "plain" /\ Lower[registered] = Lower[name.stem]

-----------------------------------------------------------------------------
(* LoadNativeModule *)

\* MUTANT: strcmp for strcasecmp
Cached_mut(name) == {i \in DOMAIN list : list[i].name = name.stem /\ name.shape = "plain"}
\* FindNativeModuleByCache stops at the first module of the name, and reads the
\* name of each module up to it.
Cached(name) == {i \in DOMAIN list : list[i].name # "null" /\ SameName(list[i].name, name)}
ReadsNull(name) == \E i \in DOMAIN list : list[i].name = "null" /\ \A j \in Cached(name) : i < j

\* MUTANT: LoadNativeModule does not take mutex_
CanLock_mut == TRUE
CanLock == mutex = "free"

FindNativeModuleByCache(t) ==
    /\ at[t].pc = "lock" /\ CanLock
    /\ IF ReadsNull(at[t].name) THEN Crash(t, "cache") /\ UNCHANGED mutex
       ELSE IF Cached(at[t].name) # {}
       THEN /\ at' = [at EXCEPT ![t].pc = "use", ![t].before = Len(list),
                                ![t].module = Min(Cached(at[t].name))]
            /\ UNCHANGED mutex
       ELSE /\ at' = [at EXCEPT ![t].pc = "open", ![t].before = Len(list),
                                ![t].paths = Paths(at[t].name, at[t].ask.app)]
            /\ mutex' = t
    /\ UNCHANGED <<manager, loader, loaded, exports, count>>

\* The libraries whose constructors dlopen runs, what these register, and the orders
\* it may be in: one library after another, the one that is asked for last.
Opened(path) == ({path} \cup Libraries[path].needs) \ loaded
Registrations(path) ==
    UNION {{[path |-> p, number |-> n, module |-> Libraries[p].modules[n]] :
               n \in DOMAIN Libraries[p].modules} : p \in Opened(path)}
Constructors(path) ==
    {s \in SetToSeqs(Registrations(path)) :
        \A i, j \in DOMAIN s : i < j =>
            /\ s[i].path = path => s[j].path = path
            /\ s[i].path = s[j].path =>
                   s[i].number < s[j].number /\ \A k \in i .. j : s[k].path = s[i].path}

\* LoadModuleLibrary on the first path left; on failure the next one, if any.
LoadModuleLibrary(t) ==
    /\ at[t].pc = "open"
    /\ IF at[t].paths = <<>>
       THEN /\ at' = [at EXCEPT ![t] = Idle] /\ mutex' = "free"
            /\ UNCHANGED <<loader, loaded>>
       ELSE LET path == Head(at[t].paths) IN
            /\ loader = "free" /\ UNCHANGED mutex
            /\ IF path \notin DOMAIN Libraries
               THEN at' = [at EXCEPT ![t].paths = Tail(@)] /\ UNCHANGED <<loader, loaded>>
               ELSE /\ \E todo \in Constructors(path) : Constructs(t, path, todo)
                    /\ loader' = t /\ loaded' = loaded \cup Opened(path)
    /\ UNCHANGED <<manager, exports, count>>

\* dlopen by anyone else.
LoadOutside(t, path) ==
    /\ count.outside < MaxOutside /\ loader = "free" /\ path \notin loaded
    /\ \E todo \in Constructors(path) : Constructs(t, path, todo)
    /\ loader' = t /\ loaded' = loaded \cup Opened(path)
    /\ count' = [count EXCEPT !.outside = @ + 1]
    /\ UNCHANGED <<manager, mutex, exports>>

Asking(t) == at[t].asking

\* MUTANT: Register takes mutex_
CanRegister_mut == mutex = "free"
CanRegister == TRUE

\* Register links the new node into the list and then fills it.
Link(t) ==
    /\ at[t].pc = "construct" /\ at[t].todo # <<>> /\ CanRegister
    /\ list' = Append(list, Linked(Head(at[t].todo).path, Asking(t)))
    /\ Goes(t, "fill")
    /\ UNCHANGED <<backEnd, appLibPath, mutex, loader, loaded, exports, count>>

Fill(t) ==
    /\ at[t].pc = "fill"
    /\ LET module == Head(at[t].todo).module IN
       list' = [list EXCEPT ![Len(list)].name = module.name, ![Len(list)].callback = module.callback]
    /\ Constructs(t, at[t].path, Tail(at[t].todo))
    /\ UNCHANGED <<backEnd, appLibPath, mutex, loader, loaded, exports, count>>

Constructed(t) ==
    /\ at[t].pc = "construct" /\ at[t].todo = <<>>
    /\ loader' = "free"
    /\ IF Asking(t) THEN Goes(t, "compare") ELSE at' = [at EXCEPT ![t] = Idle]
    /\ UNCHANGED <<manager, mutex, loaded, exports, count>>

\* The rest of FindNativeModuleByDisk reads lastNativeModule_ three times.
CompareName(t) ==
    /\ at[t].pc = "compare"
    /\ IF list = <<>> \/ Last(list).name = "null" THEN Crash(t, "compare") ELSE Goes(t, "code")
    /\ UNCHANGED <<manager, mutex, loader, loaded, exports, count>>

\* MUTANT: the last argument of requireNapi's LoadNativeModule left out
ByteCode_mut(ask) == FALSE
ByteCode(ask) == ask.ark

\* NAPI_<name>_GetABCCode or NAPI_<name>_GetJSCode of the library.
Symbol(t) == [of |-> at[t].name.stem, kind |-> IF ByteCode(at[t].ask) THEN "ABC" ELSE "JS"]
HasSymbol(t) == /\ ~at[t].ask.internal /\ at[t].name.shape = "plain"
                /\ Symbol(t) \in Libraries[at[t].path].code

AttachCode(t) ==
    /\ at[t].pc = "code"
    /\ list' = IF HasSymbol(t)
               THEN [list EXCEPT ![Len(list)].code =
                        [path |-> at[t].path, kind |-> Symbol(t).kind, name |-> at[t].name,
                         route |-> at[t].ask.route, before |-> at[t].before]]
               ELSE list
    /\ Goes(t, "give")
    /\ UNCHANGED <<backEnd, appLibPath, mutex, loader, loaded, exports, count>>

GiveLast(t) ==
    /\ at[t].pc = "give"
    /\ at' = [at EXCEPT ![t].pc = "use", ![t].module = Len(list)]
    /\ mutex' = "free"
    /\ UNCHANGED <<manager, loader, loaded, exports, count>>

-----------------------------------------------------------------------------
(***************************************************************************)
(* What is done with the module: nothing more when the environment has its *)
(* exports, else its code is executed, or its callback is called.          *)
(***************************************************************************)
Module(t) == list[at[t].module]
Has(t) == at[t].ask.cached /\ at[t].module \in exports[t]
RunsCode(t) == ~Has(t) /\ at[t].ask.code /\ Module(t).code # NoCode
CallsBack(t) == ~Has(t) /\ ~RunsCode(t) /\ (at[t].ask.tests => Module(t).callback)

Use(t) ==
    /\ at[t].pc = "use"
    /\ IF CallsBack(t) /\ ~Module(t).callback
       THEN Crash(t, "callback") /\ UNCHANGED exports
       ELSE /\ at' = [at EXCEPT ![t] = Idle]
            /\ exports' = IF at[t].ask.cached /\ (RunsCode(t) \/ CallsBack(t))
                          THEN [exports EXCEPT ![t] = @ \cup {at[t].module}] ELSE exports
    /\ UNCHANGED <<manager, mutex, loader, loaded, count>>

Steps(t) == FindNativeModuleByCache(t) \/ LoadModuleLibrary(t) \/ Link(t) \/ Fill(t)
            \/ Constructed(t) \/ CompareName(t) \/ AttachCode(t) \/ GiveLast(t) \/ Use(t)

\* What an idle thread may begin.
Asked(t) ==
    /\ at[t] = Idle
    /\ \/ \E app \in BOOLEAN : \E ask \in Asks(app), name \in Names : Require(t, ask, name)
       \/ \E path \in DOMAIN Libraries : LoadOutside(t, path)

Next == ~Crashed /\ (SetAppLibPath \/ \E t \in Threads : Steps(t) \/ Asked(t))

\* A runnable thread runs on; the loader and the libraries' constructors return.
Spec == Init /\ [][Next]_vars /\ \A t \in Threads : WF_vars(~Crashed /\ Steps(t))

-----------------------------------------------------------------------------
\* No library that the manager was not asked for has registered since the search of t began.
Undisturbed(before) == \A i \in DOMAIN list : i > before => list[i].asked

(***************************************************************************)
(* FindNativeModuleByDisk returns the module registered last, as the one   *)
(* of the library it opened.  It is: a module whose name was in the list   *)
(* before is given by its name, whatever its case, and a library opened    *)
(* for the first time yields a module of its own, unless a library loaded  *)
(* without the manager registers at the same time.                         *)
(***************************************************************************)
ModuleIsAsked ==
    \A t \in Threads : at[t].pc = "use" =>
        LET new == {i \in DOMAIN list : i > at[t].before /\ list[i].from = at[t].path} IN
        /\ (\E i \in 1 .. at[t].before : list[i].name # "null" /\ SameName(list[i].name, at[t].name))
              => SameName(Module(t).name, at[t].name)
        /\ new # {} /\ Undisturbed(at[t].before) => at[t].module = Max(new)

(***************************************************************************)
(* The code that FindNativeModuleByDisk sets on the module registered last *)
(* is of that module's own library, unless the library registers no module *)
(* of the name it is asked by, so that it is searched for again with other *)
(* modules behind its own, or another library registers at the same time.  *)
(* And an engine executes only the kind of code it can: Ark's              *)
(* LoadArkModule takes byte code, the others' LoadModule a source text.    *)
(* On Ark it may be otherwise when the library was first opened by one of  *)
(* the ways that look for a source text.                                   *)
(***************************************************************************)
CodeIsRight ==
    /\ \A i \in DOMAIN list : list[i].code # NoCode =>
           LET code == list[i].code IN
           \/ code.path = list[i].from
           \/ \A m \in Range(Libraries[code.path].modules) : ~SameName(m.name, code.name)
           \/ ~Undisturbed(code.before)
    /\ \A t \in Threads : at[t].pc = "use" /\ RunsCode(t) =>
           \/ Module(t).code.kind = (IF backEnd = "Ark" THEN "ABC" ELSE "JS")
           \/ backEnd = "Ark" /\ Module(t).code.route # "requireNapi"

(***************************************************************************)
(* A null pointer is followed only where the code leaves a test out: with  *)
(* a library that registers no module at all, or while a library loaded    *)
(* without the manager registers, or for a module without a callback.      *)
(***************************************************************************)
CrashHasCause ==
    \A t \in Threads : at[t].pc = "crashed" =>
        CASE at[t].where = "callback" -> at[t].ask.route # "requireNapi" \/ backEnd = "JerryScript"
          [] OTHER -> list = <<>> \/ (loader \in Threads /\ ~Asking(loader))

(***************************************************************************)
(* A require returns: mutex_ is held over dlopen, whose constructors call  *)
(* Register, and a thread that runs constructors may meet one that holds   *)
(* mutex_ and waits for the loader.                                        *)
(***************************************************************************)
RequireReturns == \A t \in Threads : at[t].pc # "idle" ~> (at[t].pc = "idle" \/ Crashed)
=============================================================================
