------------------------ MODULE NativeModules_proofs ------------------------
(***************************************************************************)
(* Proofs about NativeModules, for any threads, libraries and names, and   *)
(* any number of requests: who asks for a module gets it, code is attached *)
(* to its own module, and a crash has one of the known causes.             *)
(***************************************************************************)
EXTENDS NativeModules, SequenceLemmas, FiniteSetTheorems

Routes == {"requireNapi", "requireInternal", "GetModuleFromName"}
Registered == [name : DOMAIN Lower, callback : BOOLEAN]
Orders     == [path : DOMAIN Libraries, number : Nat, module : Registered]
Codes      == {NoCode} \cup [path : DOMAIN Libraries, kind : {"ABC", "JS"}, name : Names,
                              route : Routes, before : Nat]
Nodes      == [name : DOMAIN Lower \cup {"null"}, from : DOMAIN Libraries, asked : BOOLEAN,
               callback : BOOLEAN, code : Codes]

\* The stages of a thread: it searches under mutex_, runs constructors, has run
\* those of the library it opened.
Searching    == {"open", "construct", "fill", "compare", "code", "give"}
Constructing == {"construct", "fill"}
Found      == {"compare", "code", "give", "use"}
Stages       == Searching \cup {"idle", "lock", "use", "crashed"}

\* What a thread is after and what it has found.
AllAsks  == Asks(TRUE) \cup Asks(FALSE)
AllPaths == [place : {"app", "system"}, stem : DOMAIN Lower \cup Range(Lower), form : {"lib", "lib_napi"}]
Progress == [pc : Stages, asking : BOOLEAN, ask : {NoAsk} \cup AllAsks, name : {NoName} \cup Names,
             before : Nat, paths : Seq(AllPaths), path : {NoPath} \cup DOMAIN Libraries,
             todo : Seq(Orders), module : Nat, where : {"nowhere", "cache", "compare", "callback"}]

\* The registrations that are still to come.
Todo == IF loader \in Threads THEN at[loader].todo ELSE <<>>

\* What is shared: one thread runs constructors; the only module without a name
\* is the last one, while Register fills it; every module of a library in the
\* process is in the list or about to be; the code of a module is its own, and
\* of a kind given by the way it was asked for.
TypeInv ==
    /\ backEnd \in {"Ark", "V8", "QuickJS", "JerryScript"}
    /\ list \in Seq(Nodes)
    /\ loaded \subseteq DOMAIN Libraries
    /\ at \in [Threads -> Progress]
LoaderInv ==
    /\ loader \in Threads \cup {"free"}
    /\ loader \in Threads => at[loader].pc \in Constructing
NamesInv ==
    \A i \in DOMAIN list : list[i].name = "null" =>
        i = Len(list) /\ loader \in Threads /\ at[loader].pc = "fill"
Listed(p, m) == \E i \in DOMAIN list : list[i].from = p /\ list[i].name = m.name
Due(p, m) == \E k \in DOMAIN Todo : Todo[k].path = p /\ Todo[k].module = m
CompleteInv ==
    \A p \in loaded : \A m \in Range(Libraries[p].modules) : Due(p, m) \/ Listed(p, m)
KindOk(code) == \/ code.kind = (IF backEnd = "Ark" THEN "ABC" ELSE "JS")
                \/ backEnd = "Ark" /\ code.route # "requireNapi"
OwnerOk(node) ==
    \/ node.code.path = node.from
    \/ \A m \in Range(Libraries[node.code.path].modules) : ~SameName(m.name, node.code.name)
    \/ ~Undisturbed(node.code.before)
CodeInv ==
    \A i \in DOMAIN list : list[i].code # NoCode => KindOk(list[i].code) /\ OwnerOk(list[i])
SharedInv == TypeInv /\ LoaderInv /\ NamesInv /\ CompleteInv /\ CodeInv

\* What a thread has, and the locks it holds, at each stage.
StageOk(t) ==
    /\ at[t].pc \in {"lock", "open", "compare", "code", "give", "use"} => at[t].asking
    /\ at[t].asking => at[t].ask \in AllAsks /\ at[t].name \in Names
    /\ at[t].before <= Len(list)
    /\ at[t].pc \in Constructing \cup Found =>
          at[t].path \in loaded \/ (at[t].pc = "use" /\ at[t].path = NoPath)
    /\ at[t].pc \in {"lock", "open"} => at[t].path = NoPath
    /\ at[t].pc \in Constructing => loader = t
    /\ at[t].pc \in Searching /\ at[t].asking => mutex = t
    /\ at[t].pc \in {"code", "give"} => list # <<>>
    /\ at[t].pc = "use" => at[t].module \in DOMAIN list

\* Register at work.
FillOk(t) ==
    at[t].pc = "fill" =>
        /\ list # <<>> /\ at[t].todo # <<>>
        /\ list[Len(list)].name = "null"
        /\ list[Len(list)].from = Head(at[t].todo).path
        /\ list[Len(list)].asked = at[t].asking

\* What came into the list since the search of t began, by threads that ask.
Since(t) == {i \in DOMAIN list : i > at[t].before /\ list[i].asked}

\* No module that was in the list when the search began has the name.
Unmatched(t) ==
    \A i \in 1 .. at[t].before : list[i].name # "null" /\ ~SameName(list[i].name, at[t].name)

\* The modules of the library that is opened come last.
LastOk(t) ==
    \A i \in Since(t) : list[i].from = at[t].path =>
        /\ \A j \in Since(t) : i < j => list[j].from = at[t].path
        /\ at[t].pc \in Constructing =>
              \A k \in DOMAIN at[t].todo : at[t].todo[k].path = at[t].path

\* The modules a library registers of itself while a thread is after it.
New(t) == {i \in DOMAIN list : i > at[t].before /\ list[i].from = at[t].path}
SearchOk(t) ==
    /\ at[t].pc \in Constructing =>
          \A k, l \in DOMAIN at[t].todo : k < l /\ at[t].todo[k].path = at[t].path
                                             => at[t].todo[l].path = at[t].path
    /\ at[t].pc \in Searching /\ at[t].asking => Unmatched(t)
    /\ at[t].pc = "open" => Since(t) = {}
    /\ at[t].pc \in Searching \ {"open"} /\ at[t].asking => LastOk(t)
    /\ at[t].pc \in Found => \A k \in DOMAIN Todo : Todo[k].path # at[t].path
    /\ at[t].pc = "use" =>
          /\ Unmatched(t) \/ (Module(t).name # "null" /\ SameName(Module(t).name, at[t].name))
          /\ New(t) # {} /\ Undisturbed(at[t].before) =>
                at[t].module \in New(t) /\ \A i \in New(t) : i <= at[t].module

\* The causes of a crash.
CrashOk(t) ==
    at[t].pc = "crashed" =>
        CASE at[t].where = "callback" -> at[t].ask.route # "requireNapi" \/ backEnd = "JerryScript"
          [] OTHER -> list = <<>> \/ (loader \in Threads /\ ~Asking(loader))

ThreadInv == \A t \in Threads : StageOk(t) /\ FillOk(t) /\ SearchOk(t) /\ CrashOk(t)
ModulesInv == SharedInv /\ ThreadInv
-----------------------------------------------------------------------------
(* Records, constructors and ways to ask *)

\* What is asked for as byte code, and who calls back without a test.
LEMMA AskFacts ==
    ASSUME backEnd \in {"Ark", "V8", "QuickJS", "JerryScript"},
           NEW app \in BOOLEAN, NEW ask \in Asks(app)
    PROVE  /\ ask.route \in Routes
           /\ \/ ask.ark = TRUE /\ backEnd = "Ark" /\ ask.route = "requireNapi"
              \/ ask.ark = FALSE /\ ~(backEnd = "Ark" /\ ask.route = "requireNapi")
           /\ ask.tests = TRUE \/ ask.route # "requireNapi" \/ backEnd = "JerryScript"
  <1>1. CASE backEnd = "Ark"
    <2>1. ask \in ArkAsks(app) \cup ByName(app)
      BY <1>1 DEF Asks
    <2> QED  BY <1>1, <2>1 DEF Ask, ArkAsks, ByName, Routes
  <1>2. CASE backEnd = "V8"
    <2>1. ask \in V8Asks(app) \cup ByName(app)
      BY <1>2 DEF Asks
    <2> QED  BY <1>2, <2>1 DEF Ask, V8Asks, ByName, Routes
  <1>3. CASE backEnd = "QuickJS"
    <2>1. ask \in QuickJSAsks(app) \cup ByName(app)
      BY <1>3 DEF Asks
    <2> QED  BY <1>3, <2>1 DEF Ask, QuickJSAsks, ByName, Routes
  <1>4. CASE backEnd = "JerryScript"
    <2>1. ask \in JerryAsks
      BY <1>4 DEF Asks
    <2> QED  BY <1>4, <2>1 DEF Ask, JerryAsks, Routes
  <1> QED  BY <1>1, <1>2, <1>3, <1>4

\* The ways to ask depend on the back end only.
LEMMA AsksSame == UNCHANGED backEnd => AllAsks' = AllAsks /\ Progress' = Progress
  BY DEF AllAsks, Asks, ArkAsks, V8Asks, QuickJSAsks, JerryAsks, ByName, Ask, Progress

\* The registrations of the libraries that are opened: all of them, the path's
\* own after the others.
LEMMA ConstructorsFacts ==
    ASSUME NEW path \in DOMAIN Libraries, NEW s \in Constructors(path)
    PROVE  /\ s \in Seq(Orders)
           /\ \A k \in DOMAIN s : s[k].path \in Opened(path)
           /\ \A k, l \in DOMAIN s : k < l /\ s[k].path = path => s[l].path = path
           /\ \A p \in Opened(path) : \A m \in Range(Libraries[p].modules) :
                 \E k \in DOMAIN s : s[k].path = p /\ s[k].module = m
  <1> DEFINE R == Registrations(path)
             M(p) == {[path |-> p, number |-> n, module |-> Libraries[p].modules[n]] :
                          n \in DOMAIN Libraries[p].modules}
             size == Cardinality(R)
  <1>1. Opened(path) \subseteq DOMAIN Libraries /\ IsFiniteSet(Opened(path))
    <2>1. IsFiniteSet({path} \cup Libraries[path].needs)
      BY ModulesAssumption, FS_Singleton, FS_Union
    <2> QED  BY <2>1, ModulesAssumption, FS_Difference DEF Opened
  <1>2. \A p \in Opened(path) : IsFiniteSet(M(p)) /\ M(p) \subseteq Orders
    <2> TAKE p \in Opened(path)
    <2>1. Libraries[p].modules \in Seq(Registered)
      BY <1>1, ModulesAssumption DEF Registered
    <2>2. /\ Len(Libraries[p].modules) \in Nat
          /\ DOMAIN Libraries[p].modules = 1 .. Len(Libraries[p].modules)
          /\ \A i \in 1 .. Len(Libraries[p].modules) : Libraries[p].modules[i] \in Registered
      BY <2>1
    <2>3. IsFiniteSet(1 .. Len(Libraries[p].modules))
      BY <2>2, FS_Interval
    <2>4. IsFiniteSet(M(p))
      <3> DEFINE D == 1 .. Len(Libraries[p].modules)
                 f == [i \in D |-> [path |-> p, number |-> i, module |-> Libraries[p].modules[i]]]
      <3>1. f \in Surjection(D, M(p))
        BY <2>2 DEF Surjection
      <3> QED  BY <2>3, <3>1, FS_Surjection
    <2>5. M(p) \subseteq Orders
      BY <1>1, <2>2 DEF Orders
    <2> QED  BY <2>4, <2>5
  <1>3. IsFiniteSet(R)
    <2>1. IsFiniteSet({M(p) : p \in Opened(path)})
      <3> DEFINE f == [p \in Opened(path) |-> M(p)]
      <3>1. f \in Surjection(Opened(path), {M(p) : p \in Opened(path)})
        BY DEF Surjection
      <3> QED  BY <1>1, <3>1, FS_Surjection
    <2>2. R = UNION {M(p) : p \in Opened(path)}
      BY DEF Registrations
    <2>3. \A T \in {M(p) : p \in Opened(path)} : IsFiniteSet(T)
      BY <1>2
    <2> HIDE DEF M
    <2> QED  BY <2>1, <2>2, <2>3, FS_UNION
  <1>4. R \subseteq Orders /\ \A r \in R : r.path \in Opened(path)
    <2> SUFFICES ASSUME NEW r \in R PROVE r \in Orders /\ r.path \in Opened(path)
      OBVIOUS
    <2>1. PICK p \in Opened(path) : r \in M(p)
      BY DEF Registrations
    <2>2. r \in Orders
      BY <1>2, <2>1
    <2> QED  BY <2>1, <2>2
  <1>5. size \in Nat
    BY <1>3, FS_CardinalityType
  <1>6. s \in [1 .. size -> R] /\ \A i, j \in 1 .. size : i # j => s[i] # s[j]
    BY DEF Constructors, SetToSeqs
  <1> HIDE DEF R, size
  <1>7. s \in Injection(1 .. size, R) /\ Cardinality(1 .. size) = size
    <2>1. IsInjective(s)
      BY <1>6 DEF IsInjective
    <2>2. Cardinality(1 .. size) = size
      BY <1>5, FS_Interval
    <2> QED  BY <1>6, <2>1, <2>2 DEF Injection
  <1>8. s \in Surjection(1 .. size, R)
    BY <1>3, <1>7, FS_Injection DEF size
  <1>9. \A r \in R : \E k \in DOMAIN s : s[k] = r
    BY <1>6, <1>8 DEF Surjection
  <1>10. s \in Seq(Orders)
    BY <1>4, <1>5, <1>6, SeqDef
  <1>11. \A k \in DOMAIN s : s[k].path \in Opened(path)
    BY <1>4, <1>6
  <1>12. \A k, l \in DOMAIN s : k < l /\ s[k].path = path => s[l].path = path
    BY DEF Constructors
  <1>13. ASSUME NEW p \in Opened(path), NEW m \in Range(Libraries[p].modules)
         PROVE  \E k \in DOMAIN s : s[k].path = p /\ s[k].module = m
    <2>1. PICK i \in DOMAIN Libraries[p].modules : Libraries[p].modules[i] = m
      BY DEF Range
    <2>2. [path |-> p, number |-> i, module |-> m] \in R
      BY <2>1 DEF Registrations, R
    <2> QED  BY <1>9, <2>2 DEF R
  <1> QED  BY <1>10, <1>11, <1>12, <1>13
-----------------------------------------------------------------------------
(* The invariant *)

\* Nobody has asked yet.
LEMMA InitModules == Init => ModulesInv
  <1> SUFFICES ASSUME Init PROVE ModulesInv
    OBVIOUS
  <1>1. Idle \in Progress
    BY DEF Idle, Progress, Stages, Searching
  <1>2. SharedInv
    BY <1>1, ModulesAssumption
       DEF Init, SharedInv, TypeInv, LoaderInv, NamesInv, CompleteInv, CodeInv
  <1>3. ThreadInv
    <2> SUFFICES ASSUME NEW t \in Threads
                 PROVE  StageOk(t) /\ FillOk(t) /\ SearchOk(t) /\ CrashOk(t)
      BY DEF ThreadInv
    <2>1. at[t] = Idle /\ list = <<>>
      BY DEF Init
    <2> QED  BY <2>1 DEF Idle, StageOk, FillOk, SearchOk, CrashOk, Searching, Constructing, Found
  <1> QED  BY <1>2, <1>3 DEF ModulesInv

\* The thread that runs constructors, if any.
LEMMA AtWork ==
    ASSUME ModulesInv, loader \in Threads
    PROVE  /\ at[loader].pc \in Constructing
           /\ Todo = at[loader].todo /\ Todo \in Seq(Orders)
           /\ \A u \in Threads \ {loader} : at[u].pc \notin Constructing
  BY DEF ModulesInv, SharedInv, LoaderInv, TypeInv, Todo, ThreadInv, StageOk, Progress

\* A step of one thread that leaves the list, the loader and the libraries alone:
\* there is nothing to show but for that thread.
LEMMA Moved ==
    ASSUME ModulesInv, NEW t \in Threads,
           at[t].pc \notin Constructing, at'[t].pc \notin Constructing,
           at' \in [Threads -> Progress], \A u \in Threads \ {t} : at'[u] = at[u],
           UNCHANGED <<backEnd, list, loader, loaded>>,
           mutex' = mutex \/ mutex \in {t, "free"},
           StageOk(t)', SearchOk(t)', CrashOk(t)'
    PROVE  ModulesInv'
  <1> USE DEF ModulesInv
  <1>1. loader \in Threads => loader # t /\ at'[loader] = at[loader]
    BY DEF SharedInv, LoaderInv
  <1>2. Todo' = Todo
    BY <1>1 DEF Todo
  <1>3. SharedInv'
    <2>1. TypeInv'
      BY AsksSame DEF SharedInv, TypeInv
    <2>2. LoaderInv' /\ NamesInv'
      BY <1>1 DEF SharedInv, LoaderInv, NamesInv
    <2>3. CompleteInv'
      BY <1>2 DEF SharedInv, CompleteInv, Due, Listed
    <2>4. CodeInv'
      BY DEF SharedInv, CodeInv, KindOk, OwnerOk, Undisturbed
    <2> QED  BY <2>1, <2>2, <2>3, <2>4 DEF SharedInv
  <1>4. ASSUME NEW u \in Threads \ {t}
        PROVE  (StageOk(u) /\ FillOk(u) /\ SearchOk(u) /\ CrashOk(u))'
    <2>1. StageOk(u) /\ FillOk(u) /\ SearchOk(u) /\ CrashOk(u) /\ at'[u] = at[u]
      BY <1>4 DEF ThreadInv
    <2>2. mutex = u => mutex' = u
      BY ModulesAssumption
    <2>3. StageOk(u)' /\ FillOk(u)'
      BY <2>1, <2>2, AsksSame DEF StageOk, FillOk
    <2>4. SearchOk(u)'
      BY <1>2, <2>1 DEF SearchOk, Unmatched, LastOk, Since, New, Module, Undisturbed
    <2>5. CrashOk(u)'
      BY <1>1, <2>1 DEF CrashOk, Asking
    <2> QED  BY <2>3, <2>4, <2>5
  <1>5. FillOk(t)'
    BY DEF FillOk, Constructing
  <1> QED  BY <1>3, <1>4, <1>5 DEF ThreadInv
-----------------------------------------------------------------------------
(* The steps that leave the list alone *)

\* What the steps below use of the types.
LEMMA Types ==
    ASSUME ModulesInv
    PROVE  /\ at \in [Threads -> Progress]
           /\ list \in Seq(Nodes) /\ Len(list) \in Nat /\ DOMAIN list = 1 .. Len(list)
           /\ \A t \in Threads : StageOk(t) /\ FillOk(t) /\ SearchOk(t) /\ CrashOk(t)
           /\ \A t \in Threads : at[t].before \in Nat /\ at[t].module \in Nat
           /\ \A t \in Threads : at[t].todo \in Seq(Orders) /\ at[t].paths \in Seq(AllPaths)
  BY DEF ModulesInv, SharedInv, TypeInv, ThreadInv, Progress

\* The updates of what a thread has keep its type.
LEMMA Updates ==
    ASSUME NEW r \in Progress
    PROVE  /\ \A pc \in Stages : [r EXCEPT !.pc = pc] \in Progress
           /\ \A ask \in AllAsks, name \in Names :
                 [r EXCEPT !.pc = "lock", !.asking = TRUE, !.ask = ask, !.name = name] \in Progress
           /\ \A where \in {"cache", "compare", "callback"} :
                 [r EXCEPT !.pc = "crashed", !.where = where] \in Progress
           /\ \A n \in Nat, m \in Nat :
                 [r EXCEPT !.pc = "use", !.before = n, !.module = m] \in Progress
           /\ \A m \in Nat : [r EXCEPT !.pc = "use", !.module = m] \in Progress
           /\ \A n \in Nat, paths \in Seq(AllPaths) :
                 [r EXCEPT !.pc = "open", !.before = n, !.paths = paths] \in Progress
           /\ \A paths \in Seq(AllPaths) : [r EXCEPT !.paths = paths] \in Progress
           /\ \A path \in DOMAIN Libraries, todo \in Seq(Orders) :
                 [r EXCEPT !.pc = "construct", !.path = path, !.todo = todo] \in Progress
  <1>1. Stages = {"open", "construct", "fill", "compare", "code", "give",
                  "idle", "lock", "use", "crashed"}
    BY DEF Stages, Searching
  <1>2. \A pc \in Stages : [r EXCEPT !.pc = pc] \in Progress
    BY DEF Progress
  <1>3. \A ask \in AllAsks, name \in Names :
            [r EXCEPT !.pc = "lock", !.asking = TRUE, !.ask = ask, !.name = name] \in Progress
    BY <1>1 DEF Progress
  <1>4. \A where \in {"cache", "compare", "callback"} :
            [r EXCEPT !.pc = "crashed", !.where = where] \in Progress
    BY <1>1 DEF Progress
  <1>5. \A n \in Nat, m \in Nat : [r EXCEPT !.pc = "use", !.before = n, !.module = m] \in Progress
    BY <1>1 DEF Progress
  <1>6. \A m \in Nat : [r EXCEPT !.pc = "use", !.module = m] \in Progress
    BY <1>1 DEF Progress
  <1>7. \A n \in Nat, paths \in Seq(AllPaths) :
            [r EXCEPT !.pc = "open", !.before = n, !.paths = paths] \in Progress
    BY <1>1 DEF Progress
  <1>8. \A paths \in Seq(AllPaths) : [r EXCEPT !.paths = paths] \in Progress
    BY DEF Progress
  <1>9. \A path \in DOMAIN Libraries, todo \in Seq(Orders) :
            [r EXCEPT !.pc = "construct", !.path = path, !.todo = todo] \in Progress
    BY <1>1 DEF Progress
  <1> QED  BY <1>2, <1>3, <1>4, <1>5, <1>6, <1>7, <1>8, <1>9

\* Idle is a stage of its own.
LEMMA IdleFacts ==
    /\ Idle \in Progress /\ Idle.pc = "idle" /\ Idle.asking = FALSE /\ Idle.path = NoPath
    /\ Idle.before = 0 /\ Idle.module = 0 /\ Idle.todo = <<>>
  BY DEF Idle, Progress, Stages, Searching

\* A step of one thread, by what it makes of what the thread has.
LEMMA Put ==
    ASSUME at \in [Threads -> Progress], NEW t \in Threads, NEW x \in Progress,
           at' = [at EXCEPT ![t] = x]
    PROVE  /\ at' \in [Threads -> Progress] /\ at'[t] = x
           /\ \A u \in Threads \ {t} : at'[u] = at[u]
  OBVIOUS
\* A thread that has not found anything yet is at the beginning.
LEMMA RequireKeeps ==
    ASSUME ModulesInv, NEW t \in Threads, at[t] = Idle, NEW app \in BOOLEAN,
           NEW ask \in Asks(app), NEW name \in Names, Require(t, ask, name)
    PROVE  ModulesInv'
  <1> DEFINE x == [at[t] EXCEPT !.pc = "lock", !.asking = TRUE, !.ask = ask, !.name = name]
  <1>1. at \in [Threads -> Progress] /\ ask \in AllAsks
    BY Types DEF AllAsks
  <1>2. at' = [at EXCEPT ![t] = x] /\ UNCHANGED <<backEnd, list, loader, loaded, mutex>>
    BY DEF Require, manager
  <1>3. x \in Progress
    BY <1>1, Updates
  <1>4. x.pc = "lock" /\ x.asking = TRUE /\ x.path = NoPath /\ x.before = 0 /\ x.ask = ask /\ x.name = name
    BY DEF Idle
  <1> HIDE DEF x
  <1>5. at' \in [Threads -> Progress] /\ at'[t] = x /\ \A u \in Threads \ {t} : at'[u] = at[u]
    BY <1>1, <1>2, <1>3, Put
  <1>6. StageOk(t)' /\ SearchOk(t)' /\ CrashOk(t)'
    BY <1>1, <1>2, <1>4, <1>5, AsksSame, Types
       DEF StageOk, SearchOk, CrashOk, Constructing, Searching, Found
  <1>7. at[t].pc \notin Constructing /\ at'[t].pc \notin Constructing
    BY <1>4, <1>5, IdleFacts DEF Constructing
  <1> QED  BY <1>2, <1>5, <1>6, <1>7, Moved

\* A nameless module is one that another thread registers, which does not ask
\* as long as the list can be searched.
LEMMA NamelessHasCause ==
    ASSUME ModulesInv, NEW t \in Threads, mutex \in {t, "free"}, at[t].pc \notin Constructing,
           NEW i \in DOMAIN list, list[i].name = "null"
    PROVE  loader \in Threads /\ loader # t /\ ~Asking(loader)
  <1>1. loader \in Threads /\ at[loader].pc = "fill"
    BY DEF ModulesInv, SharedInv, NamesInv
  <1>2. loader # t
    BY <1>1 DEF Constructing
  <1> QED  BY <1>1, <1>2, Types, ModulesAssumption DEF StageOk, Searching, Asking

\* The paths of a name.
LEMMA PathsType ==
    ASSUME NEW name \in Names, NEW app
    PROVE  Paths(name, app) \in Seq(AllPaths)
  <1> DEFINE own   == app /\ appLibPath
             place == IF own THEN "app" ELSE "system"
             stem  == IF own THEN name.stem ELSE Lower[name.stem]
             one == <<Path(place, stem, "lib")>>
             two == <<Path(place, stem, "lib"), Path(place, stem, "lib_napi")>>
  <1>1. name.stem \in DOMAIN Lower
    BY ModulesAssumption
  <1>2. place \in {"app", "system"} /\ stem \in DOMAIN Lower \cup Range(Lower)
    BY <1>1 DEF Range
  <1>3. Paths(name, app) = CASE name.shape = "ends in a dot" -> <<>>
                             [] name.shape = "a file's name" \/ own -> one
                             [] OTHER -> two
    BY DEF Paths
  <1> HIDE DEF place, stem, own
  <1>4. Path(place, stem, "lib") \in AllPaths /\ Path(place, stem, "lib_napi") \in AllPaths
    BY <1>2 DEF Path, AllPaths
  <1>5. <<>> \in Seq(AllPaths) /\ one \in Seq(AllPaths) /\ two \in Seq(AllPaths)
    BY <1>4
  <1> HIDE DEF one, two
  <1>6. Paths(name, app) \in {<<>>, one, two}
    <2>1. CASE name.shape = "ends in a dot" /\ (name.shape = "a file's name" \/ own)
      BY <1>3, <2>1
    <2>2. CASE name.shape = "ends in a dot" /\ ~(name.shape = "a file's name" \/ own)
      BY <1>3, <2>2
    <2>3. CASE name.shape # "ends in a dot" /\ (name.shape = "a file's name" \/ own)
      BY <1>3, <2>3
    <2>4. CASE name.shape # "ends in a dot" /\ ~(name.shape = "a file's name" \/ own)
      BY <1>3, <2>4
    <2> QED  BY <2>1, <2>2, <2>3, <2>4
  <1> QED  BY <1>5, <1>6

\* No registration is of no path.
LEMMA TodoPaths ==
    ASSUME ModulesInv, NEW k \in DOMAIN Todo
    PROVE  Todo[k] \in Orders /\ Todo[k].path # NoPath
  <1>1. loader \in Threads
    BY DEF Todo
  <1>2. Todo \in Seq(Orders)
    BY <1>1, AtWork
  <1>3. Todo[k] \in Orders
    BY <1>2
  <1>4. Todo[k].path \in DOMAIN Libraries
    BY <1>3 DEF Orders
  <1> QED  BY <1>3, <1>4, ModulesAssumption
\* A thread that runs no constructors registers nothing.
LEMMA TodoSame ==
    ASSUME ModulesInv, NEW t \in Threads, at[t].pc \notin Constructing, loader' = loader,
           \A u \in Threads \ {t} : at'[u] = at[u]
    PROVE  Todo' = Todo
  BY AtWork DEF Todo

\* The cache yields a module of the name, or there is none.
LEMMA CacheKeeps ==
    ASSUME ModulesInv, NEW t \in Threads, FindNativeModuleByCache(t)
    PROVE  ModulesInv'
  <1> DEFINE name == at[t].name
             C == Cached(name)
  <1>1. /\ at[t].pc = "lock" /\ mutex = "free" /\ at[t].asking = TRUE /\ at[t].path = NoPath
        /\ at[t].ask \in AllAsks /\ name \in Names /\ at[t].before <= Len(list)
        /\ UNCHANGED <<backEnd, list, loader, loaded>>
    BY Types DEF FindNativeModuleByCache, CanLock, StageOk, Progress, manager
  <1>2. at[t].pc \notin Constructing /\ at[t] \in Progress /\ at \in [Threads -> Progress]
    BY <1>1, Types DEF Constructing
  <1>3. CASE ReadsNull(name)
    <2> DEFINE x == [at[t] EXCEPT !.pc = "crashed", !.where = "cache"]
    <2>1. at' = [at EXCEPT ![t] = x] /\ mutex' = mutex
      BY <1>3 DEF FindNativeModuleByCache, Crash
    <2>2. x \in Progress
      BY <1>2, Updates
    <2>3. /\ x.pc = "crashed" /\ x.where = "cache" /\ x.before = at[t].before
          /\ x.asking = TRUE /\ x.ask = at[t].ask /\ x.name = name
      BY <1>1, <1>2 DEF Progress
    <2> HIDE DEF x
    <2>4. at' \in [Threads -> Progress] /\ at'[t] = x /\ \A u \in Threads \ {t} : at'[u] = at[u]
      BY <1>2, <2>1, <2>2, Put
    <2>5. loader \in Threads /\ loader # t /\ ~Asking(loader)
      BY <1>1, <1>2, <1>3, NamelessHasCause DEF ReadsNull
    <2>6. StageOk(t)' /\ SearchOk(t)'
      BY <1>1, <2>3, <2>4, AsksSame DEF StageOk, SearchOk, Constructing, Searching, Found
    <2>7. CrashOk(t)'
      BY <1>1, <2>3, <2>4, <2>5 DEF CrashOk, Asking
    <2>8. at'[t].pc \notin Constructing
      BY <2>3, <2>4 DEF Constructing
    <2> QED  BY <1>1, <1>2, <2>1, <2>4, <2>6, <2>7, <2>8, Moved
  <1>4. CASE ~ReadsNull(name) /\ C # {}
    <2> DEFINE x == [at[t] EXCEPT !.pc = "use", !.before = Len(list), !.module = Min(C)]
    <2>1. at' = [at EXCEPT ![t] = x] /\ mutex' = mutex
      BY <1>4 DEF FindNativeModuleByCache
    <2>2. C \in SUBSET Nat /\ C \subseteq DOMAIN list
      BY Types DEF Cached
    <2>3. Min(C) \in C
      <3>1. PICK m \in C : \A n \in C : m <= n
        BY <1>4, <2>2, LeastNat
      <3> QED  BY <3>1 DEF Min
    <2>4. list[Min(C)].name # "null" /\ SameName(list[Min(C)].name, name)
      BY <2>3 DEF Cached
    <2>5. x \in Progress
      BY <1>2, <2>2, <2>3, Types, Updates
    <2>6. /\ x.pc = "use" /\ x.before = Len(list) /\ x.module = Min(C)
          /\ x.path = NoPath /\ x.asking = TRUE /\ x.ask = at[t].ask /\ x.name = name
      BY <1>1, <1>2 DEF Progress
    <2> HIDE DEF x
    <2>7. at' \in [Threads -> Progress] /\ at'[t] = x /\ \A u \in Threads \ {t} : at'[u] = at[u]
      BY <1>2, <2>1, <2>5, Put
    <2>8. New(t)' = {}
      BY <1>1, <2>6, <2>7, Types DEF New
    <2>9. \A k \in DOMAIN Todo' : Todo'[k].path # NoPath
      BY <1>1, <1>2, <2>7, TodoSame, TodoPaths
    <2>10. StageOk(t)' /\ CrashOk(t)'
      BY <1>1, <2>2, <2>3, <2>6, <2>7, AsksSame, Types
         DEF StageOk, CrashOk, Constructing, Searching, Found
    <2>11. SearchOk(t)'
      BY <1>1, <2>4, <2>6, <2>7, <2>8, <2>9 DEF SearchOk, Module, Constructing, Searching, Found
    <2>12. at'[t].pc \notin Constructing
      BY <2>6, <2>7 DEF Constructing
    <2> QED  BY <1>1, <1>2, <2>1, <2>7, <2>10, <2>11, <2>12, Moved
  <1>5. CASE ~ReadsNull(name) /\ C = {}
    <2> DEFINE paths == Paths(name, at[t].ask.app)
               x == [at[t] EXCEPT !.pc = "open", !.before = Len(list), !.paths = paths]
    <2>1. at' = [at EXCEPT ![t] = x] /\ mutex' = t
      BY <1>5 DEF FindNativeModuleByCache
    <2>2. paths \in Seq(AllPaths)
      BY <1>1, PathsType
    <2> HIDE DEF paths
    <2>3. x \in Progress
      BY <1>2, <2>2, Types, Updates
    <2>4. /\ x.pc = "open" /\ x.before = Len(list) /\ x.path = NoPath
          /\ x.asking = TRUE /\ x.ask = at[t].ask /\ x.name = name
      BY <1>1, <1>2 DEF Progress
    <2> HIDE DEF x
    <2>5. at' \in [Threads -> Progress] /\ at'[t] = x /\ \A u \in Threads \ {t} : at'[u] = at[u]
      BY <1>2, <2>1, <2>3, Put
    <2>6. \A i \in DOMAIN list : list[i].name # "null" /\ ~SameName(list[i].name, name)
      BY <1>5 DEF ReadsNull, Cached
    <2>7. StageOk(t)' /\ CrashOk(t)'
      BY <1>1, <2>1, <2>4, <2>5, AsksSame, Types
         DEF StageOk, CrashOk, Constructing, Searching, Found
    <2>8. /\ list' = list /\ at'[t].before = Len(list) /\ at'[t].name = name
          /\ DOMAIN list = 1 .. Len(list) /\ Len(list) \in Nat
      BY <1>1, <2>4, <2>5, Types
    <2>9. SearchOk(t)'
      <3>1. Unmatched(t)'
        <4> HIDE DEF name
        <4> QED  BY <2>6, <2>8 DEF Unmatched
      <3>2. Since(t)' = {}
        BY <2>8 DEF Since
      <3> QED  BY <2>4, <2>5, <3>1, <3>2 DEF SearchOk, Constructing, Searching, Found
    <2>10. at'[t].pc \notin Constructing
      BY <2>4, <2>5 DEF Constructing
    <2> QED  BY <1>1, <1>2, <2>1, <2>5, <2>7, <2>9, <2>10, Moved
  <1> QED  BY <1>3, <1>4, <1>5

\* A thread that becomes idle has nothing left to show.
LEMMA IdleKeeps ==
    ASSUME ModulesInv, NEW t \in Threads, at[t].pc \notin Constructing,
           at' = [at EXCEPT ![t] = Idle], UNCHANGED <<backEnd, list, loader, loaded>>,
           mutex' = mutex \/ mutex \in {t, "free"}
    PROVE  ModulesInv'
  <1>1. at \in [Threads -> Progress]
    BY Types
  <1>2. at' \in [Threads -> Progress] /\ at'[t] = Idle /\ \A u \in Threads \ {t} : at'[u] = at[u]
    BY <1>1, IdleFacts, Put
  <1>3. StageOk(t)' /\ SearchOk(t)' /\ CrashOk(t)'
    BY <1>2, IdleFacts, Types DEF StageOk, SearchOk, CrashOk, Constructing, Searching, Found
  <1>4. at'[t].pc \notin Constructing
    BY <1>2, IdleFacts DEF Constructing
  <1> QED  BY <1>2, <1>3, <1>4, Moved

\* Only the module a thread fills may be nameless: a search that ends in a crash
\* has met it, or the empty list.
LEMMA CompareKeeps ==
    ASSUME ModulesInv, NEW t \in Threads, CompareName(t)
    PROVE  ModulesInv'
  <1> DEFINE bad == list = <<>> \/ Last(list).name = "null"
  <1>1. /\ at[t].pc = "compare" /\ mutex = t /\ at[t].asking = TRUE /\ at[t].ask \in AllAsks
        /\ at[t].path \in loaded /\ at[t].before <= Len(list) /\ at[t].name \in Names
        /\ UNCHANGED <<backEnd, list, loader, loaded, mutex>>
    BY Types DEF CompareName, StageOk, Searching, Found, manager, Progress
  <1>2. at[t].pc \notin Constructing /\ at[t] \in Progress /\ at \in [Threads -> Progress]
    BY <1>1, Types DEF Constructing
  <1>3. CASE bad
    <2> DEFINE x == [at[t] EXCEPT !.pc = "crashed", !.where = "compare"]
    <2>1. at' = [at EXCEPT ![t] = x]
      BY <1>3 DEF CompareName, Crash
    <2>2. x \in Progress
      BY <1>2, Updates
    <2>3. /\ x.pc = "crashed" /\ x.where = "compare" /\ x.before = at[t].before
          /\ x.asking = TRUE /\ x.ask = at[t].ask /\ x.name = at[t].name
      BY <1>1, <1>2 DEF Progress
    <2> HIDE DEF x
    <2>4. at' \in [Threads -> Progress] /\ at'[t] = x /\ \A u \in Threads \ {t} : at'[u] = at[u]
      BY <1>2, <2>1, <2>2, Put
    <2>5. list = <<>> \/ (loader \in Threads /\ loader # t /\ ~Asking(loader))
      <3>1. CASE list # <<>>
        <4>1. Len(list) \in DOMAIN list /\ list[Len(list)].name = "null"
          BY <1>3, <3>1, Types DEF Last
        <4> QED  BY <1>1, <1>2, <4>1, NamelessHasCause
      <3> QED  BY <3>1
    <2>6. StageOk(t)' /\ SearchOk(t)'
      BY <1>1, <2>3, <2>4, AsksSame DEF StageOk, SearchOk, Constructing, Searching, Found
    <2>7. CrashOk(t)'
      BY <1>1, <2>3, <2>4, <2>5 DEF CrashOk, Asking
    <2>8. at'[t].pc \notin Constructing
      BY <2>3, <2>4 DEF Constructing
    <2> QED  BY <1>1, <1>2, <2>4, <2>6, <2>7, <2>8, Moved
  <1>4. CASE ~bad
    <2> DEFINE x == [at[t] EXCEPT !.pc = "code"]
    <2>1. at' = [at EXCEPT ![t] = x]
      BY <1>4 DEF CompareName, Goes
    <2>2. x \in Progress
      BY <1>2, Updates DEF Stages, Searching
    <2>3. /\ x.pc = "code" /\ x.before = at[t].before /\ x.path = at[t].path
          /\ x.asking = TRUE /\ x.ask = at[t].ask /\ x.name = at[t].name
      BY <1>1, <1>2 DEF Progress
    <2> HIDE DEF x
    <2>4. at' \in [Threads -> Progress] /\ at'[t] = x /\ \A u \in Threads \ {t} : at'[u] = at[u]
      BY <1>2, <2>1, <2>2, Put
    <2>5. StageOk(t)' /\ CrashOk(t)'
      BY <1>1, <1>4, <2>3, <2>4, AsksSame, Types
         DEF StageOk, CrashOk, Constructing, Searching, Found
    <2>6. Unmatched(t) /\ LastOk(t) /\ \A k \in DOMAIN Todo : Todo[k].path # at[t].path
      BY <1>1, Types DEF SearchOk, Searching, Found
    <2>7. Unmatched(t)' /\ LastOk(t)'
      BY <1>1, <2>3, <2>4, <2>6 DEF Unmatched, LastOk, Since, Constructing
    <2>8. Todo' = Todo
      BY <1>1, <1>2, <2>4, TodoSame
    <2>9. SearchOk(t)'
      BY <2>3, <2>4, <2>6, <2>7, <2>8 DEF SearchOk, Constructing, Searching, Found
    <2>10. at'[t].pc \notin Constructing
      BY <2>3, <2>4 DEF Constructing
    <2> QED  BY <1>1, <1>2, <2>4, <2>5, <2>9, <2>10, Moved
  <1> QED  BY <1>3, <1>4

\* The last module of the list is the last one of the library that was opened.
LEMMA GiveKeeps ==
    ASSUME ModulesInv, NEW t \in Threads, GiveLast(t)
    PROVE  ModulesInv'
  <1> DEFINE x == [at[t] EXCEPT !.pc = "use", !.module = Len(list)]
  <1>1. /\ at[t].pc = "give" /\ mutex = t /\ at[t].asking = TRUE /\ at[t].ask \in AllAsks
        /\ at[t].path \in loaded /\ at[t].before <= Len(list) /\ at[t].name \in Names
        /\ UNCHANGED <<backEnd, list, loader, loaded>> /\ mutex' = "free" /\ list # <<>>
    BY Types DEF GiveLast, StageOk, Searching, Found, manager, Progress
  <1>2. at[t].pc \notin Constructing /\ at[t] \in Progress /\ at \in [Threads -> Progress]
    BY <1>1, Types DEF Constructing
  <1>3. at' = [at EXCEPT ![t] = x]
    BY DEF GiveLast
  <1>4. x \in Progress
    BY <1>2, Types, Updates
  <1>5. /\ x.pc = "use" /\ x.before = at[t].before /\ x.path = at[t].path
        /\ x.asking = TRUE /\ x.ask = at[t].ask /\ x.name = at[t].name /\ x.module = Len(list)
    BY <1>1, <1>2 DEF Progress
  <1> HIDE DEF x
  <1>6. at' \in [Threads -> Progress] /\ at'[t] = x /\ \A u \in Threads \ {t} : at'[u] = at[u]
    BY <1>2, <1>3, <1>4, Put
  <1>7. Len(list) \in DOMAIN list
    BY <1>1, Types
  <1>8. StageOk(t)' /\ CrashOk(t)'
    BY <1>1, <1>5, <1>6, <1>7, AsksSame, Types DEF StageOk, CrashOk, Constructing, Searching, Found
  <1>9. Unmatched(t) /\ LastOk(t) /\ \A k \in DOMAIN Todo : Todo[k].path # at[t].path
    BY <1>1, Types DEF SearchOk, Searching, Found
  <1>10. Unmatched(t)' /\ New(t)' = New(t)
    BY <1>1, <1>5, <1>6, <1>9 DEF Unmatched, New
  <1>11. Todo' = Todo
    BY <1>1, <1>2, <1>6, TodoSame
  <1>12. ASSUME NEW i \in New(t), Undisturbed(at[t].before) PROVE Len(list) \in New(t)
    <2>1. i \in Since(t) /\ list[i].from = at[t].path
      BY <1>12 DEF New, Since, Undisturbed
    <2>2. CASE i = Len(list)
      BY <2>2
    <2>3. CASE i < Len(list)
      <3>1. Len(list) > at[t].before
        BY <2>1, <2>3, Types DEF Since
      <3>2. Len(list) \in Since(t)
        BY <1>7, <1>12, <3>1 DEF Since, Undisturbed
      <3>3. list[Len(list)].from = at[t].path
        BY <1>9, <2>1, <2>3, <3>2 DEF LastOk
      <3> QED  BY <1>7, <3>1, <3>3 DEF New
    <2> QED  BY <2>1, <2>2, <2>3, Types DEF Since
  <1>13. \A i \in New(t) : i <= Len(list)
    BY Types DEF New
  <1>14. Undisturbed(at[t].before)' <=> Undisturbed(at[t].before)
    BY <1>1, <1>5, <1>6 DEF Undisturbed
  <1>15. SearchOk(t)'
    BY <1>5, <1>6, <1>9, <1>10, <1>11, <1>12, <1>13, <1>14
       DEF SearchOk, Constructing, Searching, Found
  <1>16. at'[t].pc \notin Constructing
    BY <1>5, <1>6 DEF Constructing
  <1> QED  BY <1>1, <1>2, <1>6, <1>8, <1>15, <1>16, Moved

\* A callback that is missing is tested for, but by the ways that do not.
LEMMA UseKeeps ==
    ASSUME ModulesInv, NEW t \in Threads, Use(t)
    PROVE  ModulesInv'
  <1> DEFINE bad == CallsBack(t) /\ ~Module(t).callback
  <1>1. /\ at[t].pc = "use" /\ at[t].asking = TRUE /\ at[t].ask \in AllAsks
        /\ at[t].before <= Len(list) /\ at[t].name \in Names
        /\ UNCHANGED <<backEnd, list, loader, loaded, mutex>>
    BY Types DEF Use, StageOk, Searching, Found, manager, Progress
  <1>2. at[t].pc \notin Constructing /\ at[t] \in Progress /\ at \in [Threads -> Progress]
    BY <1>1, Types DEF Constructing
  <1>3. CASE bad
    <2> DEFINE x == [at[t] EXCEPT !.pc = "crashed", !.where = "callback"]
    <2>1. at' = [at EXCEPT ![t] = x]
      BY <1>3 DEF Use, Crash
    <2>2. x \in Progress
      BY <1>2, Updates
    <2>3. /\ x.pc = "crashed" /\ x.where = "callback" /\ x.before = at[t].before
          /\ x.asking = TRUE /\ x.ask = at[t].ask /\ x.name = at[t].name
      BY <1>1, <1>2 DEF Progress
    <2> HIDE DEF x
    <2>4. at' \in [Threads -> Progress] /\ at'[t] = x /\ \A u \in Threads \ {t} : at'[u] = at[u]
      BY <1>2, <2>1, <2>2, Put
    <2>5. ~at[t].ask.tests
      BY <1>3 DEF CallsBack
    <2>6. at[t].ask.route # "requireNapi" \/ backEnd = "JerryScript"
      <3>1. PICK app \in BOOLEAN : at[t].ask \in Asks(app)
        BY <1>1 DEF AllAsks
      <3>2. backEnd \in {"Ark", "V8", "QuickJS", "JerryScript"}
        BY DEF ModulesInv, SharedInv, TypeInv
      <3> QED  BY <2>5, <3>1, <3>2, AskFacts
    <2>7. StageOk(t)' /\ SearchOk(t)'
      BY <1>1, <2>3, <2>4, AsksSame DEF StageOk, SearchOk, Constructing, Searching, Found
    <2>8. CrashOk(t)'
      BY <1>1, <2>3, <2>4, <2>6 DEF CrashOk
    <2>9. at'[t].pc \notin Constructing
      BY <2>3, <2>4 DEF Constructing
    <2> QED  BY <1>1, <1>2, <2>4, <2>7, <2>8, <2>9, Moved
  <1>4. CASE ~bad
    <2>1. at' = [at EXCEPT ![t] = Idle]
      BY <1>4 DEF Use
    <2> QED  BY <1>1, <1>2, <2>1, IdleKeeps
  <1> QED  BY <1>3, <1>4
-----------------------------------------------------------------------------
(* The loader and its constructors *)

\* A library that is opened owes the modules it registers; those that are in the
\* process already owe none.
LEMMA OpensKeeps ==
    ASSUME ModulesInv, ~Crashed, NEW t \in Threads, at[t] = Idle \/ at[t].pc = "open",
           loader = "free", NEW path \in DOMAIN Libraries, NEW todo \in Constructors(path),
           Constructs(t, path, todo), loader' = t, loaded' = loaded \cup Opened(path),
           UNCHANGED <<backEnd, list, mutex>>
    PROVE  ModulesInv'
  <1> DEFINE x == [at[t] EXCEPT !.pc = "construct", !.path = path, !.todo = todo]
  <1> USE DEF ModulesInv
  <1>1. /\ at \in [Threads -> Progress] /\ at[t] \in Progress
        /\ \A u \in Threads : at[u].pc \notin Constructing
    <2>1. \A u \in Threads : at[u].pc \notin Constructing
      BY ModulesAssumption, Types DEF StageOk
    <2> QED  BY <2>1, Types
  <1>2. /\ todo \in Seq(Orders) /\ \A k \in DOMAIN todo : todo[k].path \in Opened(path)
        /\ \A k, l \in DOMAIN todo : k < l /\ todo[k].path = path => todo[l].path = path
        /\ \A p \in Opened(path) : \A m \in Range(Libraries[p].modules) :
              \E k \in DOMAIN todo : todo[k].path = p /\ todo[k].module = m
    <2>1. todo \in Seq(Orders) /\ \A k \in DOMAIN todo : todo[k].path \in Opened(path)
      BY ConstructorsFacts
    <2>2. \A k, l \in DOMAIN todo : k < l /\ todo[k].path = path => todo[l].path = path
      BY ConstructorsFacts
    <2>3. \A p \in Opened(path) : \A m \in Range(Libraries[p].modules) :
              \E k \in DOMAIN todo : todo[k].path = p /\ todo[k].module = m
      BY ConstructorsFacts
    <2> QED  BY <2>1, <2>2, <2>3
  <1>3. at' = [at EXCEPT ![t] = x] /\ x \in Progress
    BY <1>1, <1>2, Updates DEF Constructs
  <1>4. /\ x.pc = "construct" /\ x.path = path /\ x.todo = todo /\ x.asking = at[t].asking
        /\ x.before = at[t].before /\ x.name = at[t].name /\ x.ask = at[t].ask
    BY <1>1 DEF Progress
  <1> HIDE DEF x
  <1>5. at' \in [Threads -> Progress] /\ at'[t] = x /\ \A u \in Threads \ {t} : at'[u] = at[u]
    BY <1>1, <1>3, Put
  <1>6. Todo = <<>> /\ Todo' = todo
    BY <1>4, <1>5, ModulesAssumption DEF Todo
  <1>7. /\ Opened(path) \subseteq DOMAIN Libraries /\ path \in loaded'
        /\ \A p \in Opened(path) : p \notin loaded
        /\ NoPath \notin Opened(path)
    BY ModulesAssumption DEF Opened
  <1>8. \A k \in DOMAIN todo : todo[k].path \notin loaded \cup {NoPath}
    BY <1>2, <1>7
  <1>9. TypeInv'
    BY <1>5, <1>7, AsksSame DEF SharedInv, TypeInv
  <1>10. LoaderInv' /\ NamesInv' /\ CodeInv'
    <2>1. LoaderInv' /\ NamesInv'
      BY <1>4, <1>5, ModulesAssumption DEF SharedInv, LoaderInv, NamesInv, Constructing
    <2>2. CodeInv'
      BY DEF SharedInv, CodeInv, KindOk, OwnerOk, Undisturbed
    <2> QED  BY <2>1, <2>2
  <1>11. CompleteInv'
    <2> SUFFICES ASSUME NEW p \in loaded', NEW m \in Range(Libraries[p].modules)
                 PROVE  Due(p, m)' \/ Listed(p, m)'
      BY DEF CompleteInv
    <2>1. CASE p \in loaded
      <3>1. Due(p, m) \/ Listed(p, m)
        BY <2>1 DEF SharedInv, CompleteInv
      <3>2. ~Due(p, m)
        BY <1>6 DEF Due
      <3> QED  BY <3>1, <3>2 DEF Listed
    <2>2. CASE p \in Opened(path)
      <3>1. PICK k \in DOMAIN todo : todo[k].path = p /\ todo[k].module = m
        BY <1>2, <2>2
      <3> QED  BY <1>6, <3>1 DEF Due
    <2> QED  BY <2>1, <2>2
  <1>12. ASSUME NEW u \in Threads \ {t}
         PROVE  (StageOk(u) /\ FillOk(u) /\ SearchOk(u) /\ CrashOk(u))'
    <2>1. StageOk(u) /\ FillOk(u) /\ SearchOk(u) /\ at'[u] = at[u] /\ at[u].pc \notin Constructing
      BY <1>1, <1>5, Types
    <2>2. StageOk(u)' /\ FillOk(u)' /\ CrashOk(u)'
      BY <2>1, AsksSame DEF StageOk, FillOk, CrashOk, Crashed, Constructing
    <2>3. at[u].pc \in Found => \A k \in DOMAIN Todo' : Todo'[k].path # at'[u].path
      BY <1>6, <1>8, <2>1 DEF StageOk
    <2>4. Unmatched(u)' = Unmatched(u) /\ LastOk(u)' = LastOk(u) /\ New(u)' = New(u)
          /\ Since(u)' = Since(u) /\ Module(u)' = Module(u)
          /\ Undisturbed(at[u].before)' = Undisturbed(at[u].before)
      BY <2>1 DEF Unmatched, LastOk, New, Since, Module, Undisturbed
    <2>5. SearchOk(u)'
      BY <2>1, <2>3, <2>4 DEF SearchOk
    <2> QED  BY <2>2, <2>5
  <1>13. StageOk(t)' /\ FillOk(t)' /\ CrashOk(t)'
    BY <1>4, <1>5, <1>7, AsksSame, IdleFacts, Types
       DEF StageOk, FillOk, CrashOk, Constructing, Searching, Found
  <1>14. SearchOk(t)'
    <2>1. \A k, l \in DOMAIN at'[t].todo : k < l /\ at'[t].todo[k].path = at'[t].path
                                             => at'[t].todo[l].path = at'[t].path
      BY <1>2, <1>4, <1>5
    <2>2. ASSUME at'[t].asking PROVE Unmatched(t)' /\ LastOk(t)'
      <3>1. at[t].pc = "open" /\ at[t].asking
        BY <1>4, <1>5, <2>2, IdleFacts
      <3>2. Unmatched(t) /\ Since(t) = {}
        BY <3>1, Types DEF SearchOk, Searching
      <3> QED  BY <1>4, <1>5, <3>2 DEF Unmatched, LastOk, Since
    <2> QED  BY <1>4, <1>5, <2>1, <2>2 DEF SearchOk, Constructing, Searching, Found
  <1> QED  BY <1>9, <1>10, <1>11, <1>12, <1>13, <1>14 DEF SharedInv, ThreadInv

\* A path that cannot be opened is followed by the next one, the last by nothing.
LEMMA LoadKeeps ==
    ASSUME ModulesInv, ~Crashed, NEW t \in Threads, LoadModuleLibrary(t)
    PROVE  ModulesInv'
  <1>1. /\ at[t].pc = "open" /\ mutex = t /\ at[t].asking = TRUE /\ at[t].ask \in AllAsks
        /\ at[t].path = NoPath /\ at[t].before <= Len(list) /\ at[t].name \in Names
        /\ UNCHANGED <<backEnd, list>>
    BY Types DEF LoadModuleLibrary, StageOk, Searching, manager, Progress
  <1>2. /\ at[t].pc \notin Constructing /\ at[t] \in Progress /\ at \in [Threads -> Progress]
        /\ at[t].paths \in Seq(AllPaths)
    BY <1>1, Types DEF Constructing
  <1>3. CASE at[t].paths = <<>>
    <2>1. at' = [at EXCEPT ![t] = Idle] /\ mutex' = "free" /\ UNCHANGED <<loader, loaded>>
      BY <1>3 DEF LoadModuleLibrary
    <2> QED  BY <1>1, <1>2, <2>1, IdleKeeps
  <1>4. CASE at[t].paths # <<>> /\ Head(at[t].paths) \notin DOMAIN Libraries
    <2> DEFINE paths == Tail(at[t].paths)
               x == [at[t] EXCEPT !.paths = paths]
    <2>1. at' = [at EXCEPT ![t] = x] /\ UNCHANGED <<mutex, loader, loaded>>
      BY <1>4 DEF LoadModuleLibrary
    <2>2. paths \in Seq(AllPaths)
      BY <1>2, <1>4
    <2> HIDE DEF paths
    <2>3. x \in Progress
      BY <1>2, <2>2, Updates
    <2>4. /\ x.pc = "open" /\ x.before = at[t].before /\ x.path = NoPath
          /\ x.asking = TRUE /\ x.ask = at[t].ask /\ x.name = at[t].name
      BY <1>1, <1>2 DEF Progress
    <2> HIDE DEF x
    <2>5. at' \in [Threads -> Progress] /\ at'[t] = x /\ \A u \in Threads \ {t} : at'[u] = at[u]
      BY <1>2, <2>1, <2>3, Put
    <2>6. StageOk(t)' /\ CrashOk(t)'
      BY <1>1, <2>1, <2>4, <2>5, AsksSame DEF StageOk, CrashOk, Constructing, Searching, Found
    <2>7. Unmatched(t) /\ Since(t) = {}
      BY <1>1, Types DEF SearchOk, Searching
    <2>8. Unmatched(t)' /\ Since(t)' = {}
      BY <1>1, <2>4, <2>5, <2>7 DEF Unmatched, Since
    <2>9. SearchOk(t)'
      BY <2>4, <2>5, <2>8 DEF SearchOk, Constructing, Searching, Found
    <2>10. at'[t].pc \notin Constructing
      BY <2>4, <2>5 DEF Constructing
    <2> QED  BY <1>1, <1>2, <2>1, <2>5, <2>6, <2>9, <2>10, Moved
  <1>5. CASE at[t].paths # <<>> /\ Head(at[t].paths) \in DOMAIN Libraries
    <2> DEFINE path == Head(at[t].paths)
    <2>1. /\ loader = "free" /\ mutex' = mutex /\ loader' = t
          /\ loaded' = loaded \cup Opened(path)
          /\ \E todo \in Constructors(path) : Constructs(t, path, todo)
      BY <1>5 DEF LoadModuleLibrary
    <2>2. path \in DOMAIN Libraries
      BY <1>5
    <2> HIDE DEF path
    <2>3. PICK todo \in Constructors(path) : Constructs(t, path, todo)
      BY <2>1
    <2> QED  BY <1>1, <2>1, <2>2, <2>3, OpensKeeps
  <1> QED  BY <1>3, <1>4, <1>5

\* When the constructors have returned nothing is owed.
LEMMA ConstructedKeeps ==
    ASSUME ModulesInv, ~Crashed, NEW t \in Threads, Constructed(t)
    PROVE  ModulesInv'
  <1> DEFINE x == IF Asking(t) THEN [at[t] EXCEPT !.pc = "compare"] ELSE Idle
  <1> USE DEF ModulesInv
  <1>1. /\ at[t].pc = "construct" /\ at[t].todo = <<>> /\ loader = t /\ loader' = "free"
        /\ at[t].path \in loaded /\ at[t] \in Progress /\ at \in [Threads -> Progress]
        /\ UNCHANGED <<backEnd, list, mutex, loaded>>
    BY Types DEF Constructed, StageOk, Constructing, manager
  <1>2. at' = [at EXCEPT ![t] = x]
    BY DEF Constructed, Goes
  <1>3. x \in Progress
    BY <1>1, IdleFacts, Updates DEF Stages, Searching
  <1>4. \/ /\ x.pc = "compare" /\ x.path = at[t].path /\ x.asking = TRUE /\ at[t].asking = TRUE
           /\ x.before = at[t].before /\ x.name = at[t].name /\ x.ask = at[t].ask
        \/ x = Idle
    BY <1>1 DEF Progress, Asking
  <1> HIDE DEF x
  <1>5. at' \in [Threads -> Progress] /\ at'[t] = x /\ \A u \in Threads \ {t} : at'[u] = at[u]
    BY <1>1, <1>2, <1>3, Put
  <1>6. Todo = <<>> /\ Todo' = <<>>
    BY <1>1, ModulesAssumption DEF Todo
  <1>7. TypeInv' /\ LoaderInv' /\ NamesInv'
    <2>1. \A i \in DOMAIN list : list[i].name # "null"
      BY <1>1 DEF SharedInv, NamesInv
    <2>2. TypeInv'
      BY <1>1, <1>5, AsksSame DEF SharedInv, TypeInv
    <2> QED  BY <1>1, <2>1, <2>2, ModulesAssumption DEF LoaderInv, NamesInv
  <1>8. CompleteInv' /\ CodeInv'
    <2>1. CompleteInv'
      BY <1>1, <1>6 DEF SharedInv, CompleteInv, Due, Listed
    <2>2. CodeInv'
      BY <1>1 DEF SharedInv, CodeInv, KindOk, OwnerOk, Undisturbed
    <2> QED  BY <2>1, <2>2
  <1>9. ASSUME NEW u \in Threads \ {t}
        PROVE  (StageOk(u) /\ FillOk(u) /\ SearchOk(u) /\ CrashOk(u))'
    <2>1. StageOk(u) /\ FillOk(u) /\ SearchOk(u) /\ at'[u] = at[u] /\ at[u].pc \notin Constructing
      BY <1>1, <1>5, Types DEF StageOk
    <2>2. StageOk(u)' /\ FillOk(u)' /\ CrashOk(u)'
      BY <1>1, <2>1, AsksSame DEF StageOk, FillOk, CrashOk, Crashed, Constructing
    <2>3. Unmatched(u)' = Unmatched(u) /\ LastOk(u)' = LastOk(u) /\ New(u)' = New(u)
          /\ Since(u)' = Since(u) /\ Module(u)' = Module(u)
          /\ Undisturbed(at[u].before)' = Undisturbed(at[u].before)
      BY <1>1, <2>1 DEF Unmatched, LastOk, New, Since, Module, Undisturbed
    <2>4. SearchOk(u)'
      BY <1>6, <2>1, <2>3 DEF SearchOk
    <2> QED  BY <2>2, <2>4
  <1>10. StageOk(t)' /\ FillOk(t)' /\ CrashOk(t)'
    BY <1>1, <1>4, <1>5, AsksSame, IdleFacts, Types
       DEF StageOk, FillOk, CrashOk, Constructing, Searching, Found
  <1>11. SearchOk(t)'
    <2>1. CASE x = Idle
      BY <1>5, <2>1, IdleFacts DEF SearchOk, Constructing, Searching, Found
    <2>2. CASE x # Idle
      <3>1. Unmatched(t) /\ LastOk(t)
        BY <1>1, <1>4, <2>2, Types DEF SearchOk, Searching
      <3>2. Unmatched(t)' /\ LastOk(t)'
        BY <1>1, <1>4, <1>5, <2>2, <3>1 DEF Unmatched, LastOk, Since, Constructing
      <3> QED  BY <1>4, <1>5, <1>6, <2>2, <3>2 DEF SearchOk, Constructing, Searching, Found
    <2> QED  BY <2>1, <2>2
  <1> QED  BY <1>7, <1>8, <1>9, <1>10, <1>11 DEF SharedInv, ThreadInv

\* The modules of the library that is opened stay the last ones as long as nothing
\* comes into the list, and nothing to what is still to be registered.
LEMMA LastSame ==
    ASSUME NEW u, LastOk(u), Since(u)' = Since(u), at'[u].path = at[u].path,
           \A i \in Since(u) : list'[i].from = list[i].from,
           at'[u].pc \in Constructing =>
               /\ at[u].pc \in Constructing
               /\ \A k \in DOMAIN at'[u].todo :
                     \E l \in DOMAIN at[u].todo : at[u].todo[l] = at'[u].todo[k]
    PROVE  LastOk(u)'
  <1> SUFFICES ASSUME NEW i \in Since(u), list[i].from = at[u].path
               PROVE  /\ \A j \in Since(u) : i < j => list'[j].from = at[u].path
                      /\ at'[u].pc \in Constructing =>
                            \A k \in DOMAIN at'[u].todo : at'[u].todo[k].path = at[u].path
    BY DEF LastOk
  <1>1. \A j \in Since(u) : i < j => list'[j].from = at[u].path
    BY DEF LastOk
  <1>2. ASSUME at'[u].pc \in Constructing, NEW k \in DOMAIN at'[u].todo
        PROVE  at'[u].todo[k].path = at[u].path
    <2>1. PICK l \in DOMAIN at[u].todo : at[u].todo[l] = at'[u].todo[k]
      BY <1>2
    <2>2. at[u].todo[l].path = at[u].path
      BY <1>2 DEF LastOk
    <2> QED  BY <2>1, <2>2
  <1> QED  BY <1>1, <1>2

\* The node that is linked is nameless; a thread that searches has not had it
\* linked by one that asks, nor is it of a library that a thread has found.
LEMMA LinkKeeps ==
    ASSUME ModulesInv, ~Crashed, NEW t \in Threads, Link(t)
    PROVE  ModulesInv'
  <1> DEFINE x == [at[t] EXCEPT !.pc = "fill"]
             node == Linked(Head(at[t].todo).path, Asking(t))
             n == Len(list)
  <1> USE DEF ModulesInv
  <1>1. /\ at[t].pc = "construct" /\ at[t].todo # <<>> /\ loader = t
        /\ at[t].path \in loaded /\ at[t] \in Progress /\ at \in [Threads -> Progress]
        /\ UNCHANGED <<backEnd, mutex, loader, loaded>>
    BY Types DEF Link, StageOk, Constructing
  <1>2. at' = [at EXCEPT ![t] = x] /\ list' = Append(list, node)
    BY DEF Link, Goes
  <1>3. x \in Progress
    BY <1>1, Updates DEF Stages, Searching
  <1>4. /\ x.pc = "fill" /\ x.path = at[t].path /\ x.asking = at[t].asking /\ x.todo = at[t].todo
        /\ x.before = at[t].before /\ x.name = at[t].name /\ x.ask = at[t].ask
    BY <1>1 DEF Progress
  <1> HIDE DEF x
  <1>5. at' \in [Threads -> Progress] /\ at'[t] = x /\ \A u \in Threads \ {t} : at'[u] = at[u]
    BY <1>1, <1>2, <1>3, Put
  <1>6. Todo = at[t].todo /\ Todo' = at[t].todo /\ at[t].todo \in Seq(Orders)
    BY <1>1, <1>4, <1>5, Types DEF Todo
  <1>7. Head(at[t].todo) = at[t].todo[1] /\ 1 \in DOMAIN at[t].todo /\ Head(at[t].todo) \in Orders
    BY <1>1, <1>6
  <1>8. /\ node \in Nodes /\ node.name = "null" /\ node.from = at[t].todo[1].path
        /\ node.asked = at[t].asking /\ node.code = NoCode
    <2>1. Head(at[t].todo).path \in DOMAIN Libraries /\ at[t].asking \in BOOLEAN
      BY <1>1, <1>7 DEF Orders, Progress
    <2> QED  BY <1>7, <2>1 DEF Linked, Nodes, Codes, Asking
  <1> HIDE DEF node
  <1>9. /\ list \in Seq(Nodes) /\ n \in Nat /\ DOMAIN list = 1 .. n
        /\ list' \in Seq(Nodes) /\ Len(list') = n + 1 /\ DOMAIN list' = 1 .. (n + 1)
        /\ list'[n + 1] = node /\ \A i \in 1 .. n : list'[i] = list[i]
    BY <1>2, <1>8, Types
  <1> HIDE DEF n
  <1>10. TypeInv' /\ LoaderInv' /\ NamesInv'
    <2>1. TypeInv'
      BY <1>1, <1>5, <1>9, AsksSame DEF SharedInv, TypeInv
    <2>2. LoaderInv'
      BY <1>1, <1>4, <1>5 DEF LoaderInv, Constructing
    <2>3. \A i \in 1 .. n : list[i].name # "null"
      BY <1>1, <1>9 DEF SharedInv, NamesInv
    <2>4. NamesInv'
      BY <1>1, <1>4, <1>5, <1>9, <2>3 DEF NamesInv
    <2> QED  BY <2>1, <2>2, <2>4
  <1>11. CompleteInv'
    <2> SUFFICES ASSUME NEW p \in loaded, NEW m \in Range(Libraries[p].modules)
                 PROVE  Due(p, m)' \/ Listed(p, m)'
      BY <1>1 DEF CompleteInv
    <2>1. Due(p, m) \/ Listed(p, m)
      BY DEF SharedInv, CompleteInv
    <2>2. Due(p, m) => Due(p, m)'
      BY <1>6 DEF Due
    <2>3. Listed(p, m) => Listed(p, m)'
      BY <1>9 DEF Listed
    <2> QED  BY <2>1, <2>2, <2>3
  <1>12. \A before : Undisturbed(before)' => Undisturbed(before)
    BY <1>9 DEF Undisturbed
  <1>13. CodeInv'
    <2> SUFFICES ASSUME NEW i \in 1 .. n, list[i].code # NoCode
                 PROVE  KindOk(list[i].code)' /\ OwnerOk(list[i])'
      BY <1>8, <1>9 DEF CodeInv, KindOk, OwnerOk, Undisturbed
    <2>1. KindOk(list[i].code) /\ OwnerOk(list[i])
      BY <1>9 DEF SharedInv, CodeInv
    <2>2. list'[i] = list[i]
      BY <1>9
    <2> QED  BY <1>1, <1>12, <2>1, <2>2 DEF KindOk, OwnerOk
  <1>14. ASSUME NEW u \in Threads PROVE CrashOk(u)'
    BY <1>4, <1>5 DEF CrashOk, Crashed
  <1>15. ASSUME NEW u \in Threads \ {t}
         PROVE  (StageOk(u) /\ FillOk(u) /\ SearchOk(u))'
    <2>1. /\ StageOk(u) /\ FillOk(u) /\ SearchOk(u) /\ at'[u] = at[u]
          /\ at[u].pc \notin Constructing /\ at[u].before \in Nat
      BY <1>1, <1>5, Types DEF StageOk
    <2>2. StageOk(u)'
      <3>1. at[u].pc \in {"code", "give"} => list' # <<>>
        BY <1>9
      <3>2. at[u].before <= Len(list')
        BY <1>9, <2>1, Types DEF StageOk, n
      <3> QED  BY <1>1, <1>9, <2>1, <3>1, <3>2, AsksSame DEF StageOk
    <2>3. FillOk(u)'
      BY <2>1 DEF FillOk, Constructing
    <2>4. Unmatched(u) => Unmatched(u)'
      <3>1. at[u].before <= n
        BY <2>1 DEF StageOk, n
      <3> QED  BY <1>9, <2>1, <3>1 DEF Unmatched
    <2>5. ASSUME at[u].pc \in Searching, at[u].asking PROVE Since(u)' = Since(u)
      <3>1. ~at[t].asking
        BY <1>1, <2>1, <2>5, Types DEF StageOk, Searching
      <3> QED  BY <1>8, <1>9, <2>1, <3>1 DEF Since
    <2>6. at[u].pc \in Searching \ {"open"} /\ at[u].asking => LastOk(u)'
      <3> SUFFICES ASSUME at[u].pc \in Searching \ {"open"}, at[u].asking PROVE LastOk(u)'
        OBVIOUS
      <3>1. LastOk(u) /\ Since(u)' = Since(u) /\ \A i \in Since(u) : i \in 1 .. n
        BY <1>9, <2>1, <2>5 DEF SearchOk, Since
      <3> QED  BY <1>9, <2>1, <3>1 DEF LastOk
    <2>7. at[u].pc \in Found => \A k \in DOMAIN Todo' : Todo'[k].path # at[u].path
      BY <1>6, <2>1 DEF SearchOk
    <2>8. ASSUME at[u].pc = "use"
          PROVE  /\ at[u].module \in 1 .. n /\ Module(u)' = Module(u) /\ New(u)' = New(u)
                 /\ Undisturbed(at[u].before)' => Undisturbed(at[u].before)
      <3>1. at[u].module \in 1 .. n
        BY <1>9, <2>1, <2>8 DEF StageOk
      <3>2. node.from # at[u].path
        BY <1>6, <1>7, <1>8, <2>1, <2>8 DEF SearchOk, Found
      <3>3. New(u)' = New(u)
        BY <1>9, <2>1, <3>2 DEF New
      <3>4. Module(u)' = Module(u)
        BY <1>9, <2>1, <3>1 DEF Module
      <3>5. Undisturbed(at[u].before)' => Undisturbed(at[u].before)
        BY <1>9, <2>1 DEF Undisturbed
      <3> QED  BY <3>1, <3>3, <3>4, <3>5
    <2>9. at[u].pc = "open" => Since(u)' = {}
      BY <2>1, <2>5, Types DEF SearchOk, Searching, StageOk
    <2>10. SearchOk(u)'
      <3>1. at[u].pc \in Searching /\ at[u].asking => Unmatched(u)'
        BY <2>1, <2>4 DEF SearchOk
      <3>2. at[u].pc = "use" =>
              /\ Unmatched(u)' \/ (Module(u)'.name # "null" /\ SameName(Module(u)'.name, at[u].name))
              /\ New(u)' # {} /\ Undisturbed(at[u].before)' =>
                    at[u].module \in New(u)' /\ \A i \in New(u)' : i <= at[u].module
        BY <2>1, <2>4, <2>8 DEF SearchOk
      <3> QED  BY <2>1, <2>6, <2>7, <2>9, <3>1, <3>2 DEF SearchOk
    <2> QED  BY <2>2, <2>3, <2>10
  <1>16. StageOk(t)' /\ FillOk(t)'
    <2>1. StageOk(t) /\ at[t].before \in Nat
      BY Types
    <2>2. at[t].before <= n + 1
      BY <1>9, <2>1 DEF StageOk, n
    <2>3. StageOk(t)'
      BY <1>1, <1>4, <1>5, <1>9, <2>1, <2>2, AsksSame
         DEF StageOk, Constructing, Searching, Found
    <2>4. FillOk(t)'
      BY <1>1, <1>4, <1>5, <1>7, <1>8, <1>9 DEF FillOk
    <2> QED  BY <2>3, <2>4
  <1>17. SearchOk(t)'
    <2>1. SearchOk(t) /\ StageOk(t) /\ at[t].before \in Nat
      BY Types
    <2>2. \A k, l \in DOMAIN at[t].todo : k < l /\ at[t].todo[k].path = at[t].path
                                            => at[t].todo[l].path = at[t].path
      BY <1>1, <2>1 DEF SearchOk, Constructing
    <2>3. ASSUME at[t].asking PROVE Unmatched(t)' /\ LastOk(t)'
      <3>1. Unmatched(t) /\ LastOk(t) /\ at[t].before <= n
        BY <1>1, <2>1, <2>3 DEF SearchOk, StageOk, Searching, n
      <3>2. Unmatched(t)'
        BY <1>4, <1>5, <1>9, <2>1, <3>1 DEF Unmatched
      <3>3. Since(t)' = Since(t) \cup {n + 1}
        <4>1. at'[t].before = at[t].before /\ at[t].before < n + 1 /\ list'[n + 1].asked = TRUE
          <5>1. at[t].asking = TRUE
            BY <1>1, <2>3 DEF Progress
          <5> QED  BY <1>4, <1>5, <1>8, <1>9, <2>1, <3>1, <5>1
        <4>2. \A i \in 1 .. n : i \in Since(t)' <=> i \in Since(t)
          BY <1>9, <4>1 DEF Since
        <4>3. n + 1 \in Since(t)'
          BY <1>9, <4>1 DEF Since
        <4>4. \A i \in Since(t)' : i \in 1 .. n \/ i = n + 1
          BY <1>9 DEF Since
        <4>5. \A i \in Since(t) : i \in 1 .. n
          BY <1>9 DEF Since
        <4> QED  BY <4>2, <4>3, <4>4, <4>5
      <3>4. \A i \in Since(t) : i \in 1 .. n
        BY <1>9 DEF Since
      <3>5. \A i \in Since(t) : list[i].from = at[t].path =>
               \A k \in DOMAIN at[t].todo : at[t].todo[k].path = at[t].path
        BY <1>1, <3>1 DEF LastOk, Constructing
      <3>6. node.from = at[t].path =>
               \A k \in DOMAIN at[t].todo : at[t].todo[k].path = at[t].path
        <4>1. \A k \in DOMAIN at[t].todo : k = 1 \/ 1 < k
          BY <1>6
        <4> QED  BY <1>7, <1>8, <2>2, <4>1
      <3>7. ASSUME NEW i \in Since(t)', list'[i].from = at[t].path
            PROVE  /\ \A j \in Since(t)' : i < j => list'[j].from = at[t].path
                   /\ \A k \in DOMAIN at[t].todo : at[t].todo[k].path = at[t].path
        <4>1. \A k \in DOMAIN at[t].todo : at[t].todo[k].path = at[t].path
          BY <1>9, <3>3, <3>4, <3>5, <3>6, <3>7
        <4>2. node.from = at[t].path
          BY <1>7, <1>8, <4>1
        <4>3. ASSUME NEW j \in Since(t)', i < j PROVE list'[j].from = at[t].path
          <5>1. CASE j = n + 1
            BY <1>9, <4>2, <5>1
          <5>2. CASE j # n + 1
            <6>1. j \in Since(t) /\ j \in 1 .. n
              BY <3>3, <3>4, <5>2
            <6>2. i \in Since(t) /\ i \in 1 .. n
              <7>1. i # n + 1
                BY <1>9, <4>3, <6>1
              <7>2. i \in Since(t)
                BY <3>3, <3>7, <7>1
              <7> QED  BY <3>4, <7>2
            <6>3. list[i].from = at[t].path
              BY <1>9, <3>7, <6>2
            <6>4. list[j].from = at[t].path
              BY <3>1, <4>3, <6>1, <6>2, <6>3 DEF LastOk
            <6> QED  BY <1>9, <6>1, <6>4
          <5> QED  BY <5>1, <5>2
        <4> QED  BY <4>1, <4>3
      <3>8. LastOk(t)'
        BY <1>4, <1>5, <3>7 DEF LastOk
      <3> QED  BY <3>2, <3>8
    <2> QED  BY <1>4, <1>5, <2>2, <2>3 DEF SearchOk, Constructing, Searching, Found
  <1> QED  BY <1>10, <1>11, <1>13, <1>14, <1>15, <1>16, <1>17 DEF SharedInv, ThreadInv

\* The module that is filled takes the place of the registration that was owed.
LEMMA FillKeeps ==
    ASSUME ModulesInv, ~Crashed, NEW t \in Threads, Fill(t)
    PROVE  ModulesInv'
  <1> DEFINE head == Head(at[t].todo)
             todo == Tail(at[t].todo)
             x == [at[t] EXCEPT !.pc = "construct", !.path = at[t].path, !.todo = todo]
             n == Len(list)
  <1> USE DEF ModulesInv
  <1>1. /\ at[t].pc = "fill" /\ loader = t /\ at[t].path \in loaded /\ at[t].before <= n
        /\ at[t] \in Progress /\ at \in [Threads -> Progress] /\ at[t].before \in Nat
        /\ UNCHANGED <<backEnd, mutex, loader, loaded>>
    BY Types DEF Fill, StageOk, Constructing
  <1>2. /\ list # <<>> /\ at[t].todo # <<>> /\ list[n].name = "null"
        /\ list[n].from = head.path /\ list[n].asked = at[t].asking
    BY <1>1, Types DEF FillOk
  <1>3. /\ at' = [at EXCEPT ![t] = x]
        /\ list' = [list EXCEPT ![n].name = head.module.name, ![n].callback = head.module.callback]
    BY DEF Fill, Constructs
  <1>4. at[t].todo \in Seq(Orders) /\ Todo = at[t].todo /\ Len(at[t].todo) \in Nat
    BY <1>1, Types DEF Todo
  <1>5. /\ head \in Orders /\ todo \in Seq(Orders) /\ head = at[t].todo[1]
        /\ DOMAIN at[t].todo = 1 .. Len(at[t].todo) /\ Len(at[t].todo) >= 1
        /\ DOMAIN todo = 1 .. (Len(at[t].todo) - 1)
        /\ \A k \in DOMAIN todo : todo[k] = at[t].todo[k + 1] /\ k + 1 \in DOMAIN at[t].todo
    BY <1>2, <1>4
  <1>6. head.path \in DOMAIN Libraries /\ head.module.name \in DOMAIN Lower
        /\ head.module.callback \in BOOLEAN /\ head.module.name # "null"
    <2>1. head.module \in Registered /\ head.path \in DOMAIN Libraries
      BY <1>5 DEF Orders
    <2>2. head.module.name \in DOMAIN Lower /\ head.module.callback \in BOOLEAN
      BY <2>1 DEF Registered
    <2> QED  BY <2>1, <2>2, ModulesAssumption
  <1>7. ASSUME NEW k \in DOMAIN at[t].todo
        PROVE  k = 1 \/ (k - 1 \in DOMAIN todo /\ todo[k - 1] = at[t].todo[k])
    <2>1. k \in 1 .. Len(at[t].todo)
      BY <1>5
    <2>2. k = 1 \/ k - 1 \in 1 .. (Len(at[t].todo) - 1)
      BY <1>4, <2>1
    <2>3. CASE k # 1
      <3> DEFINE j == k - 1
      <3>1. j \in DOMAIN todo /\ j + 1 = k
        BY <1>5, <2>1, <2>2, <2>3
      <3>2. todo[j] = at[t].todo[j + 1]
        BY <1>5, <3>1
      <3> QED  BY <3>1, <3>2
    <2> QED  BY <2>3
  <1> HIDE DEF head, todo
  <1>8. at[t].path \in DOMAIN Libraries
    BY <1>1 DEF SharedInv, TypeInv
  <1>9. x \in Progress
    BY <1>1, <1>5, <1>8, Updates
  <1>10. /\ x.pc = "construct" /\ x.path = at[t].path /\ x.asking = at[t].asking /\ x.todo = todo
         /\ x.before = at[t].before /\ x.name = at[t].name /\ x.ask = at[t].ask
    BY <1>1 DEF Progress
  <1> HIDE DEF x
  <1>11. at' \in [Threads -> Progress] /\ at'[t] = x /\ \A u \in Threads \ {t} : at'[u] = at[u]
    BY <1>1, <1>3, <1>9, Put
  <1>12. Todo' = todo
    BY <1>1, <1>10, <1>11 DEF Todo
  <1>13. /\ list \in Seq(Nodes) /\ n \in Nat /\ DOMAIN list = 1 .. n /\ n \in DOMAIN list
         /\ list[n] \in Nodes
    BY <1>2, Types
  <1>14. /\ Len(list') = n /\ DOMAIN list' = 1 .. n
         /\ \A i \in 1 .. n : i # n => list'[i] = list[i]
         /\ list'[n] = [list[n] EXCEPT !.name = head.module.name, !.callback = head.module.callback]
    BY <1>3, <1>13
  <1>15. /\ list'[n].name = head.module.name /\ list'[n] \in Nodes
         /\ list'[n].from = list[n].from /\ list'[n].asked = list[n].asked
         /\ list'[n].code = list[n].code
    BY <1>6, <1>13, <1>14 DEF Nodes
  <1> HIDE DEF n
  <1>16. /\ list' \in Seq(Nodes)
         /\ \A i \in 1 .. n : /\ list'[i].from = list[i].from /\ list'[i].asked = list[i].asked
                              /\ list'[i].code = list[i].code
    <2>1. \A i \in 1 .. n : list'[i] \in Nodes
      BY <1>13, <1>14, <1>15
    <2>2. list' \in Seq(Nodes)
      <3>1. list' = [i \in 1 .. n |-> list'[i]]
        BY <1>3, <1>13, <1>14
      <3> QED  BY <1>13, <2>1, <3>1, SeqDef
    <2> QED  BY <1>14, <1>15, <2>2
  <1>17. TypeInv' /\ LoaderInv' /\ NamesInv'
    <2>1. TypeInv'
      BY <1>1, <1>11, <1>16, AsksSame DEF SharedInv, TypeInv
    <2>2. LoaderInv'
      BY <1>1, <1>10, <1>11 DEF LoaderInv, Constructing
    <2>3. \A i \in 1 .. n : i # n => list[i].name # "null"
      BY <1>13 DEF SharedInv, NamesInv, n
    <2>4. \A i \in DOMAIN list' : list'[i].name # "null"
      BY <1>6, <1>14, <1>15, <2>3
    <2> QED  BY <2>1, <2>2, <2>4 DEF NamesInv
  <1>18. CompleteInv'
    <2> SUFFICES ASSUME NEW p \in loaded, NEW m \in Range(Libraries[p].modules)
                 PROVE  Due(p, m)' \/ Listed(p, m)'
      BY <1>1 DEF CompleteInv
    <2>1. Due(p, m) \/ Listed(p, m)
      BY DEF SharedInv, CompleteInv
    <2>2. ASSUME Due(p, m) PROVE Due(p, m)' \/ Listed(p, m)'
      <3>1. PICK k \in DOMAIN at[t].todo : at[t].todo[k].path = p /\ at[t].todo[k].module = m
        BY <1>4, <2>2 DEF Due
      <3>2. CASE k = 1
        BY <1>2, <1>5, <1>13, <1>14, <1>15, <3>1, <3>2 DEF Listed
      <3>3. CASE k # 1
        BY <1>7, <1>12, <3>1, <3>3 DEF Due
      <3> QED  BY <3>2, <3>3
    <2>3. ASSUME Listed(p, m) PROVE Listed(p, m)'
      <3>1. PICK i \in 1 .. n : list[i].from = p /\ list[i].name = m.name
        BY <1>13, <2>3 DEF Listed
      <3>2. m.name # "null"
        <4>1. p \in DOMAIN Libraries
          BY DEF SharedInv, TypeInv
        <4>2. Libraries[p].modules \in Seq(Registered)
          BY <4>1, ModulesAssumption DEF Registered
        <4>3. m \in Registered
          <5>1. PICK j \in DOMAIN Libraries[p].modules : Libraries[p].modules[j] = m
            BY DEF Range
          <5> QED  BY <4>2, <5>1
        <4> QED  BY <4>3, ModulesAssumption DEF Registered
      <3>3. i # n
        BY <1>2, <3>1, <3>2 DEF n
      <3> QED  BY <1>14, <3>1, <3>3 DEF Listed
    <2> QED  BY <2>1, <2>2, <2>3
  <1>19. \A before : Undisturbed(before)' <=> Undisturbed(before)
    BY <1>13, <1>14, <1>16 DEF Undisturbed
  <1>20. CodeInv'
    <2> SUFFICES ASSUME NEW i \in 1 .. n, list[i].code # NoCode
                 PROVE  KindOk(list[i].code)' /\ OwnerOk(list[i])'
      BY <1>14, <1>16 DEF CodeInv
    <2>1. KindOk(list[i].code) /\ OwnerOk(list[i])
      BY <1>13 DEF SharedInv, CodeInv
    <2>2. KindOk(list[i].code)'
      BY <1>1, <1>16, <2>1 DEF KindOk
    <2>3. OwnerOk(list[i])'
      BY <1>1, <1>16, <1>19, <2>1 DEF OwnerOk
    <2> QED  BY <2>2, <2>3
  <1>21. ASSUME NEW u \in Threads PROVE CrashOk(u)'
    BY <1>10, <1>11 DEF CrashOk, Crashed
  <1>22. ASSUME NEW u \in Threads, at'[u].before = at[u].before, at'[u].name = at[u].name,
                at'[u].path = at[u].path
         PROVE  /\ Unmatched(u) => Unmatched(u)'
                /\ Since(u)' = Since(u) /\ New(u)' = New(u)
    <2>1. at[u].before \in Nat /\ at[u].before <= n
      BY Types DEF StageOk, n
    <2>2. ASSUME Unmatched(u) PROVE Unmatched(u)'
      <3>1. ~(n \in 1 .. at[u].before)
        BY <1>2, <2>2 DEF Unmatched, n
      <3> QED  BY <1>13, <1>14, <1>22, <2>1, <2>2, <3>1 DEF Unmatched
    <2> QED  BY <1>13, <1>14, <1>16, <1>22, <2>2 DEF Since, New
  <1>23. ASSUME NEW u \in Threads \ {t}
         PROVE  (StageOk(u) /\ FillOk(u) /\ SearchOk(u))'
    <2>1. /\ StageOk(u) /\ FillOk(u) /\ SearchOk(u) /\ at'[u] = at[u]
          /\ at[u].pc \notin Constructing /\ at[u].before \in Nat
      BY <1>1, <1>11, Types DEF StageOk
    <2>2. StageOk(u)'
      <3>1. list' # <<>>
        BY <1>13, <1>14
      <3> QED  BY <1>1, <1>13, <1>14, <2>1, <3>1, AsksSame DEF StageOk, n
    <2>3. FillOk(u)'
      BY <2>1 DEF FillOk, Constructing
    <2>4. (Unmatched(u) => Unmatched(u)') /\ Since(u)' = Since(u) /\ New(u)' = New(u)
      BY <1>22, <2>1
    <2>5. LastOk(u) => LastOk(u)'
      <3>1. \A i \in Since(u) : list'[i].from = list[i].from
        BY <1>13, <1>16 DEF Since
      <3> QED  BY <2>1, <2>4, <3>1, LastSame
    <2>6. at[u].pc \in Found => \A k \in DOMAIN Todo' : Todo'[k].path # at[u].path
      BY <1>4, <1>5, <1>12, <2>1 DEF SearchOk
    <2>7. at[u].pc = "use" =>
            /\ Unmatched(u)' \/ (Module(u)'.name # "null" /\ SameName(Module(u)'.name, at[u].name))
            /\ New(u)' # {} /\ Undisturbed(at[u].before)' =>
                  at[u].module \in New(u)' /\ \A i \in New(u)' : i <= at[u].module
      <3> SUFFICES ASSUME at[u].pc = "use"
                   PROVE  /\ \/ Unmatched(u)'
                             \/ Module(u)'.name # "null" /\ SameName(Module(u)'.name, at[u].name)
                          /\ New(u)' # {} /\ Undisturbed(at[u].before)' =>
                                at[u].module \in New(u)' /\ \A i \in New(u)' : i <= at[u].module
        OBVIOUS
      <3>1. at[u].module \in 1 .. n
        BY <1>13, <2>1 DEF StageOk
      <3>2. CASE at[u].module = n
        <4>1. Module(u).name = "null"
          BY <1>2, <3>2 DEF Module, n
        <4>2. Unmatched(u)
          BY <2>1, <4>1 DEF SearchOk
        <4> QED  BY <1>19, <2>1, <2>4, <4>2 DEF SearchOk
      <3>3. CASE at[u].module # n
        <4>1. Module(u)' = Module(u)
          BY <1>14, <2>1, <3>1, <3>3 DEF Module
        <4> QED  BY <1>19, <2>1, <2>4, <4>1 DEF SearchOk
      <3> QED  BY <3>2, <3>3
    <2>8. SearchOk(u)'
      BY <2>1, <2>4, <2>5, <2>6, <2>7 DEF SearchOk
    <2> QED  BY <2>2, <2>3, <2>8
  <1>24. StageOk(t)' /\ FillOk(t)'
    <2>1. StageOk(t)
      BY Types
    <2>2. StageOk(t)'
      BY <1>1, <1>10, <1>11, <1>14, <2>1, AsksSame DEF StageOk, Constructing, Searching, Found
    <2> QED  BY <1>10, <1>11, <2>2 DEF FillOk
  <1>25. SearchOk(t)'
    <2>1. SearchOk(t)
      BY Types
    <2>2. \A k, l \in DOMAIN todo : k < l /\ todo[k].path = at[t].path => todo[l].path = at[t].path
      <3>1. \A k, l \in DOMAIN at[t].todo : k < l /\ at[t].todo[k].path = at[t].path
                                             => at[t].todo[l].path = at[t].path
        BY <1>1, <2>1 DEF SearchOk, Constructing
      <3>2. \A k, l \in DOMAIN todo : k < l => k + 1 < l + 1
        BY <1>4, <1>5
      <3> QED  BY <1>5, <3>1, <3>2
    <2>3. ASSUME at[t].asking PROVE Unmatched(t)' /\ LastOk(t)'
      <3>1. Unmatched(t) /\ LastOk(t)
        BY <1>1, <2>1, <2>3 DEF SearchOk, Searching
      <3>2. Unmatched(t)' /\ Since(t)' = Since(t)
        BY <1>10, <1>11, <1>22, <3>1
      <3>3. LastOk(t)'
        <4>1. \A i \in Since(t) : list'[i].from = list[i].from
          BY <1>13, <1>16 DEF Since
        <4>2. at'[t].todo = todo /\ at'[t].path = at[t].path /\ at[t].pc \in Constructing
          BY <1>1, <1>10, <1>11 DEF Constructing
        <4>3. \A k \in DOMAIN todo : \E l \in DOMAIN at[t].todo : at[t].todo[l] = todo[k]
          BY <1>5
        <4> QED  BY <3>1, <3>2, <4>1, <4>2, <4>3, LastSame
      <3> QED  BY <3>2, <3>3
    <2> QED  BY <1>10, <1>11, <2>2, <2>3 DEF SearchOk, Constructing, Searching, Found
  <1> QED  BY <1>17, <1>18, <1>20, <1>21, <1>23, <1>24, <1>25 DEF SharedInv, ThreadInv

\* Code is set on a module of the library it is from, when the name it is asked
\* by is that of a module of the library.
LEMMA AttachKeeps ==
    ASSUME ModulesInv, ~Crashed, NEW t \in Threads, AttachCode(t)
    PROVE  ModulesInv'
  <1> DEFINE x == [at[t] EXCEPT !.pc = "give"]
             n == Len(list)
             code == [path |-> at[t].path, kind |-> Symbol(t).kind, name |-> at[t].name,
                      route |-> at[t].ask.route, before |-> at[t].before]
  <1> USE DEF ModulesInv
  <1>1. /\ at[t].pc = "code" /\ mutex = t /\ at[t].asking = TRUE /\ at[t].ask \in AllAsks
        /\ at[t].path \in loaded /\ at[t].before <= n /\ at[t].name \in Names /\ list # <<>>
        /\ at[t] \in Progress /\ at \in [Threads -> Progress] /\ at[t].before \in Nat
        /\ UNCHANGED <<backEnd, mutex, loader, loaded>>
    BY Types DEF AttachCode, StageOk, Searching, Found, Progress
  <1>2. at[t].pc \notin Constructing
    BY <1>1 DEF Constructing
  <1>3. at' = [at EXCEPT ![t] = x]
    BY DEF AttachCode, Goes
  <1>4. list' = list \/ (HasSymbol(t) /\ list' = [list EXCEPT ![n].code = code])
    BY DEF AttachCode
  <1>5. x \in Progress
    BY <1>1, Updates DEF Stages, Searching
  <1>6. /\ x.pc = "give" /\ x.path = at[t].path /\ x.asking = TRUE
        /\ x.before = at[t].before /\ x.name = at[t].name /\ x.ask = at[t].ask
    BY <1>1 DEF Progress
  <1> HIDE DEF x
  <1>7. at' \in [Threads -> Progress] /\ at'[t] = x /\ \A u \in Threads \ {t} : at'[u] = at[u]
    BY <1>1, <1>3, <1>5, Put
  <1>8. Todo' = Todo
    BY <1>1, <1>2, <1>7, TodoSame
  <1>9. at[t].ask.route \in Routes /\ code \in Codes /\ KindOk(code)
    <2>1. PICK app \in BOOLEAN : at[t].ask \in Asks(app)
      BY <1>1 DEF AllAsks
    <2>2. backEnd \in {"Ark", "V8", "QuickJS", "JerryScript"}
      BY DEF SharedInv, TypeInv
    <2>3. /\ at[t].ask.route \in Routes
          /\ \/ at[t].ask.ark = TRUE /\ backEnd = "Ark" /\ at[t].ask.route = "requireNapi"
             \/ at[t].ask.ark = FALSE /\ ~(backEnd = "Ark" /\ at[t].ask.route = "requireNapi")
      BY <2>1, <2>2, AskFacts
    <2>4. Symbol(t).kind = (IF at[t].ask.ark THEN "ABC" ELSE "JS")
      BY DEF Symbol, ByteCode
    <2>5. at[t].path \in DOMAIN Libraries
      BY <1>1 DEF SharedInv, TypeInv
    <2>6. code \in Codes
      BY <1>1, <2>3, <2>4, <2>5 DEF Codes
    <2>7. KindOk(code)
      BY <2>3, <2>4 DEF KindOk
    <2> QED  BY <2>3, <2>6, <2>7
  <1>10. code.path = at[t].path /\ code.name = at[t].name /\ code.before = at[t].before
    OBVIOUS
  <1> HIDE DEF code
  <1>11. /\ list \in Seq(Nodes) /\ n \in Nat /\ DOMAIN list = 1 .. n /\ n \in DOMAIN list
         /\ list[n] \in Nodes
    BY <1>1, Types
  <1>12. /\ DOMAIN list' = 1 .. n /\ Len(list') = n
         /\ \A i \in 1 .. n : i # n => list'[i] = list[i]
         /\ list'[n] = list[n] \/ (HasSymbol(t) /\ list'[n] = [list[n] EXCEPT !.code = code])
    BY <1>4, <1>11
  <1>13. /\ list'[n] \in Nodes /\ list'[n].name = list[n].name /\ list'[n].from = list[n].from
         /\ list'[n].asked = list[n].asked
         /\ list'[n].code = list[n].code \/ (HasSymbol(t) /\ list'[n].code = code)
    BY <1>9, <1>11, <1>12 DEF Nodes
  <1> HIDE DEF n
  <1>14. list' \in Seq(Nodes) /\ list' # <<>>
         /\ \A i \in 1 .. n : /\ list'[i].from = list[i].from /\ list'[i].asked = list[i].asked
                              /\ list'[i].name = list[i].name
    <2>1. \A i \in 1 .. n : list'[i] \in Nodes
      BY <1>11, <1>12, <1>13
    <2>2. list' \in Seq(Nodes)
      <3>1. list' = [i \in 1 .. n |-> list'[i]]
        BY <1>4, <1>11, <1>12
      <3> QED  BY <1>11, <2>1, <3>1, SeqDef
    <2> QED  BY <1>11, <1>12, <1>13, <2>2
  <1>15. TypeInv' /\ LoaderInv' /\ NamesInv'
    <2>1. TypeInv'
      BY <1>1, <1>7, <1>14, AsksSame DEF SharedInv, TypeInv
    <2>2. loader \in Threads => at'[loader] = at[loader]
      BY <1>2, <1>7 DEF SharedInv, LoaderInv
    <2>3. LoaderInv'
      BY <1>1, <2>2 DEF SharedInv, LoaderInv
    <2>4. NamesInv'
      BY <1>1, <1>11, <1>12, <1>14, <2>2 DEF SharedInv, NamesInv, n
    <2> QED  BY <2>1, <2>3, <2>4
  <1>16. CompleteInv'
    BY <1>1, <1>8, <1>11, <1>12, <1>14 DEF SharedInv, CompleteInv, Due, Listed
  <1>17. \A before : Undisturbed(before)' <=> Undisturbed(before)
    BY <1>11, <1>12, <1>14 DEF Undisturbed
  <1>18. SearchOk(t) /\ Unmatched(t) /\ LastOk(t) /\ \A k \in DOMAIN Todo : Todo[k].path # at[t].path
    BY <1>1, Types DEF SearchOk, Searching, Found
  <1>19. ASSUME NEW m \in Range(Libraries[at[t].path].modules), SameName(m.name, at[t].name),
                Undisturbed(at[t].before)
         PROVE  list[n].from = at[t].path
    <2>1. Listed(at[t].path, m)
      BY <1>1, <1>18, <1>19 DEF SharedInv, CompleteInv, Due
    <2>2. PICK i \in 1 .. n : list[i].from = at[t].path /\ list[i].name = m.name
      BY <1>11, <2>1 DEF Listed
    <2>3. i > at[t].before
      BY <1>1, <1>11, <1>18, <1>19, <2>2 DEF Unmatched
    <2>4. i \in Since(t) /\ n \in Since(t)
      BY <1>1, <1>11, <1>19, <2>2, <2>3 DEF Since, Undisturbed
    <2>5. i = n \/ i < n
      BY <1>11, <2>2
    <2> QED  BY <1>18, <2>2, <2>4, <2>5 DEF LastOk
  <1>20. CodeInv'
    <2> SUFFICES ASSUME NEW i \in 1 .. n, list'[i].code # NoCode
                 PROVE  KindOk(list[i].code)' /\ OwnerOk(list[i])'
      BY <1>12 DEF CodeInv
    <2>1. CASE list'[i].code = list[i].code
      <3>1. KindOk(list[i].code) /\ OwnerOk(list[i])
        BY <1>11, <2>1 DEF SharedInv, CodeInv
      <3>2. KindOk(list[i].code)'
        BY <1>1, <2>1, <3>1 DEF KindOk
      <3>3. OwnerOk(list[i])'
        BY <1>1, <1>14, <1>17, <2>1, <3>1 DEF OwnerOk
      <3> QED  BY <3>2, <3>3
    <2>2. CASE list'[i].code # list[i].code
      <3>1. i = n /\ list'[i].code = code
        BY <1>12, <1>13, <2>2
      <3>2. KindOk(list[i].code)'
        BY <1>1, <1>9, <3>1 DEF KindOk
      <3>3. OwnerOk(list[i])'
        BY <1>10, <1>13, <1>17, <1>19, <3>1 DEF OwnerOk
      <3> QED  BY <3>2, <3>3
    <2> QED  BY <2>1, <2>2
  <1>21. ASSUME NEW u \in Threads PROVE CrashOk(u)'
    BY <1>6, <1>7 DEF CrashOk, Crashed
  <1>22. ASSUME NEW u \in Threads, at'[u].before = at[u].before, at'[u].name = at[u].name,
                at'[u].path = at[u].path
         PROVE  /\ Unmatched(u) => Unmatched(u)'
                /\ Since(u)' = Since(u) /\ New(u)' = New(u)
    <2>1. at[u].before \in Nat /\ at[u].before <= n
      BY Types DEF StageOk, n
    <2>2. ASSUME Unmatched(u) PROVE Unmatched(u)'
      BY <1>11, <1>14, <1>22, <2>1, <2>2 DEF Unmatched
    <2> QED  BY <1>11, <1>12, <1>14, <1>22, <2>2 DEF Since, New
  <1>23. ASSUME NEW u \in Threads \ {t}
         PROVE  (StageOk(u) /\ FillOk(u) /\ SearchOk(u))'
    <2>1. /\ StageOk(u) /\ FillOk(u) /\ SearchOk(u) /\ at'[u] = at[u] /\ at[u].before \in Nat
      BY <1>7, Types
    <2>2. StageOk(u)'
      BY <1>1, <1>11, <1>12, <1>14, <2>1, AsksSame DEF StageOk, n
    <2>3. FillOk(u)'
      BY <1>11, <1>12, <1>14, <2>1 DEF FillOk, n
    <2>4. (Unmatched(u) => Unmatched(u)') /\ Since(u)' = Since(u) /\ New(u)' = New(u)
      BY <1>22, <2>1
    <2>5. LastOk(u) => LastOk(u)'
      <3>1. \A i \in Since(u) : list'[i].from = list[i].from
        BY <1>11, <1>14 DEF Since
      <3> QED  BY <2>1, <2>4, <3>1, LastSame
    <2>6. at[u].pc = "use" => Module(u)'.name = Module(u).name
      <3> SUFFICES ASSUME at[u].pc = "use" PROVE Module(u)'.name = Module(u).name
        OBVIOUS
      <3>1. at[u].module \in 1 .. n
        BY <1>11, <2>1 DEF StageOk
      <3> QED  BY <1>14, <2>1, <3>1 DEF Module
    <2>7. SearchOk(u)'
      BY <1>8, <1>17, <2>1, <2>4, <2>5, <2>6 DEF SearchOk
    <2> QED  BY <2>2, <2>3, <2>7
  <1>24. StageOk(t)' /\ FillOk(t)'
    BY <1>1, <1>6, <1>7, <1>12, <1>14, AsksSame
       DEF StageOk, FillOk, Constructing, Searching, Found
  <1>25. SearchOk(t)'
    <2>1. Unmatched(t)' /\ Since(t)' = Since(t)
      BY <1>6, <1>7, <1>18, <1>22
    <2>2. LastOk(t)'
      <3>1. \A i \in Since(t) : list'[i].from = list[i].from
        BY <1>11, <1>14 DEF Since
      <3>2. at'[t].pc \notin Constructing /\ at'[t].path = at[t].path
        BY <1>6, <1>7 DEF Constructing
      <3> QED  BY <1>18, <2>1, <3>1, <3>2, LastSame
    <2> QED  BY <1>6, <1>7, <1>8, <1>18, <2>1, <2>2 DEF SearchOk, Constructing, Searching, Found
  <1> QED  BY <1>15, <1>16, <1>20, <1>21, <1>23, <1>24, <1>25 DEF SharedInv, ThreadInv

\* What nothing in the invariant speaks of may change.
LEMMA AsideKeeps ==
    ASSUME ModulesInv, UNCHANGED <<backEnd, list, mutex, loader, loaded, at>>
    PROVE  ModulesInv'
  <1>1. AllAsks' = AllAsks /\ Progress' = Progress
    BY AsksSame
  <1>2. Todo' = Todo /\ \A before : Undisturbed(before)' <=> Undisturbed(before)
    BY DEF Todo, Undisturbed
  <1>3. SharedInv'
    <2>1. TypeInv' /\ LoaderInv' /\ NamesInv'
      BY <1>1 DEF ModulesInv, SharedInv, TypeInv, LoaderInv, NamesInv
    <2>2. CompleteInv'
      BY <1>2 DEF ModulesInv, SharedInv, CompleteInv, Due, Listed
    <2>3. CodeInv'
      BY <1>2 DEF ModulesInv, SharedInv, CodeInv, KindOk, OwnerOk
    <2> QED  BY <2>1, <2>2, <2>3 DEF SharedInv
  <1>4. ASSUME NEW u \in Threads
        PROVE  (StageOk(u) /\ FillOk(u) /\ SearchOk(u) /\ CrashOk(u))'
    <2>1. StageOk(u) /\ FillOk(u) /\ SearchOk(u) /\ CrashOk(u)
      BY Types
    <2>2. StageOk(u)' /\ FillOk(u)' /\ CrashOk(u)'
      BY <1>1, <2>1 DEF StageOk, FillOk, CrashOk, Asking
    <2>3. SearchOk(u)'
      BY <1>2, <2>1 DEF SearchOk, Unmatched, LastOk, Since, New, Module
    <2> QED  BY <2>2, <2>3
  <1> QED  BY <1>3, <1>4 DEF ModulesInv, ThreadInv
-----------------------------------------------------------------------------
(* The theorems *)

\* Every step keeps the invariant.
LEMMA ModulesNext == ModulesInv /\ [Next]_vars => ModulesInv'
  <1> SUFFICES ASSUME ModulesInv, [Next]_vars PROVE ModulesInv'
    OBVIOUS
  <1>1. CASE UNCHANGED vars
    BY <1>1, AsideKeeps DEF vars
  <1>2. CASE SetAppLibPath
    BY <1>2, AsideKeeps DEF SetAppLibPath
  <1>3. ASSUME ~Crashed, NEW t \in Threads, Steps(t) PROVE ModulesInv'
    BY <1>3, CacheKeeps, LoadKeeps, LinkKeeps, FillKeeps, ConstructedKeeps, CompareKeeps,
       AttachKeeps, GiveKeeps, UseKeeps DEF Steps
  <1>4. ASSUME ~Crashed, NEW t \in Threads, Asked(t) PROVE ModulesInv'
    <2>1. at[t] = Idle
      BY <1>4 DEF Asked
    <2>2. CASE \E app \in BOOLEAN : \E ask \in Asks(app), name \in Names : Require(t, ask, name)
      <3>1. PICK app \in BOOLEAN : \E ask \in Asks(app), name \in Names : Require(t, ask, name)
        BY <2>2
      <3>2. PICK ask \in Asks(app), name \in Names : Require(t, ask, name)
        BY <3>1
      <3> QED  BY <2>1, <3>2, RequireKeeps
    <2>3. CASE \E path \in DOMAIN Libraries : LoadOutside(t, path)
      <3>1. PICK path \in DOMAIN Libraries : LoadOutside(t, path)
        BY <2>3
      <3>2. PICK todo \in Constructors(path) : Constructs(t, path, todo)
        BY <3>1 DEF LoadOutside
      <3>3. /\ loader = "free" /\ loader' = t /\ loaded' = loaded \cup Opened(path)
            /\ UNCHANGED <<backEnd, list, mutex>>
        BY <3>1 DEF LoadOutside, manager
      <3> QED  BY <1>4, <2>1, <3>2, <3>3, OpensKeeps
    <2> QED  BY <1>4, <2>2, <2>3 DEF Asked
  <1> QED  BY <1>1, <1>2, <1>3, <1>4 DEF Next

\* The list, the loader and the threads agree, at every moment: the invariant the
\* results below follow from.
THEOREM ModulesAgree == Spec => []ModulesInv
  <1> QED  BY InitModules, ModulesNext, PTL DEF Spec

\* FindNativeModuleByDisk and FindNativeModuleByCache follow a null pointer, and
\* the engines call a null callback, only for the causes that are known.
THEOREM CrashesHaveCause == Spec => []CrashHasCause
  <1>1. ModulesInv => CrashHasCause
    BY Types DEF CrashHasCause, CrashOk
  <1> QED  BY <1>1, ModulesAgree, PTL

\* The module registered last is the last one of the library that was opened, and
\* a name that was in the list is found there.
THEOREM AskedIsGiven == Spec => []ModuleIsAsked
  <1>1. ASSUME ModulesInv PROVE ModuleIsAsked
    <2> SUFFICES ASSUME NEW t \in Threads, at[t].pc = "use"
                 PROVE  /\ (\E i \in 1 .. at[t].before :
                               list[i].name # "null" /\ SameName(list[i].name, at[t].name))
                              => SameName(Module(t).name, at[t].name)
                        /\ New(t) # {} /\ Undisturbed(at[t].before) => at[t].module = Max(New(t))
      BY DEF ModuleIsAsked, New
    <2>1. SearchOk(t) /\ at[t].module \in Nat /\ New(t) \subseteq Nat
      BY <1>1, Types DEF New
    <2>2. ASSUME New(t) # {}, Undisturbed(at[t].before) PROVE at[t].module = Max(New(t))
      <3>1. at[t].module \in New(t) /\ \A i \in New(t) : i <= at[t].module
        BY <2>1, <2>2 DEF SearchOk
      <3>2. \A x \in New(t) : (\A y \in New(t) : x >= y) => x = at[t].module
        BY <2>1, <3>1
      <3>3. Max(New(t)) = CHOOSE x \in New(t) : \A y \in New(t) : x >= y
        BY DEF Max
      <3>4. at[t].module \in New(t) /\ \A y \in New(t) : at[t].module >= y
        BY <2>1, <3>1
      <3> QED  BY <3>2, <3>3, <3>4
    <2>3. (\E i \in 1 .. at[t].before :
              list[i].name # "null" /\ SameName(list[i].name, at[t].name))
            => SameName(Module(t).name, at[t].name)
      BY <2>1 DEF SearchOk, Unmatched
    <2> QED  BY <2>2, <2>3
  <1> QED  BY <1>1, ModulesAgree, PTL

\* The code that is looked for in a library ends on a module of that library, and
\* is of the kind the engine can run, but where the property says otherwise.
THEOREM CodeIsOwn == Spec => []CodeIsRight
  <1>1. ASSUME ModulesInv PROVE CodeIsRight
    <2>1. ASSUME NEW i \in DOMAIN list, list[i].code # NoCode
          PROVE  KindOk(list[i].code) /\ OwnerOk(list[i])
      BY <1>1, <2>1 DEF ModulesInv, SharedInv, CodeInv
    <2>2. ASSUME NEW t \in Threads, at[t].pc = "use", RunsCode(t) PROVE KindOk(Module(t).code)
      <3>1. at[t].module \in DOMAIN list
        BY <1>1, <2>2, Types DEF StageOk
      <3> QED  BY <2>1, <2>2, <3>1 DEF RunsCode, Module
    <2> QED  BY <2>1, <2>2 DEF CodeIsRight, KindOk, OwnerOk
  <1> QED  BY <1>1, ModulesAgree, PTL
=============================================================================
