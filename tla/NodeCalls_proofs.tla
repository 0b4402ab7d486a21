--------------------------- MODULE NodeCalls_proofs ---------------------------
(***************************************************************************)
(* Proofs about NodeCalls, for native functions and scripts that call each *)
(* other to any depth: what becomes of the exceptions.                     *)
(***************************************************************************)
EXTENDS NodeCalls, SequenceTheorems, TLAPS

Forms  == {"none", "object", "flagged", "token"}
Raises == {"no", "value", "new", "inherited", "cleared"}
-----------------------------------------------------------------------------
(* The tables of the back ends *)

\* IsError is for error objects, and in JerryScript for flagged errors only.
LEMMA IsErrorTables == \A e \in Engines : "error" \in Predicates[e]["IsError"] <=> e \notin Jerry
  <1>1. Predicates["Ark"]["IsError"] = {"error"}
    BY DEF Predicates, PerEngine, Ark!Predicates, Ark!Over, Ark!KindsOf
  <1>2. Predicates["V8"]["IsError"] = {"error"}
    BY DEF Predicates, PerEngine, V8!Predicates, V8!Over, V8!KindsOf
  <1>3. Predicates["QuickJS"]["IsError"] = {"error"}
    BY DEF Predicates, PerEngine, QuickJS!Predicates, QuickJS!Over, QuickJS!KindsOf
  <1>4. Predicates["Jerry3"]["IsError"] = {"flagged error"}
    BY DEF Predicates, PerEngine, Jerry3!Predicates, Jerry3!Over, Jerry3!KindsOf
  <1>5. Predicates["Jerry4"]["IsError"] = {"flagged error"}
    BY DEF Predicates, PerEngine, Jerry4!Predicates, Jerry4!Over, Jerry4!KindsOf
  <1> QED  BY <1>1, <1>2, <1>3, <1>4, <1>5 DEF Engines, Jerry

\* CreateError makes an error object, and in JerryScript a flagged error.
LEMMA CreateErrorTables ==
    \A e \in Engines : FormOf(Creates[e].CreateError) = IF e \in Jerry THEN "flagged" ELSE "object"
  <1>1. Creates["Ark"].CreateError.kind = "error"
    BY DEF Creates, PerEngine, Ark!Creates, Ark!Over, Ark!Simple, Ark!Composed, Ark!Wrap, Ark!Makes
  <1>2. Creates["V8"].CreateError.kind = "error"
    BY DEF Creates, PerEngine, V8!Creates, V8!Over, V8!Simple, V8!Composed, V8!Wrap, V8!Makes, V8!ClassFor
  <1>3. Creates["QuickJS"].CreateError.kind = "error"
    BY DEF Creates, PerEngine, QuickJS!Creates, QuickJS!Over, QuickJS!Simple, QuickJS!Makes
  <1>4. Creates["Jerry3"].CreateError.kind = "flagged error"
    BY DEF Creates, PerEngine, Jerry3!Creates, Jerry3!Over, Jerry3!Simple, Jerry3!Makes
  <1>5. Creates["Jerry4"].CreateError.kind = "flagged error"
    BY DEF Creates, PerEngine, Jerry4!Creates, Jerry4!Over, Jerry4!Simple, Jerry4!Makes
  <1> QED  BY <1>1, <1>2, <1>3, <1>4, <1>5 DEF Engines, Jerry, FormOf
-----------------------------------------------------------------------------
(* The inductive invariant *)

\* The values of the variables that the two properties read.
ActTypes ==
    /\ engine \in Engines
    /\ stack \in Seq([raised : Raises, held : Forms])
    /\ last \in [form : Forms, at : Nat]
    /\ script \in BOOLEAN /\ thrown \in BOOLEAN /\ pending \in BOOLEAN /\ careless \in BOOLEAN

\* A script runs on behalf of functions that have raised nothing, and a function runs only
\* while no exception is on its way.
Waiting ==
    /\ \A i \in 1 .. Active : (script \/ i < Active) => stack[i].raised = "no"
    /\ ~script => ~thrown /\ Active > 0

\* The forms an error takes in a back end: the flag is JerryScript's, the token QuickJS's.
FormsOfEngine ==
    /\ engine \notin Jerry => last.form # "flagged" /\ \A i \in 1 .. Active : stack[i].held # "flagged"
    /\ engine # "QuickJS" => last.form # "token" /\ \A i \in 1 .. Active : stack[i].held # "token"

\* What the function at work has thrown is in lastException_, and in the engine that has a place for it.
ThrownIsNoted ==
    ~script => /\ Top.raised = "value" => last.form = IF engine \in Jerry THEN "flagged" ELSE "object"
               /\ Top.raised = "new" => last.form = ThrownForm
               /\ Top.raised \in {"value", "new"} /\ engine \notin Jerry => pending

\* In Ark and V8 the engine has an exception exactly while one is on its way or was raised.
PendingIsThrown ==
    engine \in {"Ark", "V8"} => /\ script => pending = thrown
                                /\ ~script /\ Top.raised = "no" => ~pending

\* lastException_ belongs to the function at work, or there is none.
LastIsOwn ==
    /\ ~script /\ Top.raised = "cleared" => last = NoLast
    /\ ~careless => /\ script => last = NoLast
                    /\ ~script /\ Top.raised = "no" => last = NoLast
                    /\ last # NoLast => last.at = Active

ExceptionInv == ActTypes /\ Waiting /\ FormsOfEngine /\ ThrownIsNoted /\ PendingIsThrown /\ LastIsOwn
-----------------------------------------------------------------------------
(* The stack of active functions *)

Frames == [raised : Raises, held : Forms]

\* The function at work is one of the active ones.
LEMMA TopIsFrame ==
    ASSUME stack \in Seq(Frames)
    PROVE  /\ Active \in Nat
           /\ \A i \in 1 .. Active : stack[i].raised \in Raises /\ stack[i].held \in Forms
           /\ Active > 0 => Active \in 1 .. Active /\ Top = stack[Active]
  <1>1. Active \in Nat
    BY LenProperties DEF Active
  <1>2. \A i \in 1 .. Active : stack[i] \in Frames
    BY ElementOfSeq DEF Active
  <1> QED  BY <1>1, <1>2 DEF Frames, Top

\* What the function at work notes of itself changes nothing of the ones below.
LEMMA NotedInTop ==
    ASSUME stack \in Seq(Frames), Active > 0, NEW r \in Raises, NEW h \in Forms, InTop(r, h)
    PROVE  /\ stack' \in Seq(Frames) /\ Active' = Active
           /\ \A i \in 1 .. Active : i # Active => stack'[i] = stack[i]
           /\ stack'[Active].raised = r /\ stack'[Active].held = h
           /\ Top'.raised = r /\ Top'.held = h
  <1> DEFINE frame == [raised |-> r, held |-> h]
  <1>1. frame \in Frames /\ frame.raised = r /\ frame.held = h
    BY DEF Frames
  <1>2. stack' = [stack EXCEPT ![Len(stack)] = frame]
    BY DEF InTop, Active
  <1> HIDE DEF frame
  <1>3. Len(stack) \in 1 .. Len(stack)
    BY TopIsFrame DEF Active
  <1>4. stack' \in Seq(Frames) /\ Len(stack') = Len(stack)
        /\ \A i \in 1 .. Len(stack) : stack'[i] = IF i = Len(stack) THEN frame ELSE stack[i]
    BY <1>1, <1>2, <1>3, ExceptSeq
  <1> QED  BY <1>1, <1>3, <1>4 DEF Active, Top

\* A function that is entered is the one at work.
LEMMA Entering ==
    ASSUME stack \in Seq(Frames), stack' = Append(stack, Entered)
    PROVE  /\ stack' \in Seq(Frames) /\ Active' = Active + 1
           /\ \A i \in 1 .. Active : stack'[i] = stack[i]
           /\ stack'[Active + 1].raised = "no" /\ stack'[Active + 1].held = "none"
           /\ Top'.raised = "no" /\ Top'.held = "none"
  <1>1. Entered \in Frames /\ Entered.raised = "no" /\ Entered.held = "none"
    BY DEF Frames, Entered, Raises, Forms
  <1>2. stack' \in Seq(Frames) /\ Len(stack') = Len(stack) + 1
        /\ (\A i \in 1 .. Len(stack) : stack'[i] = stack[i]) /\ stack'[Len(stack) + 1] = Entered
    BY <1>1, AppendProperties
  <1> QED  BY <1>1, <1>2 DEF Active, Top

\* A function that returns leaves the ones below as they are.
LEMMA Leaving ==
    ASSUME stack \in Seq(Frames), Active > 0, stack' = SubSeq(stack, 1, Active - 1)
    PROVE  /\ stack' \in Seq(Frames) /\ Active' = Active - 1
           /\ \A i \in 1 .. Active - 1 : stack'[i] = stack[i]
  <1>1. Len(stack) \in Nat /\ Active = Len(stack) /\ Active > 0
    BY TopIsFrame DEF Active
  <1>2. /\ stack' \in Seq(Frames)
        /\ Len(stack') = Active - 1
        /\ \A i \in 1 .. Active - 1 : stack'[i] = stack[i]
    <2>1. \A i \in 1 .. Active - 1 : stack[i] \in Frames
      BY <1>1, ElementOfSeq
    <2>2. \A i \in 1 .. Active - 1 : i \in 1 .. Len(stack)
      BY <1>1
    <2>3. /\ stack' \in Seq(Frames)
          /\ Len(stack') = IF 1 <= Active - 1 THEN Active - 1 - 1 + 1 ELSE 0
          /\ \A i \in 1 .. Active - 1 - 1 + 1 : stack'[i] = stack[1 + i - 1]
      BY <1>1, <2>1, <2>2, SubSeqProperties
    <2>4. Active - 1 - 1 + 1 = Active - 1 /\ \A i \in 1 .. Active - 1 : 1 + i - 1 = i
      BY <1>1
    <2>5. Len(stack') = Active - 1
      BY <1>1, <2>3
    <2> QED  BY <2>3, <2>4, <2>5
  <1>3. Active' = Active - 1
    BY <1>2 DEF Active
  <1> QED  BY <1>2, <1>3
-----------------------------------------------------------------------------
(* The steps *)

\* napi_throw_error notes an object, in QuickJS a token and in JerryScript a flagged error;
\* none of the back ends is two of these.
LEMMA ThrownForms ==
    ASSUME engine \in Engines
    PROVE  /\ engine \in Jerry => ThrownForm = "flagged" /\ engine \notin {"Ark", "V8", "QuickJS"}
           /\ engine = "QuickJS" => ThrownForm = "token" /\ engine \notin Jerry
           /\ engine \in {"Ark", "V8"} => ThrownForm = "object" /\ engine \notin Jerry /\ engine # "QuickJS"
           /\ engine \in {"Ark", "V8", "QuickJS"} \cup Jerry
  BY DEF Engines, Jerry, ThrownForm

\* A step that leaves the activations alone leaves what is known of them.
LEMMA Unmoved ==
    ASSUME ExceptionInv, UNCHANGED <<engine, stack, script, thrown, pending, last, careless>>
    PROVE  ExceptionInv'
  BY DEF ExceptionInv, ActTypes, Waiting, FormsOfEngine, ThrownIsNoted, PendingIsThrown, LastIsOwn,
         Active, Top, ThrownForm

\* Nothing is active at the start, and nothing noted.
LEMMA NothingAtFirst ==
    ASSUME Init
    PROVE  ExceptionInv
  <1> USE DEF Init, InitActivations, NoLast
  <1>1. Active = 0
    BY DEF Active
  <1>2. ActTypes
    <2>1. stack \in Seq(Frames)
      BY EmptySeq
    <2> QED  BY <2>1 DEF ActTypes, Forms, Frames
  <1>3. Waiting /\ FormsOfEngine
    <2>1. last.form = "none" /\ 1 .. Active = {}
      BY <1>1
    <2> QED  BY <2>1 DEF Waiting, FormsOfEngine
  <1>4. ThrownIsNoted /\ PendingIsThrown /\ LastIsOwn
    BY DEF ThrownIsNoted, PendingIsThrown, LastIsOwn
  <1> QED  BY <1>2, <1>3, <1>4 DEF ExceptionInv

\* A function that a script calls finds nothing noted.
LEMMA EnterStep ==
    ASSUME ExceptionInv, Enter
    PROVE  ExceptionInv'
  <1>1. stack \in Seq(Frames) /\ stack' = Append(stack, Entered) /\ script /\ ~thrown /\ script' = FALSE
        /\ UNCHANGED <<engine, thrown, pending, last, careless>>
    BY DEF ExceptionInv, ActTypes, Frames, Enter
  <1>2. /\ stack' \in Seq(Frames) /\ Active' = Active + 1 /\ Active \in Nat
        /\ \A i \in 1 .. Active : stack'[i] = stack[i]
        /\ stack'[Active + 1].raised = "no" /\ stack'[Active + 1].held = "none"
        /\ Top'.raised = "no" /\ Top'.held = "none"
    BY <1>1, Entering, TopIsFrame
  <1>3. ActTypes'
    BY <1>1, <1>2 DEF ExceptionInv, ActTypes, Frames
  <1>4. Waiting'
    <2>1. ASSUME NEW i \in 1 .. Active + 1
          PROVE  stack'[i].raised = "no"
      <3>1. CASE i = Active + 1
        BY <1>2, <3>1
      <3>2. CASE i \in 1 .. Active
        BY <1>1, <1>2, <3>2 DEF ExceptionInv, Waiting
      <3> QED  BY <1>2, <3>1, <3>2
    <2>2. \A i \in 1 .. Active' : stack'[i].raised = "no"
      BY <1>2, <2>1
    <2>3. ~thrown' /\ Active' > 0
      BY <1>1, <1>2
    <2> QED  BY <2>2, <2>3 DEF Waiting
  <1>5. FormsOfEngine'
    <2>1. ASSUME NEW i \in 1 .. Active + 1
          PROVE  stack'[i].held = "none" \/ (i \in 1 .. Active /\ stack'[i] = stack[i])
      BY <1>2
    <2> QED  BY <1>1, <1>2, <2>1 DEF ExceptionInv, FormsOfEngine
  <1>6. ThrownIsNoted'
    BY <1>1, <1>2 DEF ThrownIsNoted
  <1>7. PendingIsThrown' /\ LastIsOwn'
    BY <1>1, <1>2 DEF ExceptionInv, PendingIsThrown, LastIsOwn, NoLast
  <1> QED  BY <1>3, <1>4, <1>5, <1>6, <1>7 DEF ExceptionInv

\* A script's own exception is the engine's, where the engine has a place for it, until it is caught.
LEMMA ScriptStep ==
    ASSUME ExceptionInv, ScriptThrows \/ ScriptCatches
    PROVE  ExceptionInv'
  <1>1. /\ script /\ UNCHANGED <<engine, stack, script, last, careless>>
        /\ thrown' \in BOOLEAN /\ pending' \in BOOLEAN /\ (engine \notin Jerry => pending' = thrown')
    BY DEF ScriptThrows, ScriptCatches
  <1>2. Active' = Active /\ engine \in Engines
    BY <1>1 DEF Active, ExceptionInv, ActTypes
  <1> QED  BY <1>1, <1>2, ThrownForms
           DEF ExceptionInv, ActTypes, Waiting, FormsOfEngine, ThrownIsNoted, PendingIsThrown, LastIsOwn

\* What a function at work notes: of itself, of lastException_ and of the engine's exception.
\* The rest of the invariant is in the hypotheses.
LEMMA NotingStep ==
    ASSUME ExceptionInv, Active > 0, NEW r \in Raises, NEW h \in Forms, InTop(r, h),
           UNCHANGED <<engine, careless>>, script' = FALSE, thrown' = FALSE,
           pending' \in BOOLEAN, last' \in [form : Forms, at : Nat],
           engine \notin Jerry => h # "flagged" /\ last'.form # "flagged",
           engine # "QuickJS" => h # "token" /\ last'.form # "token",
           r = "value" => last'.form = IF engine \in Jerry THEN "flagged" ELSE "object",
           r = "new" => last'.form = ThrownForm,
           r \in {"value", "new"} /\ engine \notin Jerry => pending',
           engine \in {"Ark", "V8"} /\ r = "no" => ~pending',
           r = "cleared" => last' = NoLast,
           ~careless /\ r = "no" => last' = NoLast,
           ~careless /\ last' # NoLast => last'.at = Active
    PROVE  ExceptionInv'
  <1>1. stack \in Seq(Frames)
    BY DEF ExceptionInv, ActTypes, Frames
  <1>2. /\ stack' \in Seq(Frames) /\ Active' = Active /\ Active \in Nat
        /\ \A i \in 1 .. Active : i # Active => stack'[i] = stack[i]
        /\ stack'[Active].held = h
        /\ Top'.raised = r /\ Top'.held = h
    BY <1>1, NotedInTop, TopIsFrame
  <1>3. ActTypes'
    BY <1>2 DEF ExceptionInv, ActTypes, Frames
  <1>4. Waiting'
    BY <1>2 DEF ExceptionInv, Waiting
  <1>5. FormsOfEngine'
    <2>1. ASSUME NEW i \in 1 .. Active
          PROVE  stack'[i].held = h \/ stack'[i].held = stack[i].held
      BY <1>2
    <2> QED  BY <1>2, <2>1 DEF ExceptionInv, FormsOfEngine
  <1>6. ThrownIsNoted'
    <2>1. ThrownForm' = ThrownForm
      BY DEF ThrownForm
    <2> QED  BY <1>2, <2>1 DEF ThrownIsNoted
  <1>7. PendingIsThrown' /\ LastIsOwn'
    BY <1>2 DEF PendingIsThrown, LastIsOwn, NoLast
  <1> QED  BY <1>3, <1>4, <1>5, <1>6, <1>7 DEF ExceptionInv

\* napi_create_error gives the function an error to hold and changes nothing else.
LEMMA CreateErrorStep ==
    ASSUME ExceptionInv, CreateError
    PROVE  ExceptionInv'
  <1> DEFINE form == FormOf(Creates[engine].CreateError)
  <1>1. engine \in Engines /\ form = IF engine \in Jerry THEN "flagged" ELSE "object"
    BY CreateErrorTables DEF ExceptionInv, ActTypes
  <1>2. /\ ~script /\ Active > 0 /\ InTop(Top.raised, form)
        /\ UNCHANGED <<engine, script, thrown, pending, last, careless>>
    BY DEF CreateError
  <1> HIDE DEF form
  <1>3. form \in Forms /\ form # "token" /\ (engine \notin Jerry => form # "flagged") /\ (engine \in Jerry => engine # "QuickJS")
    BY <1>1 DEF Forms, Jerry
  <1>4. Top.raised \in Raises
    BY <1>2, TopIsFrame DEF ExceptionInv, ActTypes, Frames
  <1> DEFINE r == Top.raised
  <1>5. /\ script \in BOOLEAN /\ pending \in BOOLEAN /\ last \in [form : Forms, at : Nat]
        /\ engine \notin Jerry => last.form # "flagged"
        /\ engine # "QuickJS" => last.form # "token"
    BY DEF ExceptionInv, ActTypes, FormsOfEngine
  <1>6. /\ r = "value" => last.form = IF engine \in Jerry THEN "flagged" ELSE "object"
        /\ r = "new" => last.form = ThrownForm
        /\ r \in {"value", "new"} /\ engine \notin Jerry => pending
        /\ engine \in {"Ark", "V8"} /\ r = "no" => ~pending
        /\ r = "cleared" => last = NoLast
        /\ ~careless /\ r = "no" => last = NoLast
        /\ ~careless /\ last # NoLast => last.at = Active
    BY <1>2 DEF ExceptionInv, ThrownIsNoted, PendingIsThrown, LastIsOwn
  <1>7. /\ r \in Raises /\ InTop(r, form)
        /\ pending' = pending /\ last' = last /\ script' = FALSE /\ thrown' = FALSE /\ UNCHANGED <<engine, careless>>
    BY <1>2, <1>4, <1>5 DEF ExceptionInv, ActTypes, Waiting
  <1> HIDE DEF r
  <1>8. /\ pending' \in BOOLEAN /\ last' \in [form : Forms, at : Nat]
        /\ engine \notin Jerry => form # "flagged" /\ last'.form # "flagged"
        /\ engine # "QuickJS" => form # "token" /\ last'.form # "token"
    BY <1>3, <1>5, <1>7
  <1>9. /\ r = "value" => last'.form = IF engine \in Jerry THEN "flagged" ELSE "object"
        /\ r = "new" => last'.form = ThrownForm
        /\ r \in {"value", "new"} /\ engine \notin Jerry => pending'
        /\ engine \in {"Ark", "V8"} /\ r = "no" => ~pending'
        /\ r = "cleared" => last' = NoLast
        /\ ~careless /\ r = "no" => last' = NoLast
        /\ ~careless /\ last' # NoLast => last'.at = Active
    BY <1>6, <1>7
  <1> QED  BY <1>2, <1>3, <1>7, <1>8, <1>9, NotingStep

\* napi_throw notes the error that is held, when IsError takes it for one.
LEMMA ThrowStep ==
    ASSUME ExceptionInv, Throw
    PROVE  ExceptionInv'
  <1>1. engine \in Engines /\ script \in BOOLEAN /\ stack \in Seq(Frames)
    BY DEF ExceptionInv, ActTypes, Frames
  <1>2. ~script /\ Active > 0 /\ Top.held # "none" /\ UNCHANGED <<engine, script, thrown, careless>>
    BY DEF Throw
  <1>3. CASE ~IsError(Top.held)
    <2>1. UNCHANGED <<stack, pending, last>>
      BY <1>3 DEF Throw
    <2> QED  BY <1>2, <2>1, Unmoved
  <1>4. CASE IsError(Top.held)
    <2>1. /\ last' = [form |-> Top.held, at |-> Active] /\ pending' = (engine \notin Jerry)
          /\ InTop("value", Top.held)
      BY <1>4 DEF Throw
    <2>2. /\ Top.held \in Forms /\ Active \in Nat
          /\ engine \notin Jerry => Top.held # "flagged"
          /\ engine # "QuickJS" => Top.held # "token"
      BY <1>1, <1>2, TopIsFrame DEF ExceptionInv, FormsOfEngine
    <2>3. Top.held = IF engine \in Jerry THEN "flagged" ELSE "object"
      <3>1. Top.held # "token"
        BY <1>4 DEF IsError
      <3>2. engine \in Jerry => Top.held # "object"
        BY <1>1, <1>4, IsErrorTables DEF IsError
      <3> QED  BY <1>2, <2>2, <3>1, <3>2 DEF Forms
    <2> DEFINE held == Top.held
    <2>4. held \in Forms /\ last' = [form |-> held, at |-> Active] /\ InTop("value", held)
          /\ held = IF engine \in Jerry THEN "flagged" ELSE "object"
      BY <2>1, <2>2, <2>3
    <2>5. (engine \notin Jerry => held # "flagged") /\ (engine # "QuickJS" => held # "token")
      BY <2>2
    <2> HIDE DEF held
    <2>6. last' \in [form : Forms, at : Nat] /\ last'.form = held /\ last'.at = Active
      BY <2>2, <2>4
    <2>7. "value" \in Raises /\ pending' \in BOOLEAN /\ (engine \notin Jerry => pending')
          /\ script' = FALSE /\ thrown' = FALSE
      BY <1>1, <1>2, <2>1 DEF Raises, ExceptionInv, ActTypes, Waiting
    <2> QED  BY <1>2, <2>4, <2>5, <2>6, <2>7, NotingStep
  <1> QED  BY <1>3, <1>4

\* napi_throw_error makes an error of its own and notes it.
LEMMA ThrowErrorStep ==
    ASSUME ExceptionInv, ThrowError
    PROVE  ExceptionInv'
  <1>1. engine \in Engines /\ script \in BOOLEAN /\ stack \in Seq(Frames)
    BY DEF ExceptionInv, ActTypes, Frames
  <1>2. /\ ~script /\ Active > 0 /\ UNCHANGED <<engine, script, thrown, careless>>
        /\ last' = [form |-> ThrownForm, at |-> Active] /\ pending' = (engine \notin Jerry)
        /\ InTop("new", Top.held)
    BY DEF ThrowError
  <1>3. /\ Top.held \in Forms /\ Active \in Nat
        /\ engine \notin Jerry => Top.held # "flagged"
        /\ engine # "QuickJS" => Top.held # "token"
    BY <1>1, <1>2, TopIsFrame DEF ExceptionInv, FormsOfEngine
  <1>4. /\ ThrownForm \in Forms
        /\ engine \notin Jerry => ThrownForm # "flagged"
        /\ engine # "QuickJS" => ThrownForm # "token"
    BY <1>1, ThrownForms DEF Forms
  <1>5. last' \in [form : Forms, at : Nat] /\ last'.form = ThrownForm /\ last'.at = Active
    BY <1>2, <1>3, <1>4
  <1>6. "new" \in Raises /\ pending' \in BOOLEAN /\ (engine \notin Jerry => pending')
        /\ script' = FALSE /\ thrown' = FALSE
    BY <1>1, <1>2 DEF Raises, ExceptionInv, ActTypes, Waiting
  <1> QED  BY <1>2, <1>3, <1>4, <1>5, <1>6, NotingStep

\* What is taken back is held, and noted no more.
LEMMA TakeBackStep ==
    ASSUME ExceptionInv, GetAndClearLastException
    PROVE  ExceptionInv'
  <1>1. engine \in Engines /\ script \in BOOLEAN /\ pending \in BOOLEAN /\ last.form \in Forms
        /\ (engine \notin Jerry => last.form # "flagged") /\ (engine # "QuickJS" => last.form # "token")
    BY DEF ExceptionInv, ActTypes, FormsOfEngine
  <1>2. /\ ~script /\ Active > 0 /\ UNCHANGED <<engine, script, thrown, pending, careless>>
        /\ last' = NoLast /\ InTop("cleared", last.form)
    BY DEF GetAndClearLastException
  <1>3. last' \in [form : Forms, at : Nat] /\ last'.form = "none"
    BY <1>2 DEF NoLast, Forms
  <1>4. "cleared" \in Raises /\ pending' \in BOOLEAN /\ script' = FALSE /\ thrown' = FALSE
    BY <1>1, <1>2 DEF Raises, ExceptionInv, ActTypes, Waiting
  <1> QED  BY <1>1, <1>2, <1>3, <1>4, NotingStep

\* A function that has raised nothing lends the script its place.
LEMMA CallStep ==
    ASSUME ExceptionInv, CallFunction
    PROVE  ExceptionInv'
  <1>1. /\ ~script /\ Active > 0 /\ Top.raised = "no" /\ script' = TRUE
        /\ UNCHANGED <<engine, stack, thrown, pending, last, careless>>
    BY DEF CallFunction
  <1>2. stack \in Seq(Frames) /\ ~thrown
    BY <1>1 DEF ExceptionInv, ActTypes, Frames, Waiting
  <1>3. Active' = Active /\ \A i \in 1 .. Active : stack[i].raised = "no"
    <2>1. \A i \in 1 .. Active : i < Active \/ i = Active
      BY <1>2, TopIsFrame
    <2> QED  BY <1>1, <1>2, <2>1 DEF ExceptionInv, Waiting, Active, Top
  <1>4. ActTypes' /\ Waiting' /\ FormsOfEngine'
    BY <1>1, <1>3 DEF ExceptionInv, ActTypes, Waiting, FormsOfEngine
  <1>5. ThrownIsNoted' /\ LastIsOwn'
    BY <1>1, <1>3 DEF ExceptionInv, ThrownIsNoted, LastIsOwn
  <1>6. PendingIsThrown'
    BY <1>1, <1>2 DEF ExceptionInv, ActTypes, PendingIsThrown
  <1> QED  BY <1>4, <1>5, <1>6 DEF ExceptionInv

\* A script that has thrown leaves its exception with the function that called it.
LEMMA FunctionReturnsStep ==
    ASSUME ExceptionInv, FunctionReturns
    PROVE  ExceptionInv'
  <1>1. engine \in Engines /\ stack \in Seq(Frames) /\ pending \in BOOLEAN /\ thrown \in BOOLEAN
        /\ last \in [form : Forms, at : Nat]
    BY DEF ExceptionInv, ActTypes, Frames
  <1>2. /\ script /\ Active > 0 /\ script' = FALSE /\ thrown' = FALSE /\ UNCHANGED <<engine, careless>>
    BY DEF FunctionReturns
  <1>3. CASE thrown
    <2>1. /\ InTop("inherited", Top.held) /\ pending' = (engine \in {"V8", "QuickJS"})
          /\ last' = IF engine \in Jerry THEN [form |-> "object", at |-> Active] ELSE last
      BY <1>3 DEF FunctionReturns
    <2>2. /\ Top.held \in Forms /\ Active \in Nat
          /\ engine \notin Jerry => Top.held # "flagged"
          /\ engine # "QuickJS" => Top.held # "token"
      BY <1>1, <1>2, TopIsFrame DEF ExceptionInv, FormsOfEngine
    <2>3. "inherited" \in Raises /\ pending' \in BOOLEAN
      BY <2>1 DEF Raises
    <2>4. /\ last' \in [form : Forms, at : Nat]
          /\ engine \notin Jerry => last'.form # "flagged"
          /\ engine # "QuickJS" => last'.form # "token"
          /\ ~careless /\ last' # NoLast => last'.at = Active
      <3>1. CASE engine \in Jerry
        <4>1. last' = [form |-> "object", at |-> Active] /\ "object" \in Forms
          BY <2>1, <3>1 DEF Forms
        <4> QED  BY <2>2, <3>1, <4>1
      <3>2. CASE engine \notin Jerry
        BY <1>1, <1>2, <2>1, <3>2 DEF ExceptionInv, FormsOfEngine, LastIsOwn
      <3> QED  BY <3>1, <3>2
    <2> QED  BY <1>2, <2>1, <2>2, <2>3, <2>4, NotingStep
  <1>4. CASE ~thrown
    <2>1. UNCHANGED <<stack, pending, last>> /\ Active' = Active /\ Active \in 1 .. Active
      BY <1>1, <1>2, <1>4, TopIsFrame DEF FunctionReturns, Active
    <2>2. Top'.raised = "no"
      BY <1>2, <2>1 DEF ExceptionInv, Waiting, Top, Active
    <2>3. ActTypes' /\ Waiting' /\ FormsOfEngine'
      BY <1>2, <2>1 DEF ExceptionInv, ActTypes, Waiting, FormsOfEngine
    <2>4. ThrownIsNoted'
      BY <2>2 DEF ThrownIsNoted
    <2>5. PendingIsThrown' /\ LastIsOwn'
      BY <1>2, <1>4, <2>1, <2>2 DEF ExceptionInv, PendingIsThrown, LastIsOwn, NoLast
    <2> QED  BY <2>3, <2>4, <2>5 DEF ExceptionInv
  <1> QED  BY <1>3, <1>4

\* A function that returns hands over what is noted, or leaves it to whoever is careless.
LEMMA ReturnStep ==
    ASSUME ExceptionInv, NEW null \in BOOLEAN, Return(null)
    PROVE  ExceptionInv'
  <1> DEFINE got == Got(null)
  <1>1. engine \in Engines /\ stack \in Seq(Frames) /\ pending \in BOOLEAN /\ careless \in BOOLEAN
        /\ last \in [form : Forms, at : Nat]
    BY DEF ExceptionInv, ActTypes, Frames
  <1>2. /\ ~script /\ Active > 0 /\ script' = TRUE /\ UNCHANGED engine
        /\ thrown' = (got = "exception")
        /\ pending' = IF engine = "QuickJS" THEN pending \/ got = "exception"
                      ELSE engine \notin Jerry /\ got = "exception"
        /\ last' = Kept(null) /\ careless' = (careless \/ (~null /\ last # NoLast))
        /\ stack' = SubSeq(stack, 1, Active - 1)
    BY DEF Return
  <1> HIDE DEF got
  <1>3. /\ stack' \in Seq(Frames) /\ Active' = Active - 1 /\ Active \in Nat
        /\ \A i \in 1 .. Active - 1 : stack'[i] = stack[i]
    BY <1>1, <1>2, Leaving, TopIsFrame
  <1>4. /\ last' \in [form : Forms, at : Nat] /\ (last'.form = "none" \/ last'.form = last.form)
        /\ ~careless' => last' = NoLast
    <2>1. CASE null
      <3>1. last' = NoLast
        BY <1>2, <2>1 DEF Kept
      <3> QED  BY <3>1 DEF NoLast, Forms
    <2>2. CASE ~null /\ last = NoLast
      <3>1. last.at = 0 /\ last.form = "none"
        BY <2>2 DEF NoLast
      <3>2. last' = last
        BY <1>2, <2>2, <3>1 DEF Kept
      <3> QED  BY <1>1, <2>2, <3>1, <3>2
    <2>3. CASE ~null /\ last # NoLast
      <3>1. careless' = TRUE
        BY <1>2, <2>3
      <3>2. last' = last \/ last' = [last EXCEPT !.at = 0]
        BY <1>2, <2>3 DEF Kept
      <3> QED  BY <1>1, <3>1, <3>2
    <2> QED  BY <2>1, <2>2, <2>3
  <1>5. ActTypes'
    <2>1. thrown' \in BOOLEAN /\ pending' \in BOOLEAN /\ careless' \in BOOLEAN
      BY <1>1, <1>2
    <2> QED  BY <1>1, <1>2, <1>3, <1>4, <2>1 DEF ActTypes, Frames
  <1>6. Waiting'
    <2>1. \A i \in 1 .. Active - 1 : i \in 1 .. Active /\ i < Active
      BY <1>3
    <2> QED  BY <1>2, <1>3, <2>1 DEF ExceptionInv, Waiting
  <1>7. FormsOfEngine'
    <2>1. \A i \in 1 .. Active - 1 : i \in 1 .. Active
      BY <1>3
    <2> QED  BY <1>2, <1>3, <1>4, <2>1 DEF ExceptionInv, FormsOfEngine
  <1>8. ThrownIsNoted' /\ LastIsOwn'
    BY <1>2, <1>4 DEF ThrownIsNoted, LastIsOwn, NoLast
  <1>9. PendingIsThrown'
    BY <1>1, <1>2, ThrownForms DEF PendingIsThrown
  <1> QED  BY <1>5, <1>6, <1>7, <1>8, <1>9 DEF ExceptionInv

\* The other calls of a native function have nothing to do with exceptions.
LEMMA CallsLeaveActivations ==
    ASSUME NextCall
    PROVE  UNCHANGED <<engine, stack, script, thrown, pending, last, careless>>
  <1>1. Calling
    BY DEF NextCall, Ask, AskNewTarget, Create, Receive, Convert, Drop, CreateNumber, ReceiveNumber, GetValueNumber,
           ReceiveBig, CreateBigWords, GetValueBig, CreateString, CreateString16, GetValueString, GetValueString16,
           DefineProperties, Property, Element, TypeTag, Lock, ScriptLocks, OnObject, Making
  <1> QED  BY <1>1 DEF Calling

\* Every step keeps the invariant.
LEMMA StepKeeps ==
    ASSUME ExceptionInv, [Next]_vars
    PROVE  ExceptionInv'
  <1>1. CASE NextCall
    BY <1>1, CallsLeaveActivations, Unmoved
  <1>2. CASE NextActivation
    BY <1>2, EnterStep, ScriptStep, CreateErrorStep, ThrowStep, ThrowErrorStep, TakeBackStep, CallStep,
       FunctionReturnsStep, ReturnStep DEF NextActivation
  <1>3. CASE Noted \/ UNCHANGED vars
    BY <1>3, Unmoved DEF Noted, vars, activationVars
  <1> QED  BY <1>1, <1>2, <1>3 DEF Next
-----------------------------------------------------------------------------
(* What becomes of the exceptions *)

\* The invariant holds throughout.
THEOREM ExceptionsAccounted == Spec => []ExceptionInv
  <1>1. Init => ExceptionInv
    BY NothingAtFirst
  <1>2. ExceptionInv /\ [Next]_vars => ExceptionInv'
    BY StepKeeps
  <1> QED  BY <1>1, <1>2, PTL DEF Spec

\* Only the end of a native function takes one off the stack.
LEMMA OnlyReturnReturns ==
    ASSUME ExceptionInv, [Next]_vars, Returning
    PROVE  \E null \in BOOLEAN : Return(null)
  <1>1. Active \in Nat /\ Len(stack') = Active - 1 /\ did'.does = "return"
    BY TopIsFrame DEF ExceptionInv, ActTypes, Frames, Returning
  <1>2. stack' # stack
    BY <1>1 DEF Active
  <1>3. NextActivation
    BY <1>2, CallsLeaveActivations DEF Next, Noted, vars, activationVars
  <1>4. ASSUME NEW does, did' = Call(does), does # "return"
        PROVE  FALSE
    BY <1>1, <1>4 DEF Call
  <1>5. ~Enter /\ ~ScriptThrows /\ ~ScriptCatches
    BY <1>4 DEF Enter, ScriptThrows, ScriptCatches
  <1>6. ~CreateError /\ ~Throw /\ ~ThrowError /\ ~GetAndClearLastException
    <2>1. ~CreateError
      BY <1>4 DEF CreateError
    <2>2. ~Throw
      BY <1>4 DEF Throw
    <2>3. ~ThrowError
      BY <1>4 DEF ThrowError
    <2>4. ~GetAndClearLastException
      BY <1>4 DEF GetAndClearLastException
    <2> QED  BY <2>1, <2>2, <2>3, <2>4
  <1>7. ~CallFunction /\ ~FunctionReturns
    BY <1>4 DEF CallFunction, FunctionReturns
  <1> QED  BY <1>3, <1>5, <1>6, <1>7 DEF NextActivation

\* An exception that was thrown is what the caller gets, or in QuickJS the error itself.
LEMMA ThrownIsGot ==
    ASSUME ExceptionInv, [Next]_vars, Returning, Top.raised \in {"value", "new"}, did'.null
    PROVE  did'.got = IF engine = "QuickJS" /\ Top.raised = "value" THEN "the error" ELSE "exception"
  <1>1. PICK null \in BOOLEAN : Return(null)
    BY OnlyReturnReturns
  <1>2. ~script /\ Active > 0 /\ did' = [does |-> "return", null |-> null, got |-> Got(null)]
    BY <1>1 DEF Return
  <1>3. null = TRUE /\ did'.got = Got(TRUE)
    BY <1>1, <1>2
  <1>4. engine \in Engines
    BY DEF ExceptionInv, ActTypes
  <1>5. /\ Top.raised = "value" => last.form = IF engine \in Jerry THEN "flagged" ELSE "object"
        /\ Top.raised = "new" => last.form = ThrownForm
        /\ engine \notin Jerry => pending
    BY <1>2 DEF ExceptionInv, ThrownIsNoted
  <1>6. CASE engine \in {"Ark", "V8"}
    BY <1>3, <1>5, <1>6 DEF Got, Jerry
  <1>7. CASE engine = "QuickJS"
    <2>1. last.form \in {"object", "token"} /\ (last.form = "object" <=> Top.raised = "value")
      BY <1>4, <1>5, <1>7, ThrownForms
    <2>2. last # NoLast
      BY <2>1 DEF NoLast
    <2> QED  BY <1>3, <1>7, <2>1, <2>2 DEF Got
  <1>8. CASE engine \in Jerry
    <2>1. last.form = "flagged"
      BY <1>4, <1>5, <1>8, ThrownForms
    <2>2. last # NoLast
      BY <2>1 DEF NoLast
    <2> QED  BY <1>3, <1>8, <2>1, <2>2 DEF Got, Jerry
  <1> QED  BY <1>4, <1>6, <1>7, <1>8 DEF Engines

\* Who gets an exception without a careless function on the way gets one that was raised.
LEMMA GotIsRaised ==
    ASSUME ExceptionInv, [Next]_vars, Returning, ~careless, did'.got \in {"exception", "the error"}
    PROVE  \/ Top.raised \in {"value", "new", "inherited"}
           \/ Top.raised = "cleared" /\ engine \in {"Ark", "V8"}
  <1>1. PICK null \in BOOLEAN : Return(null)
    BY OnlyReturnReturns
  <1>2. ~script /\ Active > 0 /\ did' = [does |-> "return", null |-> null, got |-> Got(null)]
    BY <1>1 DEF Return
  <1>3. Got(null) \in {"exception", "the error"}
    BY <1>2
  <1>4. engine \in Engines /\ Top.raised \in Raises
    BY <1>2, TopIsFrame DEF ExceptionInv, ActTypes, Frames
  <1>5. /\ Top.raised \in {"no", "cleared"} => last = NoLast
        /\ engine \in {"Ark", "V8"} /\ Top.raised = "no" => ~pending
    BY <1>2 DEF ExceptionInv, PendingIsThrown, LastIsOwn
  <1>6. CASE engine \in {"Ark", "V8"}
    <2>1. ASSUME ~pending, last = NoLast
          PROVE  Got(null) \in {"undefined", "value"}
      <3>1. last.form = "none"
        BY <2>1 DEF NoLast
      <3>2. CASE engine = "Ark"
        <4>1. Got(TRUE) = "undefined" /\ Got(FALSE) = "value"
          BY <2>1, <3>2 DEF Got, Jerry
        <4> QED  BY <1>1, <4>1
      <3>3. CASE engine = "V8" /\ null = TRUE
        BY <2>1, <3>1, <3>3 DEF Got, Jerry
      <3>4. CASE engine = "V8" /\ null = FALSE
        BY <2>1, <3>4 DEF Got, Jerry
      <3> QED  BY <1>1, <1>6, <3>2, <3>3, <3>4
    <2>2. Top.raised # "no"
      BY <1>3, <1>5, <1>6, <2>1
    <2> QED  BY <1>4, <1>6, <2>2 DEF Raises
  <1>7. CASE engine \in {"QuickJS"} \cup Jerry
    <2>1. ASSUME last = NoLast
          PROVE  Got(null) \in {"undefined", "value"}
      <3>1. last.form = "none"
        BY <2>1 DEF NoLast
      <3>2. CASE null = TRUE
        BY <1>7, <2>1, <3>1, <3>2 DEF Got, Jerry
      <3>3. CASE null = FALSE
        BY <1>7, <3>3 DEF Got, Jerry
      <3> QED  BY <1>1, <3>2, <3>3
    <2>2. last # NoLast
      BY <1>3, <2>1
    <2> QED  BY <1>4, <1>5, <2>2 DEF Raises
  <1> QED  BY <1>4, <1>6, <1>7 DEF Engines

\* However native functions and scripts call each other, in every back end: what a native function
\* throws before it returns nullptr reaches its caller, as an exception or, where QuickJS is handed
\* an error object, as the value of the call.
THEOREM ThrownIsNeverLost == Spec => ThrownReachesCaller
  <1>1. ExceptionInv /\ [Next]_vars =>
          [Returning /\ Top.raised \in {"value", "new"} /\ did'.null =>
             did'.got = IF engine = "QuickJS" /\ Top.raised = "value" THEN "the error" ELSE "exception"]_activationVars
    BY ThrownIsGot
  <1> QED  BY <1>1, ExceptionsAccounted, PTL DEF Spec, ThrownReachesCaller

\* However native functions and scripts call each other: as long as functions with an exception
\* pending return nullptr, no caller gets an error that its callee neither threw nor met, but for
\* those that Ark and V8 throw although they were taken back, and lastException_ is a handle of a
\* function that is still active.
THEOREM NoForeignExceptions == Spec => OnlyOwnExceptions
  <1>1. ASSUME ExceptionInv, ExceptionInv', ~careless', last' # NoLast
        PROVE  last'.at \in 1 .. Len(stack')
    <2>1. ~script' /\ last'.at = Active'
      BY <1>1 DEF ExceptionInv, LastIsOwn, NoLast
    <2>2. Active' \in Nat /\ Active' > 0
      <3>1. Active' > 0
        BY <1>1, <2>1 DEF ExceptionInv, Waiting
      <3>2. stack' \in Seq(Frames)
        BY <1>1 DEF ExceptionInv, ActTypes, Frames
      <3> QED  BY <3>1, <3>2, LenProperties DEF Active
    <2> QED  BY <2>1, <2>2 DEF Active
  <1>2. ExceptionInv /\ ExceptionInv' /\ [Next]_vars =>
          [/\ ~careless' /\ last' # NoLast => last'.at \in 1 .. Len(stack')
           /\ Returning /\ ~careless /\ did'.got \in {"exception", "the error"} =>
                 \/ Top.raised \in {"value", "new", "inherited"}
                 \/ Top.raised = "cleared" /\ engine \in {"Ark", "V8"}]_activationVars
    BY <1>1, GotIsRaised
  <1> QED  BY <1>2, ExceptionsAccounted, PTL DEF Spec, OnlyOwnExceptions

-----------------------------------------------------------------------------
(* Objects *)

\* Each back end means by the operations of EcmaScript what the other modules mean.
LEMMA SameMeaning ==
    ASSUME NEW o, NEW p, NEW v
    PROVE  /\ Ark!Define(o, p) = Define(o, p) /\ Ark!Assign(o, v) = Assign(o, v)
           /\ Ark!Deleted(o) = Deleted(o) /\ Ark!Holds(o) = Holds(o) /\ Ark!Read(o) = Read(o)
           /\ V8!Define(o, p) = Define(o, p) /\ V8!Assign(o, v) = Assign(o, v)
           /\ V8!Deleted(o) = Deleted(o) /\ V8!Holds(o) = Holds(o) /\ V8!Read(o) = Read(o)
           /\ QuickJS!Define(o, p) = Define(o, p) /\ QuickJS!Assign(o, v) = Assign(o, v)
           /\ QuickJS!Deleted(o) = Deleted(o) /\ QuickJS!Holds(o) = Holds(o) /\ QuickJS!Read(o) = Read(o)
           /\ QuickJS!Tagged(o, v) = Tagged(o, v) /\ QuickJS!HasTag(o, v) = HasTag(o, v)
           /\ QuickJS!Frozen(o) = Frozen(o) /\ QuickJS!Sealed(o) = Sealed(o)
           /\ Jerry4!Define(o, p) = Define(o, p) /\ Jerry4!Assign(o, v) = Assign(o, v)
           /\ Jerry4!Deleted(o) = Deleted(o) /\ Jerry4!Holds(o) = Holds(o) /\ Jerry4!Read(o) = Read(o)
           /\ Jerry4!Tagged(o, v) = Tagged(o, v) /\ Jerry4!HasTag(o, v) = HasTag(o, v)
           /\ Jerry4!Frozen(o) = Frozen(o) /\ Jerry4!Sealed(o) = Sealed(o)
  <1>1. /\ Ark!Define(o, p) = Define(o, p) /\ Ark!Assign(o, v) = Assign(o, v)
        /\ Ark!Deleted(o) = Deleted(o) /\ Ark!Holds(o) = Holds(o) /\ Ark!Read(o) = Read(o)
    BY DEF Ark!Define, Ark!Takes, Ark!Absent, Ark!Did, Ark!Assign, Ark!Data, Ark!Attributes, Ark!Deleted,
           Ark!Holds, Ark!Read, Ark!ReadOf, Define, Takes, Absent, Did, Assign, Data, Attributes, Deleted,
           Holds, Read, ReadOf
  <1>2. /\ V8!Define(o, p) = Define(o, p) /\ V8!Assign(o, v) = Assign(o, v)
        /\ V8!Deleted(o) = Deleted(o) /\ V8!Holds(o) = Holds(o) /\ V8!Read(o) = Read(o)
    BY DEF V8!Define, V8!Takes, V8!Absent, V8!Did, V8!Assign, V8!Data, V8!Attributes, V8!Deleted, V8!Holds,
           V8!Read, V8!ReadOf, Define, Takes, Absent, Did, Assign, Data, Attributes, Deleted, Holds, Read,
           ReadOf
  <1>3. /\ QuickJS!Define(o, p) = Define(o, p) /\ QuickJS!Assign(o, v) = Assign(o, v)
        /\ QuickJS!Deleted(o) = Deleted(o) /\ QuickJS!Holds(o) = Holds(o) /\ QuickJS!Read(o) = Read(o)
    BY DEF QuickJS!Define, QuickJS!Takes, QuickJS!Absent, QuickJS!Did, QuickJS!Assign, QuickJS!Data,
           QuickJS!Attributes, QuickJS!Deleted, QuickJS!Holds, QuickJS!Read, QuickJS!ReadOf, Define, Takes,
           Absent, Did, Assign, Data, Attributes, Deleted, Holds, Read, ReadOf
  <1>4. /\ QuickJS!Tagged(o, v) = Tagged(o, v) /\ QuickJS!HasTag(o, v) = HasTag(o, v)
        /\ QuickJS!Frozen(o) = Frozen(o) /\ QuickJS!Sealed(o) = Sealed(o)
    BY DEF QuickJS!Tagged, QuickJS!HasTag, QuickJS!Frozen, QuickJS!Sealed, QuickJS!Without,
           QuickJS!Stripped, QuickJS!Did, QuickJS!Absent, Tagged, HasTag, Frozen, Sealed, Without,
           Stripped, Did, Absent
  <1>5. /\ Jerry4!Define(o, p) = Define(o, p) /\ Jerry4!Assign(o, v) = Assign(o, v)
        /\ Jerry4!Deleted(o) = Deleted(o) /\ Jerry4!Holds(o) = Holds(o) /\ Jerry4!Read(o) = Read(o)
    BY DEF Jerry4!Define, Jerry4!Takes, Jerry4!Absent, Jerry4!Did, Jerry4!Assign, Jerry4!Data,
           Jerry4!Attributes, Jerry4!Deleted, Jerry4!Holds, Jerry4!Read, Jerry4!ReadOf, Define, Takes,
           Absent, Did, Assign, Data, Attributes, Deleted, Holds, Read, ReadOf
  <1>6. /\ Jerry4!Tagged(o, v) = Tagged(o, v) /\ Jerry4!HasTag(o, v) = HasTag(o, v)
        /\ Jerry4!Frozen(o) = Frozen(o) /\ Jerry4!Sealed(o) = Sealed(o)
    BY DEF Jerry4!Tagged, Jerry4!HasTag, Jerry4!Frozen, Jerry4!Sealed, Jerry4!Without, Jerry4!Stripped,
           Jerry4!Did, Jerry4!Absent, Tagged, HasTag, Frozen, Sealed, Without, Stripped, Did, Absent
  <1> QED  BY <1>1, <1>2, <1>3, <1>4, <1>5, <1>6

\* A definition makes of the object what ECMAScript makes of the descriptor's, where it is not
\* known to do otherwise.
LEMMA DefinitionAgrees ==
    ASSUME engine \in Engines, NEW o, NEW given \in Given, NEW attributes,
           ~Otherwise("define", o, Descriptor(given, attributes)),
           NEW outcome \in DefineProperty(engine, o, Descriptor(given, attributes))
    PROVE  outcome.object = Ordinary("define", o, Descriptor(given, attributes)).object
  <1> DEFINE d == Descriptor(given, attributes)
             asked == Ark!Defined(d)
  <1>1. d.given = given /\ d.attributes = attributes /\ d.value = "a"
    BY DEF Descriptor
  <1>2. Ordinary("define", o, d) = Define(o, asked)
    BY DEF Ordinary
  <1> SUFFICES outcome.object = Define(o, asked).object
    BY <1>2
  <1>3. ~Otherwise("define", o, d) /\ outcome \in DefineProperty(engine, o, d)
    OBVIOUS
  <1> HIDE DEF d
  <1>4. CASE engine = "Ark"
    <2>1. outcome = Ark!Define(o, asked)
      BY <1>3, <1>4 DEF DefineProperty, Ark!DefineProperty, Jerry
    <2> QED  BY <2>1, SameMeaning
  <1>5. CASE engine = "V8"
    <2>1. outcome = V8!Define(o, V8!Defined(d))
      BY <1>3, <1>5 DEF DefineProperty, V8!DefineProperty, Jerry
    <2>2. V8!Defined(d) = asked
      BY DEF V8!Defined, Ark!Defined, V8!Accessor, Ark!Accessor, V8!Data, Ark!Data
    <2> QED  BY <2>1, <2>2, SameMeaning
  <1>6. CASE engine = "QuickJS"
    <2>1. outcome = QuickJS!Define(o, QuickJS!Defined(d))
      BY <1>3, <1>6 DEF DefineProperty, QuickJS!DefineProperty, Jerry
    <2>2. given = {"value"} /\ attributes = Attributes
      BY <1>1, <1>3, <1>6 DEF Otherwise
    <2>3. QuickJS!Defined(d) = asked
      <3>1. QuickJS!Defined(d) = Data("a", Attributes)
        BY <1>1, <2>2 DEF QuickJS!Defined, QuickJS!Data, Data, QuickJS!Attributes, Attributes
      <3>2. asked = Data("a", Attributes)
        BY <1>1, <2>2 DEF Ark!Defined, Ark!Data, Data
      <3> QED  BY <3>1, <3>2
    <2> QED  BY <2>1, <2>3, SameMeaning
  <1>7. CASE engine \in Jerry
    <2>1. outcome \in Jerry4!DefineProperty(o, d)
      BY <1>3, <1>7 DEF DefineProperty, Jerry
    <2>2. o.property = Absent /\ {"getter", "setter"} \cap d.given = {}
      BY <1>1, <1>3, <1>7 DEF Otherwise
    <2>3. outcome.object = Jerry4!Define(o, Jerry4!Defined(o, d)).object
      BY <2>1, <2>2 DEF Jerry4!DefineProperty, Jerry4!Outcomes, Jerry4!Did
    <2>4. Jerry4!Defined(o, d) = asked
      <3>1. Jerry4!Kept(o, d) = d.attributes
        BY <2>2 DEF Jerry4!Kept, Jerry4!Absent, Absent
      <3>2. Jerry4!Defined(o, d) = Jerry4!Data(IF "method" \in d.given THEN "method" ELSE d.value, d.attributes)
        BY <2>2, <3>1 DEF Jerry4!Defined
      <3> QED  BY <2>2, <3>2 DEF Ark!Defined, Jerry4!Data, Ark!Data
    <2> QED  BY <2>3, <2>4, SameMeaning
  <1> QED  BY <1>4, <1>5, <1>6, <1>7 DEF Engines

\* The other operations change the object as ECMAScript does and answer what it answers, where
\* they are not known to do otherwise; what an assignment answers is not looked at.
LEMMA OperationAgrees ==
    ASSUME engine \in Engines, NEW o, NEW op \in PropertyOps, ~Otherwise(op, o, "b")
    PROVE  /\ PropertyOp(engine, op, o, "b").object = Ordinary(op, o, "b").object
           /\ op = "SetProperty" \/ PropertyOp(engine, op, o, "b").answer = Ordinary(op, o, "b").answer
  <1> DEFINE did1 == PropertyOp(engine, op, o, "b")
  <1>1. /\ op = "SetProperty" => Ordinary(op, o, "b") = Assign(o, "b")
        /\ op = "GetProperty" => Ordinary(op, o, "b") = Read(o)
        /\ op = "HasProperty" => Ordinary(op, o, "b") = Holds(o)
        /\ op = "DeleteProperty" => Ordinary(op, o, "b") = Deleted(o)
    BY DEF Ordinary
  <1>2. CASE engine = "Ark"
    <2>1. did1 = Ark!PropertyOp(op, o, "b")
      BY <1>2 DEF PropertyOp, Jerry
    <2>2. did1 = Ordinary(op, o, "b")
      BY <1>1, <2>1, SameMeaning DEF Ark!PropertyOp, PropertyOps
    <2> QED  BY <2>2
  <1>3. CASE engine = "V8"
    <2>1. did1 = V8!PropertyOp(op, o, "b")
      BY <1>3 DEF PropertyOp, Jerry
    <2>2. did1 = Ordinary(op, o, "b")
      BY <1>1, <2>1, SameMeaning DEF V8!PropertyOp, PropertyOps
    <2> QED  BY <2>2
  <1>4. CASE engine = "QuickJS"
    <2>1. did1 = QuickJS!PropertyOp(op, o, "b")
      BY <1>4 DEF PropertyOp, Jerry
    <2>2. CASE op = "DeleteProperty"
      <3>1. did1.object = Deleted(o).object /\ did1.answer = TRUE
        BY <2>1, <2>2, SameMeaning DEF QuickJS!PropertyOp, QuickJS!Did
      <3>2. Deleted(o).answer = TRUE
        <4>1. Deleted(o).answer = TRUE \/ Deleted(o).answer = FALSE
          BY DEF Deleted, Did
        <4>2. Deleted(o).answer # FALSE
          BY <1>1, <1>4, <2>2 DEF Otherwise, Refuses
        <4> QED  BY <4>1, <4>2
      <3> QED  BY <1>1, <2>2, <3>1, <3>2
    <2>3. CASE op # "DeleteProperty"
      <3>1. did1 = Ordinary(op, o, "b")
        BY <1>1, <2>1, <2>3, SameMeaning DEF QuickJS!PropertyOp, PropertyOps
      <3> QED  BY <3>1
    <2> QED  BY <2>2, <2>3
  <1>5. CASE engine \in Jerry
    <2>1. did1 = Jerry4!PropertyOp(op, o, "b")
      BY <1>5 DEF PropertyOp, Jerry
    <2>2. CASE op = "SetProperty"
      <3>1. did1.object = Assign(o, "b").object
        BY <2>1, <2>2, SameMeaning DEF Jerry4!PropertyOp, Jerry4!Did
      <3> QED  BY <1>1, <2>2, <3>1
    <2>3. CASE op # "SetProperty"
      <3>1. did1 = Ordinary(op, o, "b")
        BY <1>1, <2>1, <2>3, SameMeaning DEF Jerry4!PropertyOp, PropertyOps
      <3> QED  BY <3>1
    <2> QED  BY <2>2, <2>3
  <1> QED  BY <1>2, <1>3, <1>4, <1>5 DEF Engines

\* The same of elements.  JerryScript tells an element that is not there by what it reads, so
\* that no element may read as undefined.
LEMMA ElementAgrees ==
    ASSUME engine \in Engines, NEW o, NEW op \in ElementOps, ~Otherwise(op, o, "b"),
           ReadOf(o) = "undefined" <=> o.property = Absent
    PROVE  /\ ElementOp(engine, op, o, "b").object = Ordinary(op, o, "b").object
           /\ op = "SetElement" \/ ElementOp(engine, op, o, "b").answer = Ordinary(op, o, "b").answer
  <1> DEFINE did1 == ElementOp(engine, op, o, "b")
  <1>1. /\ op = "SetElement" => Ordinary(op, o, "b") = Assign(o, "b")
        /\ op = "GetElement" => Ordinary(op, o, "b") = Read(o)
        /\ op = "HasElement" => Ordinary(op, o, "b") = Holds(o)
        /\ op = "DeleteElement" => Ordinary(op, o, "b") = Deleted(o)
    BY DEF Ordinary
  <1>2. CASE engine = "Ark"
    <2>1. did1 = Ark!ElementOp(op, o, "b")
      BY <1>2 DEF ElementOp, Jerry
    <2>2. did1 = Ordinary(op, o, "b")
      BY <1>1, <2>1, SameMeaning DEF Ark!ElementOp, ElementOps
    <2> QED  BY <2>2
  <1>3. CASE engine = "V8"
    <2>1. did1 = V8!ElementOp(op, o, "b")
      BY <1>3 DEF ElementOp, Jerry
    <2>2. did1 = Ordinary(op, o, "b")
      BY <1>1, <2>1, SameMeaning DEF V8!ElementOp, ElementOps
    <2> QED  BY <2>2
  <1>4. CASE engine = "QuickJS"
    <2>1. did1 = QuickJS!ElementOp(op, o, "b") /\ op # "DeleteElement"
      BY <1>4 DEF ElementOp, Jerry, Otherwise
    <2>2. did1 = Ordinary(op, o, "b")
      BY <1>1, <2>1, SameMeaning DEF QuickJS!ElementOp, ElementOps
    <2> QED  BY <2>2
  <1>5. CASE engine \in Jerry
    <2>1. did1 = Jerry4!ElementOp(op, o, "b") /\ op # "SetElement"
      BY <1>5 DEF ElementOp, Jerry, Otherwise
    <2>2. CASE op = "HasElement"
      <3>1. Jerry4!ReadOf(o) = ReadOf(o)
        BY DEF Jerry4!ReadOf, ReadOf, Jerry4!Absent, Absent
      <3>2. did1 = Did(o, ReadOf(o) # "undefined")
        BY <2>1, <2>2, <3>1 DEF Jerry4!ElementOp, Jerry4!Did, Did
      <3>3. did1 = Holds(o)
        BY <3>2 DEF Holds, Did
      <3> QED  BY <1>1, <2>2, <3>3
    <2>3. CASE op # "HasElement"
      <3>1. did1 = Ordinary(op, o, "b")
        BY <1>1, <2>1, <2>3, SameMeaning DEF Jerry4!ElementOp, ElementOps
      <3> QED  BY <3>1
    <2> QED  BY <2>2, <2>3
  <1> QED  BY <1>2, <1>3, <1>4, <1>5 DEF Engines

\* QuickJS finds no tag on an object whose tag has an upper word of 0.
LEMMA QuickJSLooksForTags ==
    ASSUME NEW o, NEW tag
    PROVE  /\ o.tag = ShortTag => QuickJS!TagOp("CheckTypeTag", o, tag) = QuickJS!Did(o, FALSE)
           /\ o.tag # ShortTag => QuickJS!TagOp("CheckTypeTag", o, tag) = QuickJS!HasTag(o, tag)
  <1>1. QuickJS!WordsRead(o.tag) < 2 <=> o.tag = ShortTag
    <2>1. QuickJS!ShortTag = ShortTag
      BY DEF QuickJS!ShortTag, ShortTag
    <2>2. o.tag = ShortTag => QuickJS!WordsRead(o.tag) = 1
      BY <2>1 DEF QuickJS!WordsRead
    <2>3. o.tag # ShortTag => QuickJS!WordsRead(o.tag) = 2
      BY <2>1 DEF QuickJS!WordsRead
    <2> QED  BY <2>2, <2>3
  <1>2. QuickJS!TagOp("CheckTypeTag", o, tag) =
            IF QuickJS!WordsRead(o.tag) < 2 THEN QuickJS!Did(o, FALSE) ELSE QuickJS!HasTag(o, tag)
    BY Zenon DEF QuickJS!TagOp
  <1> QED  BY <1>1, <1>2, Zenon

\* Type tags, where the back end has them, are given once and looked for as ECMAScript would have it.
LEMMA TagAgrees ==
    ASSUME engine \in Engines, engine # "V8", NEW o, NEW tag, NEW op \in {"AssociateTypeTag", "CheckTypeTag"},
           ~Otherwise(op, o, tag)
    PROVE  TagOp(engine, op, o, tag) = Ordinary(op, o, tag)
  <1>1. /\ op = "AssociateTypeTag" => Ordinary(op, o, tag) = Tagged(o, tag) /\ o.extensible
        /\ op = "CheckTypeTag" => Ordinary(op, o, tag) = HasTag(o, tag)
        /\ engine \in {"QuickJS", "Jerry4"}
    <2>1. engine \in {"QuickJS", "Jerry4"}
      BY DEF Otherwise, Engines, Jerry
    <2>2. op = "AssociateTypeTag" => o.extensible
      BY <2>1 DEF Otherwise
    <2> QED  BY <2>1, <2>2 DEF Ordinary
  <1>2. CASE engine = "QuickJS"
    <2>1. TagOp(engine, op, o, tag) = QuickJS!TagOp(op, o, tag)
      BY <1>2 DEF TagOp
    <2>2. op = "AssociateTypeTag" => QuickJS!TagOp(op, o, tag) = Tagged(o, tag)
      BY <1>1, SameMeaning DEF QuickJS!TagOp
    <2>3. CASE op = "CheckTypeTag" /\ o.tag # ShortTag
      BY <1>1, <2>1, <2>3, QuickJSLooksForTags, SameMeaning
    <2>4. CASE op = "CheckTypeTag" /\ o.tag = ShortTag
      <3>1. o.tag # tag
        BY <1>2, <2>4 DEF Otherwise
      <3>2. QuickJS!TagOp(op, o, tag) = QuickJS!Did(o, FALSE)
        BY <2>4, QuickJSLooksForTags
      <3>3. QuickJS!Did(o, FALSE) = HasTag(o, tag)
        BY <3>1 DEF QuickJS!Did, HasTag, Did
      <3> QED  BY <1>1, <2>1, <2>4, <3>2, <3>3
    <2> QED  BY <1>1, <2>1, <2>2, <2>3, <2>4
  <1>3. CASE engine = "Jerry4"
    <2>1. TagOp(engine, op, o, tag) = Jerry4!TagOp(op, o, tag)
      BY <1>3 DEF TagOp
    <2>2. Jerry4!HasBigInts
      BY DEF Jerry4!HasBigInts
    <2> QED  BY <1>1, <2>1, <2>2, SameMeaning DEF Jerry4!TagOp
  <1> QED  BY <1>1, <1>2, <1>3

\* Objects are frozen and sealed where the back end does either.
LEMMA LockAgrees ==
    ASSUME engine \in Engines, engine # "V8", NEW o, NEW op \in {"Freeze", "Seal"}, ~Otherwise(op, o, "none")
    PROVE  LockOp(engine, op, o) = Ordinary(op, o, "none")
  <1>1. /\ op = "Freeze" => Ordinary(op, o, "none") = Frozen(o)
        /\ op = "Seal" => Ordinary(op, o, "none") = Sealed(o)
        /\ engine \in {"QuickJS"} \cup Jerry
    BY DEF Ordinary, Otherwise, Engines
  <1>2. CASE engine = "QuickJS"
    <2>1. LockOp(engine, op, o) = QuickJS!LockOp(op, o)
      BY <1>2 DEF LockOp, Jerry
    <2> QED  BY <1>1, <2>1, SameMeaning DEF QuickJS!LockOp
  <1>3. CASE engine \in Jerry
    <2>1. LockOp(engine, op, o) = Jerry4!LockOp(op, o)
      BY <1>3 DEF LockOp, Jerry
    <2> QED  BY <1>1, <2>1, SameMeaning DEF Jerry4!LockOp
  <1> QED  BY <1>1, <1>2, <1>3
-----------------------------------------------------------------------------
(* The objects there are *)

Marks          == Attributes \cup UNION AttributeSets
DataProperties == [is : {"data"}, value : {"a", "b", "method", "the array"}, attributes : SUBSET Marks]
Accessors      == [is : {"accessor"}, get : {"getter", "none", "null callback"},
                   set : {"setter", "none", "null callback"}, attributes : SUBSET Marks]
Properties     == {Absent} \cup DataProperties \cup Accessors
Objects        == [property : Properties, extensible : BOOLEAN, tag : {"none"} \cup Tags, same : BOOLEAN]

\* A property that is there says what it is, and reads as something.
LEMMA PropertyIs ==
    ASSUME NEW p \in Properties
    PROVE  /\ p # Absent => p.is \in {"data", "accessor"}
           /\ p # Absent /\ p.is = "data" => p \in DataProperties /\ p.value # "undefined"
           /\ p # Absent /\ p.is = "accessor" => p \in Accessors /\ p.get # "undefined"
           /\ p = Absent => p.is = "absent"
  <1>1. Absent.is = "absent"
    BY DEF Absent
  <1>2. \A x \in DataProperties : x.is = "data" /\ x.value # "undefined"
    BY DEF DataProperties
  <1>3. \A x \in Accessors : x.is = "accessor" /\ x.get # "undefined"
    BY DEF Accessors
  <1> QED  BY <1>1, <1>2, <1>3 DEF Properties

\* A property reads as undefined only when it is not there.
LEMMA ReadsWhenThere ==
    ASSUME NEW o \in Objects
    PROVE  ReadOf(o) = "undefined" <=> o.property = Absent
  <1> DEFINE p == o.property
  <1>1. ReadOf(o) = CASE p = Absent -> "undefined" [] p.is = "data" -> p.value [] p.is = "accessor" -> p.get
    BY DEF ReadOf
  <1>2. p \in Properties
    BY DEF Objects
  <1> HIDE DEF p
  <1>3. CASE p = Absent
    <2>1. ReadOf(o) = "undefined"
      BY <1>1, <1>2, <1>3, PropertyIs
    <2> QED  BY <1>3, <2>1 DEF p
  <1>4. CASE p # Absent /\ p.is = "data"
    <2>1. ReadOf(o) = p.value /\ p.value # "undefined"
      BY <1>1, <1>2, <1>4, PropertyIs
    <2> QED  BY <1>4, <2>1 DEF p
  <1>5. CASE p # Absent /\ p.is = "accessor"
    <2>1. ReadOf(o) = p.get /\ p.get # "undefined"
      BY <1>1, <1>2, <1>5, PropertyIs
    <2> QED  BY <1>5, <2>1 DEF p
  <1> QED  BY <1>2, <1>3, <1>4, <1>5, PropertyIs

\* An object whose property, tag or room for properties changes is one.
LEMMA ObjectsChange ==
    ASSUME NEW o \in Objects, NEW p \in Properties, NEW t \in {"none"} \cup Tags
    PROVE  /\ [o EXCEPT !.property = p] \in Objects
           /\ [o EXCEPT !.extensible = FALSE, !.property = p] \in Objects
           /\ [o EXCEPT !.tag = t] \in Objects
  BY DEF Objects

\* An operation's outcome is an object and an answer.
LEMMA DidObject == \A x, y : Did(x, y).object = x /\ Did(x, y).answer = y
  BY DEF Did

\* A definition leaves an object.
LEMMA DefineKeeps ==
    ASSUME NEW o \in Objects, NEW p \in Properties
    PROVE  Define(o, p).object \in Objects
  <1>1. Define(o, p).object = [o EXCEPT !.property = p] \/ Define(o, p).object = o
    BY DEF Define, Did
  <1> QED  BY <1>1, ObjectsChange

\* An assignment of one of the values there are leaves an object.
LEMMA AssignKeeps ==
    ASSUME NEW o \in Objects, NEW v \in {"a", "b", "method", "the array"}
    PROVE  Assign(o, v).object \in Objects
  <1> DEFINE p == o.property
             changed == [o EXCEPT !.property.value = v]
             is == p.is
             mayWrite == "writable" \in p.attributes
  <1>1. p \in Properties
    BY DEF Objects
  <1>2. Assign(o, v) = CASE p = Absent -> Define(o, Data(v, Attributes))
                         [] is = "data" /\ mayWrite -> Did(changed, TRUE)
                         [] is = "data" /\ ~mayWrite -> Did(o, FALSE)
                         [] is = "accessor" -> Did(o, p.set # "none")
    BY DEF Assign
  <1> DEFINE q == [p EXCEPT !.value = v]
  <1>3. changed = [o EXCEPT !.property = q]
    OBVIOUS
  <1> HIDE DEF p, changed
  <1>4. CASE p = Absent
    <2>1. Assign(o, v) = Define(o, Data(v, Attributes))
      BY <1>1, <1>2, <1>4, PropertyIs
    <2>2. Data(v, Attributes) \in Properties
      BY DEF Data, Properties, DataProperties, Marks
    <2> QED  BY <2>1, <2>2, DefineKeeps
  <1>5. CASE p # Absent /\ p.is = "data" /\ "writable" \in p.attributes
    <2>1. p \in DataProperties
      BY <1>1, <1>5, PropertyIs
    <2>2. q \in Properties
      BY <2>1 DEF Properties, DataProperties
    <2>3. Assign(o, v) = Did(changed, TRUE)
      BY <1>2, <1>5
    <2>4. Assign(o, v).object = changed
      BY <2>3, DidObject, Zenon
    <2> HIDE DEF q
    <2>5. [o EXCEPT !.property = q] \in Objects
      BY <2>2 DEF Objects
    <2> QED  BY <1>3, <2>4, <2>5
  <1>6. CASE p # Absent /\ ~(p.is = "data" /\ "writable" \in p.attributes)
    <2>1. Assign(o, v) = Did(o, FALSE) \/ Assign(o, v) = Did(o, p.set # "none")
      <3>1. is = "data" \/ is = "accessor"
        BY <1>1, <1>6, PropertyIs
      <3>2. CASE is = "data"
        BY <1>2, <1>6, <3>2
      <3>3. CASE is = "accessor"
        BY <1>2, <1>6, <3>3
      <3> QED  BY <3>1, <3>2, <3>3
    <2>2. Assign(o, v).object = o
      BY <2>1, DidObject, Zenon
    <2> QED  BY <2>2
  <1> QED  BY <1>4, <1>5, <1>6

\* Reading leaves the object as it is; deleting, tagging and locking leave an object.
LEMMA OthersKeep ==
    ASSUME NEW o \in Objects
    PROVE  /\ Read(o).object = o /\ Holds(o).object = o /\ Deleted(o).object \in Objects
           /\ \A t \in Tags : Tagged(o, t).object \in Objects /\ HasTag(o, t).object = o
           /\ Frozen(o).object \in Objects /\ Sealed(o).object \in Objects
  <1>1. Read(o).object = o /\ Holds(o).object = o
    BY DEF Read, Holds, Did
  <1>2. Deleted(o).object \in Objects
    <2>1. Deleted(o).object = [o EXCEPT !.property = Absent] \/ Deleted(o).object = o
      BY DEF Deleted, Did
    <2>2. Absent \in Properties
      BY DEF Properties
    <2> QED  BY <2>1, <2>2, ObjectsChange
  <1>3. ASSUME NEW t \in Tags
        PROVE  Tagged(o, t).object \in Objects /\ HasTag(o, t).object = o
    <2>1. Tagged(o, t).object = [o EXCEPT !.tag = t] \/ Tagged(o, t).object = o
      BY DEF Tagged, Did
    <2>2. HasTag(o, t).object = o
      BY DEF HasTag, Did
    <2>3. [o EXCEPT !.tag = t] \in Objects
      BY DEF Objects
    <2> QED  BY <2>1, <2>2, <2>3
  <1>4. ASSUME NEW attributes
        PROVE  Without(o, attributes) \in Objects
    <2> DEFINE p == o.property
               q == Stripped(p, attributes)
    <2>1. Without(o, attributes) = [o EXCEPT !.extensible = FALSE, !.property = q]
      BY DEF Without
    <2>2. p \in Properties
      BY DEF Objects
    <2> HIDE DEF p
    <2>3. q \in Properties
      <3>1. CASE p = Absent
        BY <2>2, <3>1 DEF Stripped
      <3>2. CASE p # Absent /\ p \in DataProperties
        <4>1. [p EXCEPT !.attributes = @ \ attributes] \in DataProperties
          BY <3>2 DEF DataProperties
        <4> QED  BY <3>2, <4>1 DEF Properties, Stripped
      <3>3. CASE p # Absent /\ p \in Accessors
        <4>1. [p EXCEPT !.attributes = @ \ attributes] \in Accessors
          BY <3>3 DEF Accessors
        <4> QED  BY <3>3, <4>1 DEF Properties, Stripped
      <3> QED  BY <2>2, <3>1, <3>2, <3>3 DEF Properties
    <2> HIDE DEF q
    <2>4. [o EXCEPT !.extensible = FALSE, !.property = q] \in Objects
      BY <2>3 DEF Objects
    <2> QED  BY <2>1, <2>4
  <1>5. Frozen(o).object \in Objects /\ Sealed(o).object \in Objects
    BY <1>4 DEF Frozen, Sealed, Did
  <1> QED  BY <1>1, <1>2, <1>3, <1>5

\* A definition leaves an object, whatever the back end makes of the descriptor.
LEMMA DefinitionKeeps ==
    ASSUME engine \in Engines, NEW o \in Objects, NEW given \in Given, NEW attributes \in AttributeSets,
           NEW outcome \in DefineProperty(engine, o, Descriptor(given, attributes))
    PROVE  outcome.object \in Objects
  <1> DEFINE d == Descriptor(given, attributes)
  <1>1. d.given = given /\ d.attributes \subseteq Marks /\ d.value = "a" /\ outcome \in DefineProperty(engine, o, d)
    BY DEF Descriptor, Marks
  <1> HIDE DEF d
  <1>2. ASSUME NEW marks \in SUBSET Marks, NEW v \in {"a", "method"}
        PROVE  Data(v, marks) \in Properties
    <2>1. Data(v, marks) \in DataProperties
      BY DEF Data, DataProperties
    <2> QED  BY <2>1 DEF Properties
  <1>3. ASSUME NEW marks \in SUBSET Marks, NEW get \in {"getter", "none", "null callback"},
               NEW set \in {"setter", "none", "null callback"}
        PROVE  Accessor(get, set, marks) \in Properties
    <2>1. Accessor(get, set, marks) \in Accessors
      BY DEF Accessor, Accessors
    <2> QED  BY <2>1 DEF Properties
  <1>4. Attributes \in SUBSET Marks
    BY DEF Marks
  <1>5. CASE engine = "Ark"
    <2> DEFINE made == Ark!Defined(d)
    <2>1. outcome = Ark!Define(o, made)
      BY <1>1, <1>5 DEF DefineProperty, Ark!DefineProperty, Jerry
    <2>2. made \in Properties
      <3>1. /\ \A v, marks : Ark!Data(v, marks) = Data(v, marks)
            /\ \A get, set, marks : Ark!Accessor(get, set, marks) = Accessor(get, set, marks)
        BY DEF Ark!Data, Data, Ark!Accessor, Accessor
      <3>2. CASE {"getter", "setter"} \cap d.given # {}
        BY <1>1, <1>3, <3>1, <3>2 DEF Ark!Defined
      <3>3. CASE {"getter", "setter"} \cap d.given = {}
        BY <1>1, <1>2, <3>1, <3>3 DEF Ark!Defined
      <3> QED  BY <3>2, <3>3
    <2> HIDE DEF made
    <2>3. outcome = Define(o, made)
      BY <2>1, SameMeaning
    <2> QED  BY <2>2, <2>3, DefineKeeps
  <1>6. CASE engine = "V8"
    <2> DEFINE made == V8!Defined(d)
    <2>1. outcome = V8!Define(o, made)
      BY <1>1, <1>6 DEF DefineProperty, V8!DefineProperty, Jerry
    <2>2. made \in Properties
      <3>1. /\ \A v, marks : V8!Data(v, marks) = Data(v, marks)
            /\ \A get, set, marks : V8!Accessor(get, set, marks) = Accessor(get, set, marks)
        BY DEF V8!Data, Data, V8!Accessor, Accessor
      <3>2. CASE {"getter", "setter"} \cap d.given # {}
        BY <1>1, <1>3, <3>1, <3>2 DEF V8!Defined
      <3>3. CASE {"getter", "setter"} \cap d.given = {}
        BY <1>1, <1>2, <3>1, <3>3 DEF V8!Defined
      <3> QED  BY <3>2, <3>3
    <2> HIDE DEF made
    <2>3. outcome = Define(o, made)
      BY <2>1, SameMeaning
    <2> QED  BY <2>2, <2>3, DefineKeeps
  <1>7. CASE engine = "QuickJS"
    <2> DEFINE made == QuickJS!Defined(d)
    <2>1. outcome = QuickJS!Define(o, made)
      BY <1>1, <1>7 DEF DefineProperty, QuickJS!DefineProperty, Jerry
    <2>2. made \in Properties
      <3>1. /\ \A v, marks : QuickJS!Data(v, marks) = Data(v, marks)
            /\ \A get, set, marks : QuickJS!Accessor(get, set, marks) = Accessor(get, set, marks)
            /\ QuickJS!Attributes = Attributes
        BY DEF QuickJS!Data, Data, QuickJS!Accessor, Accessor, QuickJS!Attributes, Attributes
      <3>2. CASE "value" \in d.given
        BY <1>1, <1>2, <1>4, <3>1, <3>2 DEF QuickJS!Defined
      <3>3. CASE "value" \notin d.given /\ "method" \in d.given
        <4>1. {"writable", "configurable"} \in SUBSET Marks
          BY DEF Marks, Attributes
        <4> QED  BY <1>2, <3>1, <3>3, <4>1 DEF QuickJS!Defined
      <3>4. CASE "value" \notin d.given /\ "method" \notin d.given
        BY <1>3, <1>4, <3>1, <3>4 DEF QuickJS!Defined
      <3> QED  BY <3>2, <3>3, <3>4
    <2> HIDE DEF made
    <2>3. outcome = Define(o, made)
      BY <2>1, SameMeaning
    <2> QED  BY <2>2, <2>3, DefineKeeps
  <1>8. CASE engine \in Jerry
    <2> DEFINE made == Jerry4!Defined(o, d)
    <2>1. outcome \in Jerry4!DefineProperty(o, d)
      BY <1>1, <1>8 DEF DefineProperty, Jerry
    <2>2. outcome.object = o \/ outcome.object = Jerry4!Define(o, made).object
      BY <2>1 DEF Jerry4!DefineProperty, Jerry4!Outcomes, Jerry4!Did
    <2>3. made \in Properties
      <3> DEFINE p == o.property
      <3>1. p \in Properties
        BY DEF Objects
      <3>2. /\ \A v, marks : Jerry4!Data(v, marks) = Data(v, marks)
            /\ \A get, set, marks : Jerry4!Accessor(get, set, marks) = Accessor(get, set, marks)
            /\ Jerry4!Absent = Absent
        BY DEF Jerry4!Data, Data, Jerry4!Accessor, Accessor, Jerry4!Absent, Absent
      <3>3. Jerry4!Kept(o, d) = d.attributes \cup IF p = Absent THEN {} ELSE p.attributes
        BY <3>2 DEF Jerry4!Kept
      <3>4. /\ Jerry4!OtherEnd(o, "get", "none") = IF p # Absent /\ p.is = "accessor" THEN p.get ELSE "none"
            /\ Jerry4!OtherEnd(o, "set", "none") = IF p # Absent /\ p.is = "accessor" THEN p.set ELSE "none"
        BY <3>2 DEF Jerry4!OtherEnd
      <3> HIDE DEF p
      <3>5. /\ p # Absent => p.attributes \in SUBSET Marks
            /\ p # Absent /\ p.is = "accessor" => /\ p.get \in {"getter", "none", "null callback"}
                                                  /\ p.set \in {"setter", "none", "null callback"}
        <4>1. p # Absent => p \in DataProperties \/ p \in Accessors
          BY <3>1 DEF Properties
        <4>2. p # Absent /\ p.is = "accessor" => p \in Accessors
          BY <3>1, PropertyIs
        <4> QED  BY <4>1, <4>2 DEF DataProperties, Accessors
      <3>6. Jerry4!Kept(o, d) \in SUBSET Marks
        BY <1>1, <3>3, <3>5
      <3>7. /\ Jerry4!OtherEnd(o, "get", "none") \in {"getter", "none", "null callback"}
            /\ Jerry4!OtherEnd(o, "set", "none") \in {"setter", "none", "null callback"}
        BY <3>4, <3>5
      <3>8. CASE {"getter", "setter"} \cap d.given # {}
        BY <1>3, <3>2, <3>6, <3>7, <3>8 DEF Jerry4!Defined
      <3>9. CASE {"getter", "setter"} \cap d.given = {}
        BY <1>1, <1>2, <3>2, <3>6, <3>9 DEF Jerry4!Defined
      <3> QED  BY <3>8, <3>9
    <2> HIDE DEF made
    <2>4. Jerry4!Define(o, made) = Define(o, made)
      BY SameMeaning
    <2> QED  BY <2>2, <2>3, <2>4, DefineKeeps
  <1> QED  BY <1>5, <1>6, <1>7, <1>8 DEF Engines

\* So do the other operations.
LEMMA OperationKeeps ==
    ASSUME engine \in Engines, NEW o \in Objects
    PROVE  /\ \A op \in PropertyOps : PropertyOp(engine, op, o, "b").object \in Objects
           /\ \A op \in ElementOps : ElementOp(engine, op, o, "b").object \in Objects
  <1>1. /\ Assign(o, "b").object \in Objects /\ Assign(o, "the array").object \in Objects
        /\ Read(o).object \in Objects /\ Holds(o).object \in Objects /\ Deleted(o).object \in Objects
    BY AssignKeeps, OthersKeep
  <1>2. ASSUME NEW op \in PropertyOps
        PROVE  PropertyOp(engine, op, o, "b").object \in Objects
    <2>1. CASE engine = "Ark"
      <3>1. PropertyOp(engine, op, o, "b") = Ark!PropertyOp(op, o, "b")
        BY <2>1 DEF PropertyOp, Jerry
      <3> QED  BY <1>1, <3>1, SameMeaning DEF Ark!PropertyOp, PropertyOps
    <2>2. CASE engine = "V8"
      <3>1. PropertyOp(engine, op, o, "b") = V8!PropertyOp(op, o, "b")
        BY <2>2 DEF PropertyOp, Jerry
      <3> QED  BY <1>1, <3>1, SameMeaning DEF V8!PropertyOp, PropertyOps
    <2>3. CASE engine = "QuickJS"
      <3>1. PropertyOp(engine, op, o, "b") = QuickJS!PropertyOp(op, o, "b")
        BY <2>3 DEF PropertyOp, Jerry
      <3>2. CASE op = "DeleteProperty"
        <4>1. PropertyOp(engine, op, o, "b") = Did(Deleted(o).object, TRUE)
          BY <3>1, <3>2, SameMeaning DEF QuickJS!PropertyOp, QuickJS!Did, Did
        <4>2. PropertyOp(engine, op, o, "b").object = Deleted(o).object
          BY <4>1, DidObject, Zenon
        <4> QED  BY <1>1, <4>2
      <3>3. CASE op # "DeleteProperty"
        BY <1>1, <3>1, <3>3, SameMeaning DEF QuickJS!PropertyOp, PropertyOps
      <3> QED  BY <3>2, <3>3
    <2>4. CASE engine \in Jerry
      <3>1. PropertyOp(engine, op, o, "b") = Jerry4!PropertyOp(op, o, "b")
        BY <2>4 DEF PropertyOp, Jerry
      <3>2. CASE op = "SetProperty"
        <4>1. PropertyOp(engine, op, o, "b") = Did(Assign(o, "b").object, TRUE)
          BY <3>1, <3>2, SameMeaning DEF Jerry4!PropertyOp, Jerry4!Did, Did
        <4>2. PropertyOp(engine, op, o, "b").object = Assign(o, "b").object
          BY <4>1, DidObject, Zenon
        <4> QED  BY <1>1, <4>2
      <3>3. CASE op # "SetProperty"
        BY <1>1, <3>1, <3>3, SameMeaning DEF Jerry4!PropertyOp, PropertyOps
      <3> QED  BY <3>2, <3>3
    <2> QED  BY <2>1, <2>2, <2>3, <2>4 DEF Engines
  <1>3. ASSUME NEW op \in ElementOps
        PROVE  ElementOp(engine, op, o, "b").object \in Objects
    <2>1. CASE engine = "Ark"
      <3>1. ElementOp(engine, op, o, "b") = Ark!ElementOp(op, o, "b")
        BY <2>1 DEF ElementOp, Jerry
      <3> QED  BY <1>1, <3>1, SameMeaning DEF Ark!ElementOp, ElementOps
    <2>2. CASE engine = "V8"
      <3>1. ElementOp(engine, op, o, "b") = V8!ElementOp(op, o, "b")
        BY <2>2 DEF ElementOp, Jerry
      <3> QED  BY <1>1, <3>1, SameMeaning DEF V8!ElementOp, ElementOps
    <2>3. CASE engine = "QuickJS"
      <3>1. ElementOp(engine, op, o, "b") = QuickJS!ElementOp(op, o, "b")
        BY <2>3 DEF ElementOp, Jerry
      <3>2. [QuickJS!Fresh EXCEPT !.same = FALSE] \in Objects
        BY DEF QuickJS!Fresh, QuickJS!Absent, Objects, Properties, Absent
      <3>3. CASE op = "DeleteElement"
        <4> DEFINE new == [QuickJS!Fresh EXCEPT !.same = FALSE]
        <4>1. ElementOp(engine, op, o, "b") = QuickJS!Did(new, TRUE)
          BY <3>1, <3>3 DEF QuickJS!ElementOp
        <4> HIDE DEF new
        <4>2. ElementOp(engine, op, o, "b") = Did(new, TRUE)
          BY <4>1 DEF QuickJS!Did, Did
        <4>3. new \in Objects
          BY <3>2 DEF new
        <4> QED  BY <4>2, <4>3, DidObject, Zenon
      <3>4. CASE op # "DeleteElement"
        BY <1>1, <3>1, <3>4, SameMeaning DEF QuickJS!ElementOp, ElementOps
      <3> QED  BY <3>3, <3>4
    <2>4. CASE engine \in Jerry
      <3>1. ElementOp(engine, op, o, "b") = Jerry4!ElementOp(op, o, "b")
        BY <2>4 DEF ElementOp, Jerry
      <3>2. CASE op = "SetElement"
        <4>1. ElementOp(engine, op, o, "b") = Did(Jerry4!Assign(o, "the array").object, TRUE)
          BY <3>1, <3>2 DEF Jerry4!ElementOp, Jerry4!Did, Did
        <4>2. Jerry4!Assign(o, "the array") = Assign(o, "the array")
          BY SameMeaning
        <4>3. ElementOp(engine, op, o, "b").object = Jerry4!Assign(o, "the array").object
          BY <4>1, DidObject, Zenon
        <4> QED  BY <1>1, <4>2, <4>3
      <3>3. CASE op = "HasElement"
        <4>1. ElementOp(engine, op, o, "b") = Did(o, Jerry4!ReadOf(o) # "undefined")
          BY <3>1, <3>3 DEF Jerry4!ElementOp, Jerry4!Did, Did
        <4> QED  BY <4>1, DidObject, Zenon
      <3>4. CASE op \notin {"SetElement", "HasElement"}
        BY <1>1, <3>1, <3>4, SameMeaning DEF Jerry4!ElementOp, ElementOps
      <3> QED  BY <3>2, <3>3, <3>4
    <2> QED  BY <2>1, <2>2, <2>3, <2>4 DEF Engines
  <1> QED  BY <1>2, <1>3

\* And tags and locks, where there are any.
LEMMA TagsAndLocksKeep ==
    ASSUME engine \in Engines, engine # "V8", NEW o \in Objects
    PROVE  /\ \A op \in {"AssociateTypeTag", "CheckTypeTag"}, tag \in Tags :
                  TagOp(engine, op, o, tag).object \in Objects
           /\ \A op \in {"Freeze", "Seal"} : LockOp(engine, op, o).object \in Objects
  <1>1. /\ \A tag \in Tags : Tagged(o, tag).object \in Objects /\ HasTag(o, tag).object \in Objects
        /\ Frozen(o).object \in Objects /\ Sealed(o).object \in Objects
    BY OthersKeep
  <1>2. ASSUME NEW op \in {"AssociateTypeTag", "CheckTypeTag"}, NEW tag \in Tags
        PROVE  TagOp(engine, op, o, tag).object \in Objects
    <2>1. CASE engine = "Ark"
      <3>1. TagOp(engine, op, o, tag) = Ark!Did(o, TRUE)
        BY <2>1 DEF TagOp, Ark!TagOp
      <3> QED  BY <3>1 DEF Ark!Did
    <2>2. CASE engine = "QuickJS"
      <3>1. TagOp(engine, op, o, tag) = QuickJS!TagOp(op, o, tag)
        BY <2>2 DEF TagOp
      <3>2. QuickJS!Did(o, FALSE).object \in Objects /\ QuickJS!Did(o, TRUE).object \in Objects
        BY DEF QuickJS!Did
      <3>3. CASE op = "AssociateTypeTag"
        BY <1>1, <3>1, <3>2, <3>3, SameMeaning DEF QuickJS!TagOp
      <3>4. CASE op = "CheckTypeTag"
        BY <1>1, <3>1, <3>2, <3>4, QuickJSLooksForTags, SameMeaning
      <3> QED  BY <3>3, <3>4
    <2>3. CASE engine = "Jerry3"
      <3>1. TagOp(engine, op, o, tag) = Jerry3!Did(o, TRUE)
        BY <2>3 DEF TagOp, Jerry3!TagOp, Jerry3!HasBigInts
      <3> QED  BY <3>1 DEF Jerry3!Did
    <2>4. CASE engine = "Jerry4"
      <3>1. TagOp(engine, op, o, tag) = Jerry4!TagOp(op, o, tag) /\ Jerry4!HasBigInts
        BY <2>4 DEF TagOp, Jerry4!HasBigInts
      <3>2. Jerry4!Did(o, TRUE).object \in Objects
        BY DEF Jerry4!Did
      <3>3. CASE op = "AssociateTypeTag"
        BY <1>1, <3>1, <3>2, <3>3, SameMeaning DEF Jerry4!TagOp
      <3>4. CASE op = "CheckTypeTag"
        BY <1>1, <3>1, <3>4, SameMeaning DEF Jerry4!TagOp
      <3> QED  BY <3>3, <3>4
    <2> QED  BY <2>1, <2>2, <2>3, <2>4 DEF Engines, Jerry
  <1>3. ASSUME NEW op \in {"Freeze", "Seal"}
        PROVE  LockOp(engine, op, o).object \in Objects
    <2>1. CASE engine = "Ark"
      <3>1. LockOp(engine, op, o) = Ark!Did(o, TRUE)
        BY <2>1 DEF LockOp, Ark!LockOp, Jerry
      <3> QED  BY <3>1 DEF Ark!Did
    <2>2. CASE engine = "QuickJS"
      <3>1. LockOp(engine, op, o) = QuickJS!LockOp(op, o)
        BY <2>2 DEF LockOp, Jerry
      <3> QED  BY <1>1, <3>1, SameMeaning DEF QuickJS!LockOp
    <2>3. CASE engine \in Jerry
      <3>1. LockOp(engine, op, o) = Jerry4!LockOp(op, o)
        BY <2>3 DEF LockOp, Jerry
      <3> QED  BY <1>1, <3>1, SameMeaning DEF Jerry4!LockOp
    <2> QED  BY <2>1, <2>2, <2>3 DEF Engines
  <1> QED  BY <1>2, <1>3
-----------------------------------------------------------------------------
(* The invariant about the value at hand *)

\* What is held as an object is one, and its handle stands for an object or an array.
HeldIsObject ==
    Holding("object") => content.value \in Objects /\ handle.kind \in {"object", "array"}

\* In V8 a handle is of the class of its kind: the class decides which methods are missing.
ClassOfKind ==
    engine = "V8" => handle = NoHandle \/ (handle.kind \in V8!Values /\ handle.class = V8!ClassFor(handle.kind))

ValueInv == engine \in Engines /\ HeldIsObject /\ ClassOfKind

\* What a plain value holds.
LEMMA PlainHolds ==
    ASSUME NEW kind
    PROVE  \/ Plain(kind) = Content("object", Fresh) /\ kind \in {"object", "array"}
           \/ Plain(kind) = Nothing
  BY DEF Plain

\* The functions of V8 that make values wrap them in the class of their kind, or make none.
LEMMA V8CreatesOfKind ==
    ASSUME NEW does \in DOMAIN Creates["V8"]
    PROVE  \/ Creates["V8"][does] = NoHandle
           \/ /\ Creates["V8"][does].kind \in V8!Values
              /\ Creates["V8"][does].class = V8!ClassFor(Creates["V8"][does].kind)
  <1> DEFINE Right(h) == h = NoHandle \/ (h.kind \in V8!Values /\ h.class = V8!ClassFor(h.kind))
  <1>1. \A k \in V8!Values : Right(V8!Wrap(k))
    <2>1. V8!NoHandle = NoHandle
      BY DEF V8!NoHandle, NoHandle
    <2> QED  BY <2>1 DEF V8!Wrap, V8!Makes
  <1>2. Creates["V8"] = V8!Creates
    BY DEF Creates, PerEngine
  <1>3. \A k \in {"null", "undefined", "boolean", "number", "string", "symbol", "external", "object", "function",
                  "array", "arraybuffer", "typedarray", "dataview", "promise", "error"} : k \in V8!Values
    BY DEF V8!Values, V8!Kinds
  <1>4. \A x \in DOMAIN V8!Simple : Right(V8!Simple[x])
    <2>1. \A x \in DOMAIN V8!Simple \ {"GetGlobal"} :
              V8!Simple[x].kind \in V8!Values /\ V8!Simple[x].class = V8!ClassFor(V8!Simple[x].kind)
      BY <1>3 DEF V8!Simple, V8!Makes, V8!ClassFor
    <2>2. V8!Simple["GetGlobal"] = V8!Wrap("object")
      BY DEF V8!Simple
    <2> QED  BY <1>1, <1>3, <2>1, <2>2
  <1>5. \A x \in DOMAIN V8!Composed : Right(V8!Composed[x])
    <2>1. \A x \in DOMAIN V8!Composed \ {"CreateError"} :
              V8!Composed[x].kind \in V8!Values /\ V8!Composed[x].class = V8!ClassFor(V8!Composed[x].kind)
      BY <1>3 DEF V8!Composed, V8!Makes, V8!ClassFor
    <2>2. V8!Composed["CreateError"] = V8!Wrap("error")
      BY DEF V8!Composed
    <2> QED  BY <1>1, <1>3, <2>1, <2>2
  <1> HIDE DEF Right
  <1>6. Right(V8!Creates[does])
    BY <1>2, <1>4, <1>5 DEF V8!Creates, V8!Over
  <1> QED  BY <1>2, <1>6 DEF Right

\* So does its wrapping of what a script hands over.
LEMMA V8WrapsOfKind ==
    ASSUME NEW kind \in V8!Values
    PROVE  \/ Wrap["V8"][kind] = NoHandle
           \/ Wrap["V8"][kind].kind \in V8!Values /\ Wrap["V8"][kind].class = V8!ClassFor(Wrap["V8"][kind].kind)
  <1>1. Wrap["V8"][kind] = V8!Wrap(kind)
    BY DEF Wrap, PerEngine
  <1>2. V8!NoHandle = NoHandle
    BY DEF V8!NoHandle, NoHandle
  <1> QED  BY <1>1, <1>2 DEF V8!Wrap, V8!Makes

\* The tables of V8: it makes numbers and strings, and no big integers.
LEMMA V8Makes ==
    /\ "CreateNumber" \in DOMAIN Creates["V8"] /\ "CreateString" \in DOMAIN Creates["V8"]
    /\ "CreateBigWords" \notin DOMAIN Creates["V8"]
    /\ "number" \in V8!Values /\ Values["V8"] = V8!Values
    /\ \A op \in Conversions : Converted["V8"][op] = "converted"
  <1>1. Creates["V8"] = V8!Creates /\ Values["V8"] = V8!Values /\ Converted["V8"] = V8!Converted
    BY DEF Creates, Values, Converted, PerEngine
  <1>2. DOMAIN V8!Creates = DOMAIN V8!Simple \cup DOMAIN V8!Composed
    BY DEF V8!Creates, V8!Over
  <1>3. /\ "CreateNumber" \in DOMAIN V8!Creates /\ "CreateString" \in DOMAIN V8!Creates
        /\ "CreateBigWords" \notin DOMAIN V8!Creates
    BY <1>2 DEF V8!Simple, V8!Composed
  <1>4. "number" \in V8!Values
    BY DEF V8!Values, V8!Kinds
  <1>5. \A op \in Conversions : V8!Converted[op] = "converted"
    BY DEF V8!Converted, Conversions
  <1> QED  BY <1>1, <1>3, <1>4, <1>5

\* A new value is right when its handle is, and its content is none or that of a plain value.
LEMMA NewValue ==
    ASSUME engine \in Engines, engine' = engine,
           content' = Plain(handle'.kind) \/ content'.of # "object",
           engine = "V8" => \/ handle' = NoHandle
                            \/ handle'.kind \in V8!Values /\ handle'.class = V8!ClassFor(handle'.kind)
    PROVE  ValueInv'
  <1>1. HeldIsObject'
    <2>1. SUFFICES ASSUME content'.of = "object"
                   PROVE  content'.value \in Objects /\ handle'.kind \in {"object", "array"}
      BY DEF HeldIsObject, Holding
    <2>2. content' = Content("object", Fresh) /\ handle'.kind \in {"object", "array"}
      <3>1. Nothing.of # "object"
        BY DEF Nothing
      <3>2. content' = Plain(handle'.kind)
        BY <2>1
      <3> QED  BY <2>1, <3>1, <3>2, PlainHolds
    <2>3. Fresh \in Objects
      BY DEF Fresh, Objects, Properties
    <2> QED  BY <2>2, <2>3 DEF Content
  <1>2. ClassOfKind'
    BY DEF ClassOfKind
  <1> QED  BY <1>1, <1>2 DEF ValueInv

\* A value that stays with its handle is what it was.
LEMMA ValueUnmoved ==
    ASSUME ValueInv, UNCHANGED <<engine, handle, content>>
    PROVE  ValueInv'
  BY DEF ValueInv, HeldIsObject, ClassOfKind, Holding

\* An object that is changed is one.
LEMMA ObjectChanged ==
    ASSUME ValueInv, Holding("object"), UNCHANGED <<engine, handle>>, NEW o \in Objects,
           content' = Content("object", o)
    PROVE  ValueInv'
  BY DEF ValueInv, HeldIsObject, ClassOfKind, Holding, Content

\* Making a value, by any of the functions that do.
LEMMA MakingStep ==
    ASSUME ValueInv,
           \/ \E f \in DOMAIN API : Create(f)
           \/ \E kind \in Kinds : Receive(kind)
           \/ \E from \in DOMAIN Ranges : \E n \in Ranges[from] : CreateNumber(n, from)
           \/ \E v \in Numbers : ReceiveNumber(v)
           \/ \E n \in Bigs : ReceiveBig(n)
           \/ \E words \in WordLists : CreateBigWords(words)
           \/ \E text \in Texts : CreateString(text)
           \/ \E units \in UnitLists : CreateString16(units)
    PROVE  ValueInv'
  <1>0. engine \in Engines
    BY DEF ValueInv
  <1>1. ASSUME NEW f \in DOMAIN API, Create(f)
        PROVE  ValueInv'
    <2>1. /\ API[f].does \in DOMAIN Creates[engine] /\ engine' = engine
          /\ handle' = Creates[engine][API[f].does] /\ content' = Plain(handle'.kind)
      BY <1>1 DEF Create, Making, Calling
    <2> DEFINE does == API[f].does
    <2>2. does \in DOMAIN Creates[engine] /\ handle' = Creates[engine][does]
      BY <2>1
    <2> HIDE DEF does
    <2> QED  BY <1>0, <2>1, <2>2, NewValue, V8CreatesOfKind
  <1>2. ASSUME NEW kind \in Kinds, Receive(kind)
        PROVE  ValueInv'
    <2>1. /\ kind \in Values[engine] /\ engine' = engine
          /\ handle' = Wrap[engine][kind] /\ content' = Plain(handle'.kind)
      BY <1>2 DEF Receive, Making, Calling
    <2> QED  BY <1>0, <2>1, NewValue, V8WrapsOfKind, V8Makes
  <1>3. ASSUME NEW from \in DOMAIN Ranges, NEW n \in Ranges[from], CreateNumber(n, from)
        PROVE  ValueInv'
    <2>1. engine' = engine /\ handle' = Creates[engine]["CreateNumber"]
          /\ content' = Content("number", Whole(MakeNumber(engine, n, from)))
      BY <1>3 DEF CreateNumber, Making, Calling
    <2>2. content'.of # "object"
      BY <2>1 DEF Content
    <2> QED  BY <1>0, <2>1, <2>2, NewValue, V8CreatesOfKind, V8Makes
  <1>4. ASSUME NEW v \in Numbers, ReceiveNumber(v)
        PROVE  ValueInv'
    <2>1. engine' = engine /\ handle' = Wrap[engine]["number"] /\ content' = Content("number", v)
      BY <1>4 DEF ReceiveNumber, Making, Calling
    <2>2. content'.of # "object"
      BY <2>1 DEF Content
    <2> QED  BY <1>0, <2>1, <2>2, NewValue, V8WrapsOfKind, V8Makes
  <1>5. ASSUME NEW n \in Bigs, ReceiveBig(n)
        PROVE  ValueInv'
    <2>1. engine' = engine /\ engine # "V8" /\ content' = Content("big", n)
      BY <1>5, V8Makes DEF ReceiveBig, Making, Calling, HasBig
    <2>2. content'.of # "object"
      BY <2>1 DEF Content
    <2> QED  BY <1>0, <2>1, <2>2, NewValue
  <1>6. ASSUME NEW words \in WordLists, CreateBigWords(words)
        PROVE  ValueInv'
    <2>1. engine' = engine /\ engine # "V8" /\ content' = Content("big", InBase(words, WordBase(engine)))
      BY <1>6, V8Makes DEF CreateBigWords, Making, Calling, HasBig
    <2>2. content'.of # "object"
      BY <2>1 DEF Content
    <2> QED  BY <1>0, <2>1, <2>2, NewValue
  <1>7. ASSUME NEW text \in Texts, CreateString(text)
        PROVE  ValueInv'
    <2>1. engine' = engine /\ handle' = Creates[engine]["CreateString"] /\ content' = Content("text", text)
      BY <1>7 DEF CreateString, Making, Calling
    <2>2. content'.of # "object"
      BY <2>1 DEF Content
    <2> QED  BY <1>0, <2>1, <2>2, NewValue, V8CreatesOfKind, V8Makes
  <1>8. ASSUME NEW units \in UnitLists, CreateString16(units)
        PROVE  ValueInv'
    <2> DEFINE made == MakeText16(engine, units)
    <2>1. engine' = engine /\ engine # "V8"
          /\ content' = IF made.made THEN Content("text", made.text) ELSE Nothing
      BY <1>8 DEF CreateString16, Making, Calling
    <2> HIDE DEF made
    <2>2. content'.of # "object"
      BY <2>1 DEF Content, Nothing
    <2> QED  BY <1>0, <2>1, <2>2, NewValue
  <1> QED  BY <1>1, <1>2, <1>3, <1>4, <1>5, <1>6, <1>7, <1>8

\* A conversion makes a plain value, in V8 of the class of its kind.
LEMMA ConvertStep ==
    ASSUME ValueInv, NEW op \in Conversions, Convert(op)
    PROVE  ValueInv'
  <1>1. /\ engine \in Engines /\ engine' = engine /\ handle # NoHandle /\ content' = Plain(handle'.kind)
        /\ handle' = CASE Converted[engine][op] = "null" -> NoHandle
                       [] Converted[engine][op] = "converted" -> Wrap[engine][KindAfter(op)]
                       [] OTHER -> Makes(KindAfter(op), ClassAfter[op])
    BY DEF ValueInv, Convert, Calling
  <1>2. ASSUME engine = "V8"
        PROVE  \/ handle' = NoHandle
               \/ handle'.kind \in V8!Values /\ handle'.class = V8!ClassFor(handle'.kind)
    <2>1. handle' = Wrap["V8"][KindAfter(op)]
      BY <1>1, <1>2, V8Makes
    <2>2. KindAfter(op) \in V8!Values
      <3>1. handle.kind \in V8!Values
        BY <1>1, <1>2 DEF ValueInv, ClassOfKind
      <3>2. "boolean" \in V8!Values /\ "number" \in V8!Values /\ "string" \in V8!Values /\ "object" \in V8!Values
        BY DEF V8!Values, V8!Kinds
      <3> QED  BY <3>1, <3>2 DEF KindAfter, Conversions
    <2> DEFINE kind == KindAfter(op)
    <2>3. handle' = Wrap["V8"][kind] /\ kind \in V8!Values
      BY <2>1, <2>2
    <2> HIDE DEF kind
    <2> QED  BY <2>3, V8WrapsOfKind
  <1> QED  BY <1>1, <1>2, NewValue

\* The objects and arrays of V8 have neither type tags nor locks.
LEMMA V8HasNoLocks ==
    ASSUME ValueInv, engine = "V8", Holding("object"),
           NEW op \in {"AssociateTypeTag", "CheckTypeTag", "Freeze", "Seal"}
    PROVE  Answer(op) = "missing"
  <1>1. handle.class \in {"Object", "Array"}
    <2>1. handle.kind \in {"object", "array"} /\ handle # NoHandle
      BY DEF ValueInv, HeldIsObject, NoHandle
    <2>2. handle.class = V8!ClassFor(handle.kind)
      BY <2>1 DEF ValueInv, ClassOfKind
    <2> QED  BY <2>1, <2>2 DEF V8!ClassFor
  <1> DEFINE base == V8!ObjectClass.answer
  <1>2. base[op] = "missing" /\ op \in DOMAIN base
    <2> DEFINE lacks == [x \in {"AddFinalizer", "GetAllPropertyNames", "AssociateTypeTag",
                                "CheckTypeTag", "Freeze", "Seal"} |-> "missing"]
               has == [x \in UNION {V8!Interfaces[i] : i \in {"Object"}} |-> "done"]
    <2>1. base = V8!Over(lacks, has)
      BY DEF V8!ObjectClass, V8!Class
    <2>2. op \in DOMAIN lacks /\ lacks[op] = "missing"
      OBVIOUS
    <2> HIDE DEF base, lacks, has
    <2> QED  BY <2>1, <2>2 DEF V8!Over
  <1>3. V8!ArrayClass.answer[op] = "missing"
    <2> DEFINE none == V8!AllDone
               has == [x \in UNION {V8!Interfaces[i] : i \in {"Array"}} |-> "done"]
    <2>1. V8!ArrayClass.answer = V8!Over(none, V8!Over(has, base))
      BY DEF V8!ArrayClass, V8!Derived
    <2>2. op \notin DOMAIN none /\ op \notin DOMAIN has
      <3>1. DOMAIN none = {}
        BY DEF V8!AllDone
      <3>2. DOMAIN has = V8!Interfaces["Array"]
        OBVIOUS
      <3>3. V8!Interfaces["Array"] = {"SetElement", "GetElement", "HasElement", "DeleteElement", "GetLength"}
        BY DEF V8!Interfaces
      <3> HIDE DEF none, has
      <3> QED  BY <3>1, <3>2, <3>3
    <2> HIDE DEF base, none, has
    <2>3. op \in DOMAIN V8!Over(has, base) /\ V8!Over(has, base)[op] = "missing"
      BY <1>2, <2>2 DEF V8!Over
    <2> QED  BY <2>1, <2>2, <2>3 DEF V8!Over
  <1>4. Classes["V8"]["Object"] = V8!ObjectClass /\ Classes["V8"]["Array"] = V8!ArrayClass
    BY DEF Classes, PerEngine, V8!Classes
  <1>5. CASE handle.class = "Object"
    BY <1>2, <1>4, <1>5 DEF Answer
  <1>6. CASE handle.class = "Array"
    BY <1>3, <1>4, <1>6 DEF Answer
  <1> QED  BY <1>1, <1>5, <1>6

\* An operation on the object at hand: what it is, and what comes of it.
ObjectStep(op, arg, outcome) ==
    /\ Holding("object") /\ UNCHANGED <<engine, handle>>
    /\ content' = Content("object", outcome.object)
    /\ did' = [does |-> op, arg |-> arg, answer |-> outcome.answer]

\* The operations on objects that the calls of a native function are.
ObjectCalls ==
    \/ \E given \in Given, attributes \in AttributeSets :
          \E outcome \in DefineProperty(engine, Object, Descriptor(given, attributes)) :
              ObjectStep("define", Descriptor(given, attributes), outcome)
    \/ \E op \in PropertyOps : ObjectStep(op, "b", PropertyOp(engine, op, Object, "b"))
    \/ \E op \in ElementOps : ObjectStep(op, "b", ElementOp(engine, op, Object, "b"))
    \/ \E op \in {"AssociateTypeTag", "CheckTypeTag"}, tag \in Tags :
          engine # "V8" /\ ObjectStep(op, tag, TagOp(engine, op, Object, tag))
    \/ \E op \in {"Freeze", "Seal"} : engine # "V8" /\ ObjectStep(op, "none", LockOp(engine, op, Object))
    \/ ObjectStep("script", "none", Frozen(Object))

\* A call that has an answer is one of them.
LEMMA CallsOnObjects ==
    ASSUME ValueInv,
           \/ \E given \in Given, attributes \in AttributeSets : DefineProperties(given, attributes)
           \/ \E op \in PropertyOps : Property(op)
           \/ \E op \in ElementOps : Element(op)
           \/ \E op \in {"AssociateTypeTag", "CheckTypeTag"}, tag \in Tags : TypeTag(op, tag)
           \/ \E op \in {"Freeze", "Seal"} : Lock(op)
           \/ ScriptLocks
    PROVE  ObjectCalls
  <1>1. ASSUME OnObject
        PROVE  Holding("object") /\ UNCHANGED <<engine, handle>>
    BY <1>1 DEF OnObject, Calling
  <1>2. ASSUME NEW given \in Given, NEW attributes \in AttributeSets, DefineProperties(given, attributes)
        PROVE  ObjectCalls
    BY <1>1, <1>2 DEF DefineProperties, Outcome, ObjectStep, ObjectCalls
  <1>3. ASSUME NEW op \in PropertyOps, Property(op)
        PROVE  ObjectCalls
    BY <1>1, <1>3 DEF Property, Outcome, ObjectStep, ObjectCalls
  <1>4. ASSUME NEW op \in ElementOps, Element(op)
        PROVE  ObjectCalls
    BY <1>1, <1>4 DEF Element, Outcome, ObjectStep, ObjectCalls
  <1>5. ASSUME NEW op \in {"AssociateTypeTag", "CheckTypeTag"}, NEW tag \in Tags, TypeTag(op, tag)
        PROVE  ObjectCalls
    <2>1. engine # "V8" /\ ObjectStep(op, tag, TagOp(engine, op, Object, tag))
      BY <1>1, <1>5, V8HasNoLocks DEF TypeTag, Outcome, ObjectStep
    <2> QED  BY <2>1 DEF ObjectCalls
  <1>6. ASSUME NEW op \in {"Freeze", "Seal"}, Lock(op)
        PROVE  ObjectCalls
    <2>1. engine # "V8" /\ ObjectStep(op, "none", LockOp(engine, op, Object))
      BY <1>1, <1>6, V8HasNoLocks DEF Lock, Outcome, ObjectStep
    <2> QED  BY <2>1 DEF ObjectCalls
  <1>7. ASSUME ScriptLocks
        PROVE  ObjectCalls
    BY <1>1, <1>7 DEF ScriptLocks, Outcome, ObjectStep, ObjectCalls
  <1> QED  BY <1>2, <1>3, <1>4, <1>5, <1>6, <1>7

\* What an operation leaves is an object.
LEMMA ObjectCallsStep ==
    ASSUME ValueInv, ObjectCalls
    PROVE  ValueInv'
  <1>1. engine \in Engines /\ (Holding("object") => Object \in Objects)
    BY DEF ValueInv, HeldIsObject, Object
  <1>2. ASSUME NEW op, NEW arg, NEW outcome, ObjectStep(op, arg, outcome), outcome.object \in Objects
        PROVE  ValueInv'
    <2> DEFINE o == outcome.object
    <2>1. o \in Objects /\ content' = Content("object", o) /\ Holding("object") /\ UNCHANGED <<engine, handle>>
      BY <1>2 DEF ObjectStep
    <2> HIDE DEF o
    <2> QED  BY <2>1, ObjectChanged
  <1>3. ASSUME NEW op, NEW arg, NEW outcome, ObjectStep(op, arg, outcome)
        PROVE  Object \in Objects
    BY <1>1, <1>3 DEF ObjectStep
  <1> DEFINE o == Object
  <1>4. ASSUME NEW given \in Given, NEW attributes \in AttributeSets,
               NEW outcome \in DefineProperty(engine, o, Descriptor(given, attributes)),
               ObjectStep("define", Descriptor(given, attributes), outcome)
        PROVE  ValueInv'
    BY <1>1, <1>2, <1>3, <1>4, DefinitionKeeps
  <1>5. ASSUME NEW op \in PropertyOps, ObjectStep(op, "b", PropertyOp(engine, op, o, "b"))
        PROVE  ValueInv'
    BY <1>1, <1>2, <1>3, <1>5, OperationKeeps
  <1>6. ASSUME NEW op \in ElementOps, ObjectStep(op, "b", ElementOp(engine, op, o, "b"))
        PROVE  ValueInv'
    BY <1>1, <1>2, <1>3, <1>6, OperationKeeps
  <1>7. ASSUME NEW op \in {"AssociateTypeTag", "CheckTypeTag"}, NEW tag \in Tags, engine # "V8",
               ObjectStep(op, tag, TagOp(engine, op, o, tag))
        PROVE  ValueInv'
    BY <1>1, <1>2, <1>3, <1>7, TagsAndLocksKeep
  <1>8. ASSUME NEW op \in {"Freeze", "Seal"}, engine # "V8", ObjectStep(op, "none", LockOp(engine, op, o))
        PROVE  ValueInv'
    BY <1>1, <1>2, <1>3, <1>8, TagsAndLocksKeep
  <1>9. ASSUME ObjectStep("script", "none", Frozen(o))
        PROVE  ValueInv'
    BY <1>1, <1>2, <1>3, <1>9, OthersKeep
  <1> QED  BY <1>4, <1>5, <1>6, <1>7, <1>8, <1>9 DEF ObjectCalls

\* Whatever a native function does: what it holds as an object is one.
LEMMA ValueStep ==
    ASSUME ValueInv, [Next]_vars
    PROVE  ValueInv'
  <1>0. engine \in Engines
    BY DEF ValueInv
  <1>1. ASSUME NextActivation, handle' = NoHandle, content' = Nothing
        PROVE  ValueInv'
    <2>1. engine' = engine
      BY <1>1 DEF NextActivation, Enter, ScriptThrows, ScriptCatches, CreateError, Throw, ThrowError,
                  GetAndClearLastException, CallFunction, FunctionReturns, Return
    <2>2. content'.of # "object"
      BY <1>1 DEF Nothing
    <2> QED  BY <1>0, <1>1, <2>1, <2>2, NewValue
  <1>2. ASSUME Noted, UNCHANGED <<handle, content>>
        PROVE  ValueInv'
    BY <1>2, ValueUnmoved DEF Noted
  <1>3. ASSUME \/ \E f \in DOMAIN API : \E i \in 1 .. 3 : Ask(f, i)
               \/ AskNewTarget
        PROVE  ValueInv'
    BY <1>3, ValueUnmoved DEF Ask, AskNewTarget, Calling
  <1>4. ASSUME \/ \E as \in DOMAIN Ranges : GetValueNumber(as)
               \/ \E as \in {"int64", "uint64"} : GetValueBig(as)
               \/ \E size \in Sizes : GetValueString(size) \/ GetValueString16(size)
        PROVE  ValueInv'
    BY <1>4, ValueUnmoved DEF GetValueNumber, GetValueBig, GetValueString, GetValueString16, Calling
  <1>5. ASSUME Drop
        PROVE  ValueInv'
    <2>1. engine' = engine /\ handle' = NoHandle /\ content'.of # "object"
      BY <1>5 DEF Drop, Calling, Nothing
    <2> QED  BY <1>0, <2>1, NewValue
  <1>6. CASE NextCall
    BY <1>3, <1>4, <1>5, <1>6, MakingStep, ConvertStep, CallsOnObjects, ObjectCallsStep DEF NextCall
  <1>7. CASE UNCHANGED vars
    BY <1>7, ValueUnmoved DEF vars, activationVars
  <1> QED  BY <1>1, <1>2, <1>6, <1>7 DEF Next

\* The invariant about the value at hand holds in every reachable state.
THEOREM ValuesHeld == Spec => []ValueInv
  <1>1. Init => ValueInv
    BY DEF Init, InitActivations, ValueInv, HeldIsObject, ClassOfKind, Holding, Nothing
  <1> QED  BY <1>1, ValueStep, PTL DEF Spec

\* A step that answers for an object is one of the operations on objects.
LEMMA AnsweredCalls ==
    ASSUME ValueInv, Next, Holding("object"), "answer" \in DOMAIN did'
    PROVE  ObjectCalls
  <1>1. handle # NoHandle
    BY DEF ValueInv, HeldIsObject, NoHandle
  <1>2. ~NextActivation /\ ~Noted
    <2>1. \A does : "answer" \notin DOMAIN Call(does)
      BY DEF Call
    <2>2. ASSUME NextActivation
          PROVE  \/ \E does : did' = Call(does)
                 \/ \E null, got : did' = [does |-> "return", null |-> null, got |-> got]
      BY <2>2 DEF NextActivation, Enter, ScriptThrows, ScriptCatches, CreateError, Throw, ThrowError,
                  GetAndClearLastException, CallFunction, FunctionReturns, Return
    <2>3. \A null, got : "answer" \notin DOMAIN [does |-> "return", null |-> null, got |-> got]
      OBVIOUS
    <2> QED  BY <2>1, <2>2, <2>3 DEF Noted
  <1>3. ~Making
    BY <1>1 DEF Making
  <1>4. \A op, status : ~Done(op, status)
    BY DEF Done
  <1>5. \A f, i, h : ~Asked(f, i, h)
    BY DEF Asked
  <1>6. ~(\E f \in DOMAIN API : \E i \in 1 .. 3 : Ask(f, i)) /\ ~AskNewTarget
    BY <1>5 DEF Ask, AskNewTarget
  <1>7. /\ ~(\E f \in DOMAIN API : Create(f)) /\ ~(\E kind \in Kinds : Receive(kind))
        /\ ~(\E from \in DOMAIN Ranges : \E n \in Ranges[from] : CreateNumber(n, from))
        /\ ~(\E v \in Numbers : ReceiveNumber(v)) /\ ~(\E n \in Bigs : ReceiveBig(n))
        /\ ~(\E words \in WordLists : CreateBigWords(words))
        /\ ~(\E text \in Texts : CreateString(text)) /\ ~(\E units \in UnitLists : CreateString16(units))
    BY <1>3 DEF Create, Receive, CreateNumber, ReceiveNumber, ReceiveBig, CreateBigWords, CreateString,
                CreateString16
  <1>8. ~(\E op \in Conversions : Convert(op)) /\ ~Drop
    BY <1>4 DEF Convert, Drop
  <1>9. /\ ~(\E as \in DOMAIN Ranges : GetValueNumber(as)) /\ ~(\E as \in {"int64", "uint64"} : GetValueBig(as))
        /\ ~(\E size \in Sizes : GetValueString(size) \/ GetValueString16(size))
    BY DEF GetValueNumber, GetValueBig, GetValueString, GetValueString16, Holding
  <1>10. NextCall
    BY <1>2 DEF Next
  <1> QED  BY <1>6, <1>7, <1>8, <1>9, <1>10, CallsOnObjects DEF NextCall

\* An operation on an object does to it, and answers, what ECMAScript does, or is one of those that
\* are known to do otherwise.
LEMMA ObjectCallsAgree ==
    ASSUME ValueInv, ObjectCalls, did'.does # "script"
    PROVE  \/ /\ content'.value = Ordinary(did'.does, Object, did'.arg).object
              /\ \/ did'.does \in {"define", "SetProperty", "SetElement"}
                 \/ did'.answer = Ordinary(did'.does, Object, did'.arg).answer
           \/ Otherwise(did'.does, Object, did'.arg)
  <1> DEFINE o == Object
             Agrees == \/ /\ content'.value = Ordinary(did'.does, o, did'.arg).object
                          /\ \/ did'.does \in {"define", "SetProperty", "SetElement"}
                             \/ did'.answer = Ordinary(did'.does, o, did'.arg).answer
                       \/ Otherwise(did'.does, o, did'.arg)
  <1>1. engine \in Engines
    BY DEF ValueInv
  <1>2. ASSUME NEW op, NEW arg, NEW outcome, ObjectStep(op, arg, outcome)
        PROVE  /\ did'.does = op /\ did'.arg = arg /\ did'.answer = outcome.answer
               /\ content'.value = outcome.object /\ o \in Objects
    BY <1>2 DEF ObjectStep, Content, ValueInv, HeldIsObject, Object
  <1>3. ASSUME NEW op, NEW arg, NEW outcome, ObjectStep(op, arg, outcome),
               \/ Otherwise(op, o, arg)
               \/ /\ outcome.object = Ordinary(op, o, arg).object
                  /\ op \in {"define", "SetProperty", "SetElement"} \/ outcome.answer = Ordinary(op, o, arg).answer
        PROVE  Agrees
    BY <1>2, <1>3
  <1> HIDE DEF o, Agrees
  <1>4. ASSUME NEW given \in Given, NEW attributes \in AttributeSets,
               NEW outcome \in DefineProperty(engine, o, Descriptor(given, attributes)),
               ObjectStep("define", Descriptor(given, attributes), outcome)
        PROVE  Agrees
    BY <1>1, <1>3, <1>4, DefinitionAgrees
  <1>5. ASSUME NEW op \in PropertyOps, ObjectStep(op, "b", PropertyOp(engine, op, o, "b"))
        PROVE  Agrees
    BY <1>1, <1>3, <1>5, OperationAgrees
  <1>6. ASSUME NEW op \in ElementOps, ObjectStep(op, "b", ElementOp(engine, op, o, "b"))
        PROVE  Agrees
    BY <1>1, <1>2, <1>3, <1>6, ElementAgrees, ReadsWhenThere
  <1>7. ASSUME NEW op \in {"AssociateTypeTag", "CheckTypeTag"}, NEW tag \in Tags, engine # "V8",
               ObjectStep(op, tag, TagOp(engine, op, o, tag))
        PROVE  Agrees
    BY <1>1, <1>3, <1>7, TagAgrees
  <1>8. ASSUME NEW op \in {"Freeze", "Seal"}, engine # "V8", ObjectStep(op, "none", LockOp(engine, op, o))
        PROVE  Agrees
    BY <1>1, <1>3, <1>8, LockAgrees
  <1>9. ~ObjectStep("script", "none", Frozen(o))
    BY <1>2
  <1>10. Agrees
    BY <1>4, <1>5, <1>6, <1>7, <1>8, <1>9 DEF ObjectCalls, o
  <1> QED  BY <1>10 DEF Agrees, o

\* However native functions and scripts use an object or array, in every back end: an operation on
\* it leaves of it what ECMAScript leaves, and answers what it answers, where the back end is not
\* known to do otherwise.
THEOREM ObjectsAsAsked == Spec => ObjectAsAsked
  <1>1. ValueInv /\ [Next]_vars =>
          [Holding("object") /\ "answer" \in DOMAIN did' /\ did'.does # "script" =>
             LET ordinary == Ordinary(did'.does, Object, did'.arg) IN
             \/ /\ content'.value = ordinary.object
                /\ did'.does \in {"define", "SetProperty", "SetElement"} \/ did'.answer = ordinary.answer
             \/ Otherwise(did'.does, Object, did'.arg)]_vars
    BY AnsweredCalls, ObjectCallsAgree
  <1> QED  BY <1>1, ValuesHeld, PTL DEF Spec, ObjectAsAsked
=============================================================================
