---------------------------- MODULE Activations ----------------------------
(***************************************************************************)
(* Native functions that scripts call, the calls they make back into       *)
(* scripts, and the exceptions on both ways: NativeFunctionCallback of the *)
(* function classes, CallFunction, and the exception functions of          *)
(* native_api.cpp on NativeEngine's lastException_.                        *)
(*                                                                         *)
(* An exception is noted in two places.  lastException_ is a handle of the *)
(* environment, and a native function that returns nullptr hands it over.  *)
(* The engine below has an exception of its own, which in Ark and V8 is    *)
(* what the script sees.  JerryScript has none: there an exception is a    *)
(* value with an error flag that a function returns.                       *)
(*                                                                         *)
(* A program throws, and calls a script, only while it has thrown nothing  *)
(* that it has not taken back with napi_get_and_clear_last_exception.      *)
(***************************************************************************)
EXTENDS BackEnds

CONSTANT MaxDepth      \* how many native functions may be active at once
ASSUME DepthAssumption == MaxDepth \in Nat \ {0}

VARIABLES
    engine,    \* the back end of the build
    stack,     \* the active native functions, each with what it raised and an error it holds
    script,    \* a script is running, called from the top of the stack or from outside
    thrown,    \* an exception is on its way through that script
    pending,   \* the engine below has an exception
    last,      \* lastException_: the form of the handle, and the activation it dies with (0: dead)
    careless,  \* some function returned a value in spite of a lastException_
    did        \* the last call

activationVars == <<engine, stack, script, thrown, pending, last, careless, did>>

Active    == Len(stack)
Top       == stack[Active]
NoLast    == [form |-> "none", at |-> 0]
Entered   == [raised |-> "no", held |-> "none"]
Call(does) == [does |-> does]
Idle       == did = Call("nothing")
InTop(raised, held) == stack' = [stack EXCEPT ![Active] = [raised |-> raised, held |-> held]]

\* Each call has one step; with the next the caller has taken note of what it returned.
Noted ==
    /\ ~Idle /\ did' = Call("nothing")
    /\ UNCHANGED <<engine, stack, script, thrown, pending, last, careless>>

InitActivations ==
    /\ engine \in Engines
    /\ stack = <<>> /\ script = TRUE /\ thrown = FALSE /\ pending = FALSE
    /\ last = NoLast /\ careless = FALSE /\ did = Call("nothing")

\* NativeFunctionCallback up to the call of the callback; its scope is that of HandleScopes.
Enter ==
    /\ script /\ ~thrown /\ Active < MaxDepth
    /\ stack' = Append(stack, Entered) /\ script' = FALSE
    /\ did' = Call("enter")
    /\ UNCHANGED <<engine, thrown, pending, last, careless>>

ScriptThrows ==
    /\ script /\ ~thrown
    /\ thrown' = TRUE /\ pending' = (engine \notin Jerry)
    /\ did' = Call("script throws")
    /\ UNCHANGED <<engine, stack, script, last, careless>>

ScriptCatches ==
    /\ script /\ thrown
    /\ thrown' = FALSE /\ pending' = FALSE
    /\ did' = Call("script catches")
    /\ UNCHANGED <<engine, stack, script, last, careless>>

(***************************************************************************)
(* The exception functions.  Each form of an error is a kind of value in   *)
(* its back end: a token is QuickJS's JS_EXCEPTION, which stands for an    *)
(* exception and is none.                                                  *)
(***************************************************************************)
FormOf(error) == IF error.kind = "flagged error" THEN "flagged" ELSE "object"
IsError(form)  == CASE form = "object"  -> "error" \in Predicates[engine]["IsError"]
                    [] form = "flagged" -> TRUE
                    [] form = "token"   -> FALSE

CreateError ==
    /\ ~script /\ Active > 0 /\ Top.held = "none"
    /\ InTop(Top.raised, FormOf(Creates[engine].CreateError))
    /\ did' = Call("napi_create_error")
    /\ UNCHANGED <<engine, script, thrown, pending, last, careless>>

Throw ==
    /\ ~script /\ Active > 0 /\ Top.raised \notin {"value", "new"} /\ Top.held # "none"
    /\ IF IsError(Top.held)
       THEN /\ last' = [form |-> Top.held, at |-> Active]
            /\ pending' = (engine \notin Jerry)
            /\ InTop("value", Top.held)
            /\ did' = Call("napi_throw")
       ELSE did' = Call("napi_throw refused") /\ UNCHANGED <<stack, pending, last>>
    /\ UNCHANGED <<engine, script, thrown, careless>>

\* MUTANT: the object that JS_ThrowTypeError made is kept, and not what it returned.
ThrownForm_mut == IF engine \in Jerry THEN "flagged" ELSE "object"
ThrownForm == CASE engine \in {"Ark", "V8"} -> "object"
                [] engine = "QuickJS" -> "token"
                [] engine \in Jerry -> "flagged"
ThrowError ==
    /\ ~script /\ Active > 0 /\ Top.raised \notin {"value", "new"}
    /\ last' = [form |-> ThrownForm, at |-> Active]
    /\ pending' = (engine \notin Jerry)
    /\ InTop("new", Top.held)
    /\ did' = Call("napi_throw_error")
    /\ UNCHANGED <<engine, script, thrown, careless>>

\* The engine below keeps what it has.
GetAndClearLastException ==
    /\ ~script /\ Active > 0 /\ last # NoLast
    /\ last' = NoLast
    /\ InTop("cleared", last.form)
    /\ did' = Call("napi_get_and_clear_last_exception")
    /\ UNCHANGED <<engine, script, thrown, pending, careless>>

\* napi_call_function, up to the script.
CallFunction ==
    /\ ~script /\ Active > 0 /\ Top.raised = "no"
    /\ script' = TRUE
    /\ did' = Call("napi_call_function")
    /\ UNCHANGED <<engine, stack, thrown, pending, last, careless>>

(***************************************************************************)
(* The rest of CallFunction, after the script.  When it has thrown, Ark    *)
(* takes the exception away and reports it to the uncaught-exception       *)
(* callback; JerryScript makes it lastException_ as an object without the  *)
(* flag; in V8 and QuickJS it stays the engine's.  The status is napi_ok.  *)
(***************************************************************************)
FunctionReturns ==
    /\ script /\ Active > 0
    /\ script' = FALSE /\ thrown' = FALSE
    /\ IF thrown THEN /\ InTop("inherited", Top.held)
                      /\ pending' = (engine \in {"V8", "QuickJS"})
                      /\ last' = IF engine \in Jerry THEN [form |-> "object", at |-> Active] ELSE last
       ELSE UNCHANGED <<stack, pending, last>>
    /\ did' = Call("function returned")
    /\ UNCHANGED <<engine, careless>>

(***************************************************************************)
(* The end of NativeFunctionCallback.  What the caller gets: an exception, *)
(* the error as if it were the function's value, that value, or undefined. *)
(***************************************************************************)
Got(null) ==
    LET handedOver == CASE ~null -> "value"
                        [] null /\ last = NoLast -> "undefined"
                        [] null /\ last.form \in {"token", "flagged"} -> "exception"
                        [] null /\ last.form = "object" -> "the error" IN
    CASE engine = "Ark" -> IF pending THEN "exception" ELSE IF null THEN "undefined" ELSE "value"
      [] engine = "V8"  -> IF pending THEN "exception" ELSE handedOver
      [] engine \in {"QuickJS"} \cup Jerry -> handedOver

\* MUTANT: the error is handed over and not cleared.
Kept_mut(null) == IF last.at = Active THEN [last EXCEPT !.at = 0] ELSE last
\* The handles of the activation die with its scope.
Kept(null) ==
    IF null THEN NoLast
    ELSE IF last.at = Active THEN [last EXCEPT !.at = 0] ELSE last

Return(null) ==
    /\ ~script /\ Active > 0
    /\ LET got == Got(null) IN
       /\ thrown' = (got = "exception")
       /\ pending' = IF engine = "QuickJS" THEN pending \/ got = "exception"
                     ELSE engine \notin Jerry /\ got = "exception"
       /\ did' = [does |-> "return", null |-> null, got |-> got]
    /\ last' = Kept(null)
    /\ careless' = (careless \/ (~null /\ last # NoLast))
    /\ stack' = SubSeq(stack, 1, Active - 1) /\ script' = TRUE
    /\ UNCHANGED engine

NextActivation ==
    /\ Idle
    /\ \/ Enter \/ ScriptThrows \/ ScriptCatches
       \/ CreateError \/ Throw \/ ThrowError \/ GetAndClearLastException
       \/ CallFunction \/ FunctionReturns
       \/ \E null \in BOOLEAN : Return(null)

-----------------------------------------------------------------------------
Returning == did'.does = "return" /\ Active > 0 /\ Len(stack') = Active - 1

(***************************************************************************)
(* What a native function throws before it returns nullptr reaches its     *)
(* caller: as an exception, or, where QuickJS is handed an error object,   *)
(* as the value of the call (NativeFunctionCallback, Throw).               *)
(***************************************************************************)
ThrownReachesCaller ==
    [][Returning /\ Top.raised \in {"value", "new"} /\ did'.null =>
         did'.got = IF engine = "QuickJS" /\ Top.raised = "value" THEN "the error" ELSE "exception"]_activationVars

(***************************************************************************)
(* No caller gets an error that its callee neither threw nor met: nothing  *)
(* of an earlier or outer function's comes back, as long as functions with *)
(* an exception pending return nullptr.  In Ark and V8 an exception that   *)
(* was taken back is thrown all the same.  And lastException_ is then a    *)
(* handle of a function that is still active, so that whoever takes it     *)
(* reads no freed handle (NativeEngine::GetAndClearLastException).         *)
(***************************************************************************)
OnlyOwnExceptions ==
    [][/\ ~careless' /\ last' # NoLast => last'.at \in 1 .. Len(stack')
       /\ Returning /\ ~careless /\ did'.got \in {"exception", "the error"} =>
             \/ Top.raised \in {"value", "new", "inherited"}
             \/ Top.raised = "cleared" /\ engine \in {"Ark", "V8"}]_activationVars
=============================================================================
