------------------------------ MODULE BackEnds ------------------------------
(***************************************************************************)
(* The four back ends behind one interface: NativeEngine and NativeValue,  *)
(* the classes that native_api.cpp calls without knowing which engine is   *)
(* behind them.  A build has one of them; the JerryScript back end comes   *)
(* in two forms, for the releases up to 2.3 and for the later ones.        *)
(***************************************************************************)
EXTENDS NodeApi, EcmaScript

MaxUtf8 == 8    \* stands for the 1024 bytes of maxStringLength

Ark     == INSTANCE ArkEngine
V8      == INSTANCE V8Engine
QuickJS == INSTANCE QuickJSEngine
Jerry3  == INSTANCE JerryScriptEngine WITH Minor <- 3
Jerry4  == INSTANCE JerryScriptEngine WITH Minor <- 4

Jerry   == {"Jerry3", "Jerry4"}
Engines == {"Ark", "V8", "QuickJS"} \cup Jerry

PerEngine(ark, v8, quickjs, jerry3, jerry4) ==
    [Ark |-> ark, V8 |-> v8, QuickJS |-> quickjs, Jerry3 |-> jerry3, Jerry4 |-> jerry4]

Values     == PerEngine(Ark!Values, V8!Values, QuickJS!Values, Jerry3!Values, Jerry4!Values)
Predicates == PerEngine(Ark!Predicates, V8!Predicates, QuickJS!Predicates, Jerry3!Predicates, Jerry4!Predicates)
Classes    == PerEngine(Ark!Classes, V8!Classes, QuickJS!Classes, Jerry3!Classes, Jerry4!Classes)
Creates    == PerEngine(Ark!Creates, V8!Creates, QuickJS!Creates, Jerry3!Creates, Jerry4!Creates)
Converted  == PerEngine(Ark!Converted, V8!Converted, QuickJS!Converted, Jerry3!Converted, Jerry4!Converted)
TakesNull  == PerEngine(Ark!TakesNull, V8!TakesNull, QuickJS!TakesNull, Jerry3!TakesNull, Jerry4!TakesNull)
CallbackFunction ==
    PerEngine(Ark!CallbackFunction, V8!CallbackFunction, QuickJS!CallbackFunction,
              Jerry3!CallbackFunction, Jerry4!CallbackFunction)
TypeOf == PerEngine([k \in Kinds |-> Ark!TypeOf(k)], [k \in Kinds |-> V8!TypeOf(k)],
                    [k \in Kinds |-> QuickJS!TypeOf(k)], [k \in Kinds |-> Jerry3!TypeOf(k)],
                    [k \in Kinds |-> Jerry4!TypeOf(k)])
Wrap   == PerEngine([k \in Ark!Values |-> Ark!Wrap(k)], [k \in V8!Values |-> V8!Wrap(k)],
                    [k \in QuickJS!Values |-> QuickJS!Wrap(k)], [k \in Jerry3!Values |-> Jerry3!Wrap(k)],
                    [k \in Jerry4!Values |-> Jerry4!Wrap(k)])

\* Numbers, strings and big integers.  A set holds the outcomes an engine may produce.
NumberRead(e, v, as) ==
    CASE e = "Ark" -> Ark!NumberRead(v, as)         [] e = "V8" -> V8!NumberRead(v, as)
      [] e = "QuickJS" -> QuickJS!NumberRead(v, as) [] e \in Jerry -> Jerry4!NumberRead(v, as)
MakeNumber(e, n, from) == IF e = "QuickJS" THEN QuickJS!MakeNumber(n, from) ELSE n
BigRead(e, n, as) ==
    CASE e = "Ark" -> Ark!BigRead(n, as)    [] e = "QuickJS" -> QuickJS!BigRead(n, as)
      [] e = "Jerry4" -> Jerry4!BigRead(n, as)
WordBase(e) == CASE e = "Ark" -> Ark!WordBase [] e = "QuickJS" -> QuickJS!WordBase
                 [] e = "Jerry4" -> Jerry4!WordBase
TextRead(e, text, size) ==
    CASE e = "Ark" -> {Ark!TextRead(text, size)}         [] e = "V8" -> {V8!TextRead(text, size)}
      [] e = "QuickJS" -> {QuickJS!TextRead(text, size)} [] e \in Jerry -> Jerry4!TextRead(text, size)
TextRead16(e, text, size) ==
    CASE e = "Ark" -> Ark!TextRead16(text, size)   [] e = "QuickJS" -> QuickJS!TextRead16(text, size)
      [] e \in Jerry -> Jerry4!TextRead16(text, size)
MakeText16(e, units) ==
    CASE e = "QuickJS" -> QuickJS!MakeText16(units) [] e = "Jerry4" -> Jerry4!MakeText16(units)

\* Objects: what a call may make of the object, and its answer.
DefineProperty(e, object, d) ==
    CASE e = "Ark" -> {Ark!DefineProperty(object, d)}         [] e = "V8" -> {V8!DefineProperty(object, d)}
      [] e = "QuickJS" -> {QuickJS!DefineProperty(object, d)} [] e \in Jerry -> Jerry4!DefineProperty(object, d)
PropertyOp(e, op, object, value) ==
    CASE e = "Ark" -> Ark!PropertyOp(op, object, value)
      [] e = "V8" -> V8!PropertyOp(op, object, value)
      [] e = "QuickJS" -> QuickJS!PropertyOp(op, object, value)
      [] e \in Jerry -> Jerry4!PropertyOp(op, object, value)
ElementOp(e, op, array, value) ==
    CASE e = "Ark" -> Ark!ElementOp(op, array, value)
      [] e = "V8" -> V8!ElementOp(op, array, value)
      [] e = "QuickJS" -> QuickJS!ElementOp(op, array, value)
      [] e \in Jerry -> Jerry4!ElementOp(op, array, value)
TagOp(e, op, object, tag) ==
    CASE e = "Ark" -> Ark!TagOp(op, object, tag)         [] e = "QuickJS" -> QuickJS!TagOp(op, object, tag)
      [] e = "Jerry3" -> Jerry3!TagOp(op, object, tag)   [] e = "Jerry4" -> Jerry4!TagOp(op, object, tag)
LockOp(e, op, object) ==
    CASE e = "Ark" -> Ark!LockOp(op, object)  [] e = "QuickJS" -> QuickJS!LockOp(op, object)
      [] e \in Jerry -> Jerry4!LockOp(op, object)
=============================================================================
