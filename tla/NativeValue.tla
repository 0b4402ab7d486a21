---------------------------- MODULE NativeValue ----------------------------
(***************************************************************************)
(* The vocabulary in which native_api.cpp speaks to the back ends: the     *)
(* interfaces of native_value.h, the kinds of JavaScript values, and the   *)
(* shape of a back end's answers.                                          *)
(*                                                                         *)
(* A back end wraps a JavaScript value in an object of one of its classes. *)
(* A class provides interfaces (GetInterface answers nullptr for the       *)
(* others) and carries out their operations.  An answer of an operation is *)
(* "done" when it does what its name says; the other answers are named in  *)
(* Answers.                                                                *)
(***************************************************************************)
EXTENDS Naturals, Sequences, FiniteSets, TLC

Kinds == {"undefined", "null", "boolean", "number", "string", "symbol", "bigint",
          "object", "function", "array", "arraybuffer", "typedarray", "dataview",
          "date", "error", "promise", "external", "buffer", "flagged error"}
    \* A buffer is a QuickJS array buffer with a mark; a flagged error is a JerryScript
    \* error value that is no object yet.

Types == {"UNDEFINED", "NULL", "BOOLEAN", "NUMBER", "STRING", "SYMBOL",
          "OBJECT", "FUNCTION", "EXTERNAL", "BIGINT"}

\* The type each kind should have; every other kind is an object.
OwnType == [undefined |-> "UNDEFINED", null |-> "NULL", boolean |-> "BOOLEAN", number |-> "NUMBER",
            string |-> "STRING", symbol |-> "SYMBOL", bigint |-> "BIGINT",
            function |-> "FUNCTION", external |-> "EXTERNAL"]
TypeFor(kind) == IF kind \in DOMAIN OwnType THEN OwnType[kind] ELSE "OBJECT"
Primitive == DOMAIN OwnType \ {"function", "external"}

\* The predicates of NativeValue on kinds that no creating function yields.
RareTests == {"IsArgumentsObject", "IsAsyncFunction", "IsBooleanObject", "IsGeneratorFunction",
              "IsMapIterator", "IsSetIterator", "IsGeneratorObject", "IsModuleNamespaceObject",
              "IsProxy", "IsRegExp", "IsNumberObject", "IsMap", "IsSet", "IsStringObject",
              "IsSymbolObject", "IsWeakMap", "IsWeakSet"}

\* What each predicate should hold of.
KindsOf == [IsArray |-> {"array"}, IsArrayBuffer |-> {"arraybuffer"}, IsDate |-> {"date"},
            IsError |-> {"error"}, IsTypedArray |-> {"typedarray"}, IsDataView |-> {"dataview"},
            IsPromise |-> {"promise"}, IsCallable |-> {"function"}, IsBuffer |-> {"buffer"}]

Conversions == {"ToBoolean", "ToNumber", "ToString", "ToObject"}

Interfaces ==
    [Boolean     |-> {"operator bool"},
     Number      |-> {"operator int32_t", "operator uint32_t", "operator int64_t", "operator double"},
     String      |-> {"GetCString", "GetCString16"},
     Object      |-> {"SetNativePointer", "GetNativePointer", "AddFinalizer", "GetPropertyNames",
                      "GetPrototype", "DefineProperty", "SetProperty", "GetProperty",
                      "HasProperty", "DeleteProperty", "GetAllPropertyNames",
                      "AssociateTypeTag", "CheckTypeTag", "Freeze", "Seal"},
     Array       |-> {"SetElement", "GetElement", "HasElement", "DeleteElement", "GetLength"},
     ArrayBuffer |-> {"GetInfo", "IsDetachedArrayBuffer", "DetachArrayBuffer"},
     TypedArray  |-> {"GetInfo"},
     DataView    |-> {"GetInfo"},
     Function    |-> {"call"},
     Bigint      |-> {"Int64Value", "Uint64Value", "GetWordsArray"},
     Date        |-> {"GetTime"},
     External    |-> {"operator void*"},
     Buffer      |-> {"GetInfo"}]
    \* GetInfo: the reading methods that one info function calls together.

(***************************************************************************)
(* What a back end may answer instead of doing what was asked:             *)
(*   null, false     nullptr or false, which the caller may look at;       *)
(*   nothing         returns, but has done nothing;                        *)
(*   true            says yes whatever the value is;                       *)
(*   other           does something else, named by the class's comment;    *)
(*   missing         the back end does not implement the method.           *)
(***************************************************************************)
Answers == {"done", "null", "false", "nothing", "true", "other", "missing"}

\* A handle: the kind of its JavaScript value and the class that wraps it.
NoHandle == [kind |-> "none", class |-> "none"]
Makes(kind, class) == [kind |-> kind, class |-> class]

\* The handles, by function and position, that may be null in every back end: the code of an
\* error, the receiver and the elements of argv of a call, and a resource that nobody reads.
NullAnywhere == {<<"napi_create_error", 1>>, <<"napi_create_type_error", 1>>, <<"napi_create_range_error", 1>>,
              <<"napi_call_function", 2>>, <<"napi_call_function", 3>>,
              <<"napi_create_async_work", 1>>, <<"napi_async_init", 1>>}

\* What f says, and where it says nothing what g says.
Over(f, g) == [x \in DOMAIN f \cup DOMAIN g |-> IF x \in DOMAIN f THEN f[x] ELSE g[x]]

\* A class that carries out all operations of its interfaces but those named.
Class(provides, otherwise) ==
    [provides |-> provides,
     answer |-> Over(otherwise, [op \in UNION {Interfaces[i] : i \in provides} |-> "done"])]

AllDone == [op \in {} |-> "done"]

\* A class derived from another one.
Derived(base, provides, otherwise) ==
    [provides |-> base.provides \cup provides,
     answer |-> Over(otherwise, Over([op \in UNION {Interfaces[i] : i \in provides} |-> "done"], base.answer))]
=============================================================================
