------------------------- MODULE JerryScriptEngine -------------------------
(***************************************************************************)
(* The JerryScript back end: src/native_engine/impl/jerryscript.  Parts of *)
(* it depend on JERRY_API_MINOR_VERSION, the parameter Minor: releases up  *)
(* to 3 have no big integers and no UTF-16.  Errors that are not objects   *)
(* carry a flag and are the only values that IsError accepts.              *)
(***************************************************************************)
EXTENDS NativeValue, EcmaScript

CONSTANTS
    Minor,        \* JERRY_API_MINOR_VERSION
    MaxUtf8       \* maxStringLength of GetCString16, 1024 in the code

HasBigInts == Minor > 3
Values == Kinds \ ({"buffer", "flagged error"} \cup IF HasBigInts THEN {} ELSE {"bigint"})

\* JerryScriptNativeValue: an error is an object to TypeOf.  Neither functions nor buffers are
\* recognised, and the rare tests are not implemented.
TypeOf(kind) == TypeFor(kind)
Predicates == Over([IsError |-> {"flagged error"}, IsCallable |-> {}, IsBuffer |-> {}], KindsOf)
ValueAnswer == [op \in Conversions \cup {"StrictEquals", "InstanceOf", "TypeOf"} |-> "done"]
Converted == [ToBoolean |-> "boolean", ToNumber |-> "number", ToString |-> "string", ToObject |-> "object"]

BooleanClass     == Class({"Boolean"}, AllDone)
NumberClass      == Class({"Number"}, AllDone)
StringClass      == Class({"String"}, AllDone)
BigIntClass      == Class({"Bigint"}, IF HasBigInts THEN AllDone ELSE
                          [op \in Interfaces["Bigint"] |-> IF op = "GetWordsArray" THEN "true" ELSE "nothing"])
ObjectClass      == Class({"Object"}, IF HasBigInts THEN AllDone ELSE
                          [GetAllPropertyNames |-> "null", AssociateTypeTag |-> "true", CheckTypeTag |-> "true"])
    \* AddFinalizer uses the slot of the wrapped pointer.
ExternalClass    == Derived(ObjectClass, {"External"}, AllDone)
ArrayClass       == Derived(ObjectClass, {"Array"}, [SetElement |-> "other"])
ArrayBufferClass == Derived(ObjectClass, {"ArrayBuffer"},
                            [IsDetachedArrayBuffer |-> "done", DetachArrayBuffer |-> "done"])
TypedArrayClass  == Derived(ObjectClass, {"TypedArray"}, [GetInfo |-> "other"])
    \* The length is that of the elements, not of the bytes.
DataViewClass    == Derived(ObjectClass, {"DataView"}, [GetInfo |-> "other"])
    \* The length is that of the whole buffer.
FunctionClass    == Derived(ObjectClass, {"Function"}, AllDone)
DateClass        == Derived(ObjectClass, {"Date"}, AllDone)
BufferClass      == Derived(ObjectClass, {"Buffer"}, AllDone)

Classes == [Value |-> Class({}, AllDone), Boolean |-> BooleanClass, Number |-> NumberClass,
            String |-> StringClass, Bigint |-> BigIntClass, External |-> ExternalClass,
            Object |-> ObjectClass, Array |-> ArrayClass, ArrayBuffer |-> ArrayBufferClass,
            TypedArray |-> TypedArrayClass, DataView |-> DataViewClass, Function |-> FunctionClass,
            Date |-> DateClass, Buffer |-> BufferClass]

\* JerryValueToNativeValue.
ClassFor(kind) ==
    CASE kind \in {"undefined", "null", "symbol"} -> "Value"
      [] kind = "boolean" -> "Boolean"         [] kind = "number" -> "Number"
      [] kind = "string" -> "String"           [] kind = "array" -> "Array"
      [] kind = "arraybuffer" -> "ArrayBuffer" [] kind = "dataview" -> "DataView"
      [] kind = "typedarray" -> "TypedArray"   [] kind = "external" -> "External"
      [] kind = "date" -> "Date"               [] kind = "function" -> "Function"
      [] kind \in {"object", "error", "promise", "flagged error"} -> "Object"
      [] kind = "bigint" -> "Bigint"
Wrap(kind) == Makes(kind, ClassFor(kind))

\* GetGlobal to CreateError.  The buffer functions make array buffers, up to 2 MiB.
Simple ==
    [GetGlobal |-> Makes("object", "Object"),
     CreateNull |-> Makes("null", "Value"), CreateUndefined |-> Makes("undefined", "Value"),
     CreateBoolean |-> Makes("boolean", "Boolean"), CreateNumber |-> Makes("number", "Number"),
     CreateString |-> Makes("string", "String"), CreateSymbol |-> Makes("symbol", "Value"),
     CreateExternal |-> Makes("external", "External"), CreateObject |-> Makes("object", "Object"),
     CreateFunction |-> Makes("function", "Function"), CreateArray |-> Makes("array", "Array"),
     CreateArrayBuffer |-> Makes("arraybuffer", "ArrayBuffer"),
     CreateArrayBufferExternal |-> Makes("arraybuffer", "ArrayBuffer"),
     CreateBuffer |-> Makes("arraybuffer", "Buffer"), CreateBufferCopy |-> Makes("arraybuffer", "Buffer"),
     CreateBufferExternal |-> Makes("arraybuffer", "Buffer"),
     CreateTypedArray |-> Makes("typedarray", "TypedArray"),
     CreateDataView |-> Makes("dataview", "DataView"), CreatePromise |-> Makes("promise", "Value"),
     CreateError |-> Makes("flagged error", "Object")]

Special ==
    [CreateDate |-> Wrap("date"),
     CreateBigInt |-> Makes(IF HasBigInts THEN "bigint" ELSE "undefined", "Bigint"),
     CreateBigWords |-> IF HasBigInts THEN Makes("bigint", "Bigint") ELSE NoHandle,
     CreateBigUint  |-> IF HasBigInts THEN Makes("bigint", "Bigint") ELSE NoHandle,
     CreateString16 |-> IF HasBigInts THEN Makes("string", "String") ELSE NoHandle]

Creates == Over(Simple, Special)

\* DefineProperty tests the value.  CreateInstance reads argv, an array of pointers, as one of
\* JerryScript values.  A callback's function is the callee.
TakesNull == NullAnywhere \cup {<<"napi_define_properties", 2>>, <<"napi_new_instance", 2>>}
CallbackFunction == Wrap("function")

-----------------------------------------------------------------------------
\* Numbers are doubles, and are cast to the C type that is asked for.
MakeNumber(n, from) == n
NumberRead(v, as) ==
    CASE as = "int32"  -> OfDouble(v, Signed(W))
      [] as = "uint32" -> OfDouble(v, Unsigned(W))
      [] as = "int64"  -> OfDouble(v, Signed(2 * W))

\* The last digit alone is read; with exactly one digit the result counts as lossless, and
\* zero has none.
BigRead(n, as) ==
    LET magnitude == IF n < 0 THEN -n ELSE n
        digit == Modulo(magnitude, 2 * W)
        cast  == Wrapped(digit, 2 * W) IN
    [got |-> IF as = "uint64" THEN digit ELSE IF n < 0 THEN Wrapped(-cast, 2 * W) ELSE cast,
     lossless |-> magnitude \in 1 .. 2^(2 * W) - 1]
WordBase == 2^(2 * W)

\* GetCString: no terminator; the engine may copy nothing when not everything fits.
TextRead(text, size) ==
    IF size = 0 THEN {[copied |-> 0, terminator |-> {}, length |-> Total(text)]}
    ELSE {[copied |-> n, terminator |-> {}, length |-> n] :
              n \in {IF Total(text) <= size THEN Total(text) ELSE 0,
                     Total(SubSeq(text, 1, Fitting(text, size)))}}

\* Utf8ToUtf16: the same code as in the QuickJS back end.
Copied16(text, room) ==
    LET whole == Fitting(Units(text), room)
        used  == Total(SubSeq(Units(text), 1, whole)) IN
    [whole |-> whole, half |-> used < room /\ whole < Len(text)]

(***************************************************************************)
(* GetCString16 writes nothing, not even a length, of a string that is     *)
(* empty or longer than MaxUtf8.  Of another it converts as many bytes as  *)
(* strlen counts in a copy that has no terminator: where the buffer has    *)
(* room left, what lies behind the copy may be converted as well (tail).   *)
(***************************************************************************)
TextRead16(text, size) ==
    IF Total(text) = 0 \/ Total(text) > MaxUtf8 THEN {}
    ELSE {[length |-> Total(Units(text)), tail |-> t,
           copy |-> IF size = 0 THEN [whole |-> 0, half |-> FALSE] ELSE Copied16(text, size - 1)] :
              t \in {FALSE, Total(Units(text)) < size - 1}}

\* CreateStringFromUtf16: of a lone surrogate no byte is written, and an empty string has length -1.
MakeText16(units) == [text |-> SelectSeq(Characters(units), LAMBDA c : c # LoneSurrogate), made |-> units # <<>>]

-----------------------------------------------------------------------------
(***************************************************************************)
(* A definition passes on what the descriptor gives, all at once, and of   *)
(* the attributes those that are set: an attribute that is not set keeps   *)
(* the value it has.  An accessor is passed on as one that says something  *)
(* about being writable, which ECMAScript does not allow: the engine may   *)
(* refuse it, and the result is dropped.                                   *)
(***************************************************************************)
Kept(object, d) == d.attributes \cup IF object.property = Absent THEN {} ELSE object.property.attributes
OtherEnd(object, end, missing) ==
    IF object.property # Absent /\ object.property.is = "accessor" THEN object.property[end] ELSE missing
Defined(object, d) ==
    IF {"getter", "setter"} \cap d.given # {}
    THEN Accessor(IF "getter" \in d.given THEN "getter" ELSE OtherEnd(object, "get", "none"),
                  IF "setter" \in d.given THEN "setter" ELSE OtherEnd(object, "set", "none"), Kept(object, d))
    ELSE Data(IF "method" \in d.given THEN "method" ELSE d.value, Kept(object, d))
Outcomes(object, d) ==
    IF {"getter", "setter"} \cap d.given # {}
    THEN {object} \cup IF "value" \in d.given THEN {} ELSE {Define(object, Defined(object, d)).object}
    ELSE {Define(object, Defined(object, d)).object}
DefineProperty(object, d) == {Did(after, TRUE) : after \in Outcomes(object, d)}

\* SetProperty is always true, the others what the engine says.
PropertyOp(op, object, value) ==
    CASE op = "SetProperty" -> Did(Assign(object, value).object, TRUE)
      [] op = "GetProperty" -> Read(object)
      [] op = "HasProperty" -> Holds(object)
      [] op = "DeleteProperty" -> Deleted(object)

\* The tag is a property; the value that a refusal returns is not zero.  CheckTypeTag reads both
\* digits, those the big integer has not as zero.
TagOp(op, object, tag) ==
    CASE ~HasBigInts -> Did(object, TRUE)
      [] HasBigInts /\ op = "AssociateTypeTag" -> IF object.tag = "none" /\ ~object.extensible
                                                  THEN Did(object, TRUE) ELSE Tagged(object, tag)
      [] HasBigInts /\ op = "CheckTypeTag" -> HasTag(object, tag)
LockOp(op, object) == IF op = "Freeze" THEN Frozen(object) ELSE Sealed(object)

\* SetElement stores the array itself; an element that reads as undefined is not there.
ElementOp(op, array, value) ==
    CASE op = "SetElement" -> Did(Assign(array, "the array").object, TRUE)
      [] op = "GetElement" -> Read(array)
      [] op = "HasElement" -> Did(array, ReadOf(array) # "undefined")
      [] op = "DeleteElement" -> Deleted(array)
=============================================================================
