--------------------------- MODULE QuickJSEngine ---------------------------
(***************************************************************************)
(* The QuickJS back end: src/native_engine/impl/quickjs.  Which kind of    *)
(* object a value is, quickjs_ext.cpp tells from the name of its           *)
(* constructor; a buffer is an ArrayBuffer with a property napi_buffer.    *)
(***************************************************************************)
EXTENDS NativeValue, EcmaScript

Values == Kinds \ {"flagged error"}

\* QuickJSNativeValue.  Nothing answers to the rare tests.
TypeOf(kind) == TypeFor(kind)
Predicates == Over(KindsOf, [t \in RareTests |-> {}])
ValueAnswer == [op \in Conversions \cup {"StrictEquals", "InstanceOf", "TypeOf"} |-> "done"]
Converted == [ToBoolean |-> "boolean", ToNumber |-> "number", ToString |-> "converted", ToObject |-> "null"]

BooleanClass     == Class({"Boolean"}, AllDone)
NumberClass      == Class({"Number"}, AllDone)
StringClass      == Class({"String"}, AllDone)
BigIntClass      == Class({"Bigint"}, AllDone)
ExternalClass    == Class({"External"}, AllDone)
ObjectClass      == Class({"Object"}, [GetPrototype |-> "other"])
    \* The prototype is wrapped as an object whatever it is.
ArrayClass       == Derived(ObjectClass, {"Array"}, AllDone)
ArrayBufferClass == Derived(ObjectClass, {"ArrayBuffer"}, AllDone)
TypedArrayClass  == Derived(ObjectClass, {"TypedArray"}, AllDone)
DataViewClass    == Derived(ObjectClass, {"DataView"}, AllDone)
FunctionClass    == Derived(ObjectClass, {"Function"}, AllDone)
DateClass        == Derived(ObjectClass, {"Date"}, AllDone)
BufferClass      == Derived(ObjectClass, {"Buffer"}, AllDone)

Classes == [Value |-> Class({}, AllDone), Boolean |-> BooleanClass, Number |-> NumberClass,
            String |-> StringClass, Bigint |-> BigIntClass, External |-> ExternalClass,
            Object |-> ObjectClass, Array |-> ArrayClass, ArrayBuffer |-> ArrayBufferClass,
            TypedArray |-> TypedArrayClass, DataView |-> DataViewClass, Function |-> FunctionClass,
            Date |-> DateClass, Buffer |-> BufferClass]

\* JSValueToNativeValue: errors and promises are objects without the object interface.
ClassFor(kind) ==
    CASE kind = "bigint" -> "Bigint"     [] kind = "symbol" -> "Value"
      [] kind = "string" -> "String"     [] kind = "array" -> "Array"
      [] kind \in {"error", "promise"} -> "Value"
      [] kind = "arraybuffer" -> "ArrayBuffer" [] kind = "buffer" -> "Buffer"
      [] kind = "dataview" -> "DataView" [] kind = "typedarray" -> "TypedArray"
      [] kind = "external" -> "External" [] kind = "function" -> "Function"
      [] kind = "date" -> "Date"         [] kind = "object" -> "Object"
      [] kind = "boolean" -> "Boolean"   [] kind \in {"null", "undefined"} -> "Value"
      [] kind = "number" -> "Number"
Wrap(kind) == Makes(kind, ClassFor(kind))

\* GetGlobal to CreateError.
Simple ==
    [GetGlobal |-> Makes("object", "Object"),
     CreateNull |-> Makes("null", "Value"), CreateUndefined |-> Makes("undefined", "Value"),
     CreateBoolean |-> Makes("boolean", "Boolean"), CreateNumber |-> Makes("number", "Number"),
     CreateBigInt |-> Makes("bigint", "Bigint"), CreateBigUint |-> Makes("bigint", "Bigint"),
     CreateString |-> Makes("string", "String"), CreateString16 |-> Makes("string", "String"),
     CreateSymbol |-> Makes("symbol", "Value"), CreateFunction |-> Makes("function", "Function"),
     CreateExternal |-> Makes("external", "External"), CreateObject |-> Makes("object", "Object"),
     CreateArrayBuffer |-> Makes("arraybuffer", "ArrayBuffer"),
     CreateArrayBufferExternal |-> Makes("arraybuffer", "ArrayBuffer"),
     CreateArray |-> Makes("array", "Array"), CreateDataView |-> Makes("dataview", "DataView"),
     CreateTypedArray |-> Makes("typedarray", "TypedArray"),
     CreatePromise |-> Makes("promise", "Value"), CreateError |-> Makes("error", "Object")]

Special ==
    [CreateBuffer |-> Makes("buffer", "Buffer"), CreateBufferCopy |-> Makes("buffer", "Buffer"),
     CreateBufferExternal |-> Makes("buffer", "Buffer"), CreateDate |-> Makes("date", "Date"),
     CreateBigWords |-> Makes("bigint", "Bigint")]

Creates == Over(Simple, Special)

\* DefineProperty tests the value.  CreateInstance reads the elements of argv.  A callback's
\* NativeCallbackInfo has no function.
TakesNull == NullAnywhere \cup {<<"napi_define_properties", 2>>}
CallbackFunction == NoHandle

-----------------------------------------------------------------------------
\* An unsigned number is made by JS_NewInt32.
MakeNumber(n, from) == IF from = "uint32" THEN Wrapped(n, W) ELSE n
NumberRead(v, as) ==
    CASE as = "int32"  -> {ToInt32(v)}
      [] as = "uint32" -> {ToUint32(v)}
      [] as = "int64"  -> {ToInt64(v)}

\* bf_get_int64 and bf_get_uint64 saturate, and say so.
BigRead(n, as) ==
    LET range == IF as = "int64" THEN Signed(2 * W) ELSE Unsigned(2 * W)
        nearest == IF n \in range THEN n
                   ELSE CHOOSE m \in range : \A k \in range : IF n < 0 THEN m <= k ELSE m >= k IN
    [got |-> nearest, lossless |-> n \in range]

WordBase == 2^(2 * W)

\* GetCString: strncpy_s copies all or nothing; the length is the string's in either case.
TextRead(text, size) ==
    LET fits == Total(text) < size IN
    [copied |-> IF fits THEN Total(text) ELSE 0,
     terminator |-> IF fits THEN {Total(text)} ELSE IF size > 0 THEN {0} ELSE {},
     length |-> Total(text)]

(***************************************************************************)
(* Utf8ToUtf16 copies characters while a unit is free before the last one. *)
(* Of a pair it writes the first half before it looks for room for the     *)
(* second.                                                                 *)
(***************************************************************************)
Copied16(text, room) ==
    LET whole == Fitting(Units(text), room)
        used  == Total(SubSeq(Units(text), 1, whole)) IN
    [whole |-> whole, half |-> used < room /\ whole < Len(text)]

\* GetCString16 clears the buffer first and reports the string's own length.
TextRead16(text, size) ==
    {[length |-> Total(Units(text)), tail |-> FALSE,
      copy |-> IF size = 0 THEN [whole |-> 0, half |-> FALSE] ELSE Copied16(text, size - 1)]}

\* JS_NewString16 keeps lone surrogates.
MakeText16(units) == [text |-> Characters(units), made |-> TRUE]

-----------------------------------------------------------------------------
(***************************************************************************)
(* A definition looks for a value first, then for a method, then for       *)
(* accessors, and never at the attributes.  Both accessors are made, the   *)
(* one that is not given with a callback that is null.                     *)
(***************************************************************************)
Defined(d) ==
    IF "value" \in d.given THEN Data(d.value, Attributes)
    ELSE IF "method" \in d.given THEN Data("method", {"writable", "configurable"})
    ELSE Accessor(IF "getter" \in d.given THEN "getter" ELSE "null callback",
                  IF "setter" \in d.given THEN "setter" ELSE "null callback", Attributes)
DefineProperty(object, d) == Define(object, Defined(d))

\* DeleteProperty throws when it may not delete, and converts the -1 it gets to true.
PropertyOp(op, object, value) ==
    CASE op = "SetProperty" -> Assign(object, value)
      [] op = "GetProperty" -> Read(object)
      [] op = "HasProperty" -> Holds(object)
      [] op = "DeleteProperty" -> Did(Deleted(object).object, TRUE)

(***************************************************************************)
(* The tag is a property of the object, a big integer made of the tag's    *)
(* two words; one that is refused is a -1, converted to true.  Of the big  *)
(* integer JS_GetBigIntWords reads the words up to the last one that is    *)
(* not 0, and CheckTypeTag believes nothing that is less than two words.   *)
(***************************************************************************)
WordsRead(tag) == IF tag = ShortTag THEN 1 ELSE 2
TagOp(op, object, tag) ==
    CASE op = "AssociateTypeTag" -> IF object.tag = "none" /\ ~object.extensible
                                    THEN Did(object, TRUE) ELSE Tagged(object, tag)
      [] op = "CheckTypeTag" -> IF WordsRead(object.tag) < 2 THEN Did(object, FALSE) ELSE HasTag(object, tag)
\* MUTANT: JS_Seal and JS_Freeze are swapped.
LockOp_mut(op, object) == IF op = "Seal" THEN Frozen(object) ELSE Sealed(object)
LockOp(op, object) == IF op = "Freeze" THEN Frozen(object) ELSE Sealed(object)

\* DeleteElement splices nothing out of the array and lets the handle stand for the array that
\* splice returns, a new and empty one.
ElementOp(op, array, value) ==
    CASE op = "SetElement" -> Assign(array, value)
      [] op = "GetElement" -> Read(array)
      [] op = "HasElement" -> Holds(array)
      [] op = "DeleteElement" -> Did([Fresh EXCEPT !.same = FALSE], TRUE)
=============================================================================
