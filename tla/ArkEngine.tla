----------------------------- MODULE ArkEngine -----------------------------
(***************************************************************************)
(* The Ark back end: src/native_engine/impl/ark.  What the classes of its  *)
(* native_value directory provide and where they do not do what the        *)
(* interface says, what its creating functions return, and how it wraps a  *)
(* value that comes from a script.                                         *)
(***************************************************************************)
EXTENDS NativeValue, EcmaScript

Values == Kinds \ {"buffer", "flagged error"}

\* ArkNativeValue.
TypeOf(kind) == TypeFor(kind)
Predicates == Over([IsBuffer |-> {}, IsModuleNamespaceObject |-> {}], Over(KindsOf, [t \in RareTests |-> {}]))
ValueAnswer == [op \in Conversions \cup {"StrictEquals", "InstanceOf", "TypeOf"} |-> "done"]
Converted == [ToBoolean |-> "converted", ToNumber |-> "converted", ToString |-> "converted", ToObject |-> "converted"]

BooleanClass     == Class({"Boolean"}, AllDone)
NumberClass      == Class({"Number"}, AllDone)
StringClass      == Class({"String"}, [GetCString16 |-> "nothing"])
BigIntClass      == Class({"Bigint"}, AllDone)
ExternalClass    == Class({"External"}, AllDone)
ObjectClass      == Class({"Object"}, [AddFinalizer |-> "nothing", GetAllPropertyNames |-> "null",
                                       AssociateTypeTag |-> "true", CheckTypeTag |-> "true",
                                       Freeze |-> "nothing", Seal |-> "nothing"])
ArrayClass       == Derived(ObjectClass, {"Array"}, AllDone)
ArrayBufferClass == Derived(ObjectClass, {"ArrayBuffer"},
                            [IsDetachedArrayBuffer |-> "true", DetachArrayBuffer |-> "false"])
TypedArrayClass  == Derived(ObjectClass, {"TypedArray"}, AllDone)
DataViewClass    == Derived(ObjectClass, {"DataView"}, AllDone)
FunctionClass    == Derived(ObjectClass, {"Function"}, AllDone)
\* MUTANT: ArkNativeDate does not override GetInterface.
DateClass_mut == Derived(ObjectClass, {}, AllDone)
DateClass == Derived(ObjectClass, {"Date"}, AllDone)

Classes == [Value |-> Class({}, AllDone), Boolean |-> BooleanClass, Number |-> NumberClass,
            String |-> StringClass, Bigint |-> BigIntClass, External |-> ExternalClass,
            Object |-> ObjectClass, Array |-> ArrayClass, ArrayBuffer |-> ArrayBufferClass,
            TypedArray |-> TypedArrayClass, DataView |-> DataViewClass, Function |-> FunctionClass,
            Date |-> DateClass]

\* ArkValueToNativeValue.
ClassFor(kind) ==
    CASE kind \in {"null", "undefined", "symbol"} -> "Value"
      [] kind = "number" -> "Number"           [] kind = "string" -> "String"
      [] kind = "array" -> "Array"             [] kind = "function" -> "Function"
      [] kind = "arraybuffer" -> "ArrayBuffer" [] kind = "dataview" -> "DataView"
      [] kind = "typedarray" -> "TypedArray"   [] kind = "external" -> "External"
      [] kind = "date" -> "Date"               [] kind = "bigint" -> "Bigint"
      [] kind \in {"object", "error", "promise"} -> "Object"
      [] kind = "boolean" -> "Boolean"
Wrap(kind) == Makes(kind, ClassFor(kind))

\* GetGlobal to CreateArrayBufferExternal.
Simple ==
    [GetGlobal |-> Wrap("object"),
     CreateNull |-> Makes("null", "Value"), CreateUndefined |-> Makes("undefined", "Value"),
     CreateBoolean |-> Makes("boolean", "Boolean"), CreateNumber |-> Makes("number", "Number"),
     CreateBigInt |-> Makes("bigint", "Bigint"), CreateBigUint |-> Makes("bigint", "Bigint"),
     CreateString |-> Makes("string", "String"), CreateString16 |-> NoHandle,
     CreateSymbol |-> Makes("symbol", "Value"), CreateExternal |-> Makes("external", "External"),
     CreateObject |-> Makes("object", "Object"), CreateFunction |-> Makes("function", "Function"),
     CreateArray |-> Makes("array", "Array"),
     CreateArrayBuffer |-> Makes("arraybuffer", "ArrayBuffer"),
     CreateArrayBufferExternal |-> Makes("arraybuffer", "ArrayBuffer")]

\* CreateTypedArray, CreateDataView, CreatePromise and CreateError.
Composed ==
    [CreateTypedArray |-> Makes("typedarray", "TypedArray"),
     CreateDataView   |-> Makes("dataview", "DataView"),
     CreatePromise    |-> Makes("promise", "Value"),
     CreateError      |-> Wrap("error")]

Special ==
    [CreateBuffer |-> NoHandle, CreateBufferCopy |-> NoHandle, CreateBufferExternal |-> NoHandle,
     CreateDate |-> Wrap("date"), CreateBigWords |-> Makes("bigint", "Bigint")]

Creates == Over(Simple, Over(Composed, Special))

\* CreateInstance tests the elements of argv; DefineProperty reads a value that is its last choice.
TakesNull == NullAnywhere \cup {<<"napi_new_instance", 2>>}
CallbackFunction == Wrap("undefined")

-----------------------------------------------------------------------------
\* Numbers: NumberRef keeps each of the four C types.
MakeNumber(n, from) == n
NumberRead(v, as) ==
    CASE as = "int32"  -> {ToInt32(v)}
      [] as = "uint32" -> {ToUint32(v)}
      [] as = "int64"  -> {ToInteger(v)}

\* BigIntRef does the work, words of the double width included.
BigRead(n, as) ==
    IF as = "int64" THEN [got |-> Wrapped(n, 2 * W), lossless |-> n \in Signed(2 * W)]
                    ELSE [got |-> Modulo(n, 2 * W), lossless |-> n \in Unsigned(2 * W)]
WordBase == 2^(2 * W)

TextRead(text, size) ==
    LET copied == Total(SubSeq(text, 1, Fitting(text, size - 1))) IN
    IF size = 0 THEN [copied |-> 0, terminator |-> {}, length |-> 0]
    ELSE [copied |-> copied, terminator |-> {copied}, length |-> copied]
TextRead16(text, size) == {}

-----------------------------------------------------------------------------
(***************************************************************************)
(* Objects.  A definition with a getter or a setter makes an accessor, one *)
(* with a method a method, and any other one the value; the attributes are *)
(* the descriptor's.                                                       *)
(***************************************************************************)
Defined(d) ==
    IF {"getter", "setter"} \cap d.given # {}
    THEN Accessor(IF "getter" \in d.given THEN "getter" ELSE "none",
                  IF "setter" \in d.given THEN "setter" ELSE "none", d.attributes)
    ELSE Data(IF "method" \in d.given THEN "method" ELSE d.value, d.attributes)
DefineProperty(object, d) == Define(object, Defined(d))

\* SetProperty to DeleteProperty, by handle and by name.
PropertyOp(op, object, value) ==
    CASE op = "SetProperty" -> Assign(object, value)
      [] op = "GetProperty" -> Read(object)
      [] op = "HasProperty" -> Holds(object)
      [] op = "DeleteProperty" -> Deleted(object)

\* GetAllPropertyNames, AssociateTypeTag, CheckTypeTag, Freeze and Seal are there in name only.
TagOp(op, object, tag) == Did(object, TRUE)
LockOp(op, object) == Did(object, TRUE)

\* ArkNativeArray does with an element what the object does with a property.
ElementOp(op, array, value) ==
    CASE op = "SetElement" -> Assign(array, value)
      [] op = "GetElement" -> Read(array)
      [] op = "HasElement" -> Holds(array)
      [] op = "DeleteElement" -> Deleted(array)
=============================================================================
