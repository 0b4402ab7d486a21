------------------------------ MODULE V8Engine ------------------------------
(***************************************************************************)
(* The V8 back end: src/native_engine/impl/v8.  It implements fewer of the *)
(* interface's methods than the others: it has no Date, Bigint and Buffer  *)
(* class, and an array or object lacks the methods named missing below.    *)
(***************************************************************************)
EXTENDS NativeValue, EcmaScript

Values == Kinds \ {"buffer", "flagged error"}

\* V8NativeValue.  The rare tests are not implemented, and nothing is a buffer.
TypeOf(kind) == TypeFor(kind)
\* MUTANT: IsDate is forgotten.
Predicates_mut == Over([IsBuffer |-> {}, IsDate |-> {}], KindsOf)
Predicates == Over([IsBuffer |-> {}], KindsOf)
ValueAnswer == [op \in Conversions \cup {"StrictEquals", "InstanceOf", "TypeOf"} |-> "done"]
Converted == [ToBoolean |-> "converted", ToNumber |-> "converted", ToString |-> "converted", ToObject |-> "converted"]

BooleanClass     == Class({"Boolean"}, AllDone)
NumberClass      == Class({"Number"}, AllDone)
StringClass      == Class({"String"}, [GetCString16 |-> "missing"])
ExternalClass    == Class({"External"}, AllDone)
ObjectClass      == Class({"Object"}, [op \in {"AddFinalizer", "GetAllPropertyNames", "AssociateTypeTag",
                                               "CheckTypeTag", "Freeze", "Seal"} |-> "missing"])
    \* GetPropertyNames collects the names of the prototypes as well.
ArrayClass       == Derived(ObjectClass, {"Array"}, AllDone)
ArrayBufferClass == Derived(ObjectClass, {"ArrayBuffer"},
                            [IsDetachedArrayBuffer |-> "missing", DetachArrayBuffer |-> "missing"])
TypedArrayClass  == Derived(ObjectClass, {"TypedArray"}, AllDone)
DataViewClass    == Derived(ObjectClass, {"DataView"}, AllDone)
FunctionClass    == Derived(ObjectClass, {"Function"}, AllDone)

Classes == [Value |-> Class({}, AllDone), Boolean |-> BooleanClass, Number |-> NumberClass,
            String |-> StringClass, External |-> ExternalClass, Object |-> ObjectClass,
            Array |-> ArrayClass, ArrayBuffer |-> ArrayBufferClass, TypedArray |-> TypedArrayClass,
            DataView |-> DataViewClass, Function |-> FunctionClass]

\* V8ValueToNativeValue.  A date is an object like others, and a bigint gets no wrapper.
ClassFor(kind) ==
    CASE kind \in {"null", "undefined", "symbol", "promise"} -> "Value"
      [] kind = "number" -> "Number"           [] kind = "string" -> "String"
      [] kind = "array" -> "Array"             [] kind = "function" -> "Function"
      [] kind = "arraybuffer" -> "ArrayBuffer" [] kind = "dataview" -> "DataView"
      [] kind = "typedarray" -> "TypedArray"   [] kind = "external" -> "External"
      [] kind \in {"object", "error", "date"} -> "Object"
      [] kind = "boolean" -> "Boolean"
      [] OTHER -> "none"
Wrap(kind) == IF ClassFor(kind) = "none" THEN NoHandle ELSE Makes(kind, ClassFor(kind))

\* GetGlobal to CreateArrayBufferExternal.
Simple ==
    [GetGlobal |-> Wrap("object"),
     CreateNull |-> Makes("null", "Value"), CreateUndefined |-> Makes("undefined", "Value"),
     CreateBoolean |-> Makes("boolean", "Boolean"), CreateNumber |-> Makes("number", "Number"),
     CreateString |-> Makes("string", "String"), CreateSymbol |-> Makes("symbol", "Value"),
     CreateExternal |-> Makes("external", "External"), CreateObject |-> Makes("object", "Object"),
     CreateFunction |-> Makes("function", "Function"), CreateArray |-> Makes("array", "Array"),
     CreateArrayBuffer |-> Makes("arraybuffer", "ArrayBuffer"),
     CreateArrayBufferExternal |-> Makes("arraybuffer", "ArrayBuffer")]

\* CreateTypedArray to CreateError.
Composed ==
    [CreateTypedArray |-> Makes("typedarray", "TypedArray"),
     CreateDataView   |-> Makes("dataview", "DataView"),
     CreatePromise    |-> Makes("promise", "Value"),
     CreateError      |-> Wrap("error")]

Creates == Over(Simple, Composed)

\* CreateInstance reads the elements of argv, and DefineProperty a value that is its last choice.
TakesNull == NullAnywhere
CallbackFunction == Wrap("undefined")

-----------------------------------------------------------------------------
\* A number read as 32 bits is the 64 bit integer cut down; a number too large for 64 bits saturates.
MakeNumber(n, from) == n
NumberRead(v, as) ==
    CASE as = "int32"  -> {IF v.finite THEN Wrapped(Saturated(v.n, 2 * W), W) ELSE 0}
      [] as = "uint32" -> {ToUint32(v)}
      [] as = "int64"  -> {IF v.finite THEN ToInteger(v) ELSE 0}

\* GetCString: up to size bytes are copied, and the terminator follows them.
TextRead(text, size) ==
    LET copied == Total(SubSeq(text, 1, Fitting(text, size))) IN
    IF size = 0 THEN [copied |-> 0, terminator |-> {}, length |-> 0]
    ELSE [copied |-> copied, terminator |-> {copied}, length |-> copied]

-----------------------------------------------------------------------------
\* The order is that of Ark: accessors, then methods, then values.
Defined(d) ==
    IF {"getter", "setter"} \cap d.given # {}
    THEN Accessor(IF "getter" \in d.given THEN "getter" ELSE "none",
                  IF "setter" \in d.given THEN "setter" ELSE "none", d.attributes)
    ELSE Data(IF "method" \in d.given THEN "method" ELSE d.value, d.attributes)
DefineProperty(object, d) == Define(object, Defined(d))

\* SetProperty to DeleteProperty, by handle and by name.
PropertyOp(op, object, value) ==
    CASE op = "SetProperty" -> Assign(object, value)
      [] op = "GetProperty" -> Read(object)
      [] op = "HasProperty" -> Holds(object)
      [] op = "DeleteProperty" -> Deleted(object)

ElementOp(op, array, value) ==
    CASE op = "SetElement" -> Assign(array, value)
      [] op = "GetElement" -> Read(array)
      [] op = "HasElement" -> Holds(array)
      [] op = "DeleteElement" -> Deleted(array)
=============================================================================
