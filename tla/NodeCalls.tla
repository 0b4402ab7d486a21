----------------------------- MODULE NodeCalls -----------------------------
(***************************************************************************)
(* A native function at work on one JavaScript value: the calls of         *)
(* native_api.cpp it makes with the value's handle, and what the script    *)
(* does to the value.  Which tests a call makes is NodeApi's, what it then *)
(* does the back end's.                                                    *)
(*                                                                         *)
(* The value has a content only while it matters: an object or array its   *)
(* property (or element), a number its value, a string its characters.     *)
(***************************************************************************)
EXTENDS Activations

CONSTANTS
    Numbers,       \* JavaScript numbers that a script hands over
    Bigs,          \* big integers
    WordLists,     \* big integers as sequences of words
    Texts,         \* strings, as sequences of character lengths
    UnitLists,     \* strings, as sequences of UTF-16 units
    Sizes,         \* sizes of buffers for strings
    AttributeSets  \* attributes of definitions

VARIABLES
    handle,   \* the handle: the kind of its value and its class
    content   \* what the value holds

vars == <<activationVars, handle, content>>

Nothing == [of |-> "nothing"]
Content(of, value) == [of |-> of, value |-> value]
Holding(of) == content.of = of
Init == InitActivations /\ handle = NoHandle /\ content = Nothing

\* The calls of this module: by a function that has nothing to do with exceptions at the moment.
Calling == /\ Idle /\ ~script /\ Active = 1 /\ Top = Entered /\ last = NoLast /\ ~pending
           /\ UNCHANGED <<engine, stack, script, thrown, pending, last, careless>>
Making  == Calling /\ handle = NoHandle
Answer(op) == Classes[engine][handle.class].answer[op]
Done(op, status) == did' = [does |-> op, status |-> status]

-----------------------------------------------------------------------------
(***************************************************************************)
(* Any function of the API: its status for a handle at one position, the   *)
(* others being what it wants, and whether the back end can do with the    *)
(* handle what it is then asked.                                           *)
(***************************************************************************)
Passes(test, h) ==
    CASE test.by = "none" -> TRUE
      [] test.by = "TypeOf" -> TypeOf[engine][h.kind] \in test.of
      [] OTHER -> h.kind \in Predicates[engine][test.by]

Implemented(row, h) ==
    /\ \A t \in {row.takes[i].test : i \in DOMAIN row.takes} \cup {row.again.test} :
           t.by \in DOMAIN Predicates[engine] \cup {"none", "TypeOf"}
    /\ row.does \in DOMAIN KindsOf \cup RareTests => row.does \in DOMAIN Predicates[engine]
    /\ row.as = "Engine" /\ row.does \in DOMAIN Creates["Ark"] => row.does \in DOMAIN Creates[engine]
    /\ \A c \in {h.class} \ {"none"} :
           row.does \in DOMAIN Classes[engine][c].answer => Classes[engine][c].answer[row.does] # "missing"

Refusal(row, i, h) ==
    LET takes == row.takes[i] IN
    IF h = NoHandle THEN IF takes.null = "refused" THEN "invalid_arg" ELSE "none"
    ELSE IF ~Passes(takes.test, h) THEN takes.otherwise
    ELSE IF i = 1 /\ ~Passes(row.again.test, h) THEN row.again.otherwise
    ELSE "none"

\* nullptr is not read, and the interface is there.
CanDo(f, i, h) ==
    LET row == API[f] IN
    IF h = NoHandle THEN <<f, i>> \in TakesNull[engine]
    ELSE i = 1 /\ row.as \in DOMAIN Interfaces => row.as \in Classes[engine][h.class].provides

\* The status of a call that was not refused, made by what the operation answers.
StatusOf(row, i, h) ==
    IF /\ i = 1 /\ h # NoHandle /\ row.as \in DOMAIN Interfaces
       /\ row.as \in Classes[engine][h.class].provides
       /\ row.does \in DOMAIN Classes[engine][h.class].answer
       /\ Classes[engine][h.class].answer[row.does] \in {"null", "false"}
    THEN row.fails ELSE "ok"

\* What a test of the API finds; of the other functions, nothing.
Finds(row, h) == row.does \in DOMAIN Predicates[engine] /\ h.kind \in Predicates[engine][row.does]

Asked(f, i, h) ==
    LET refusal == Refusal(API[f], i, h) IN
    did' = [does |-> f, at |-> i, kind |-> h.kind, finds |-> Finds(API[f], h),
            status |-> IF refusal = "none" THEN StatusOf(API[f], i, h) ELSE refusal,
            safe |-> refusal = "none" => CanDo(f, i, h)]

Ask(f, i) ==
    /\ Calling /\ i \in DOMAIN API[f].takes /\ Implemented(API[f], handle)
    /\ f # "napi_get_new_target"
    /\ content = Nothing \/ (Holding("object") /\ content.value = Fresh)
    /\ Asked(f, i, handle)
    /\ UNCHANGED <<handle, content>>

\* napi_get_new_target reads the handle that NativeFunctionCallback put in the callback's info.
AskNewTarget ==
    /\ Calling
    /\ Asked("napi_get_new_target", 1, CallbackFunction[engine])
    /\ UNCHANGED <<handle, content>>

-----------------------------------------------------------------------------
\* A new value: made by a function of the API, handed over by a script, or converted.
Plain(kind) == IF kind \in {"object", "array"} THEN Content("object", Fresh) ELSE Nothing

\* The number or text of a primitive value is left out here, see the calls below.
Create(f) ==
    /\ Making /\ API[f].as = "Engine" /\ API[f].does \in DOMAIN Creates[engine]
    /\ handle' = Creates[engine][API[f].does] /\ content' = Plain(handle'.kind)
    /\ Done(f, IF handle' = NoHandle THEN API[f].fails ELSE "ok")

Receive(kind) ==
    /\ Making /\ kind \in Values[engine]
    /\ handle' = Wrap[engine][kind] /\ content' = Plain(handle'.kind)
    /\ Done("received", "ok")

\* napi_coerce_to_bool to napi_coerce_to_string, of a value that is no symbol.
KindAfter(op) == CASE op = "ToBoolean" -> "boolean"
                   [] op = "ToNumber"  -> "number"
                   [] op = "ToString"  -> "string"
                   [] op = "ToObject"  -> IF TypeFor(handle.kind) = "OBJECT" THEN handle.kind ELSE "object"
ClassAfter == [ToBoolean |-> "Boolean", ToNumber |-> "Number", ToString |-> "String", ToObject |-> "Object"]
Convert(op) ==
    /\ Calling /\ handle # NoHandle /\ handle.kind \notin {"symbol", "undefined", "null"}
    /\ handle' = CASE Converted[engine][op] = "null" -> NoHandle
                   [] Converted[engine][op] = "converted" -> Wrap[engine][KindAfter(op)]
                   [] OTHER -> Makes(KindAfter(op), ClassAfter[op])
    /\ content' = Plain(handle'.kind)
    /\ Done(op, "ok")

Drop == Calling /\ handle' = NoHandle /\ content' = Nothing /\ Done("drop", "ok")

-----------------------------------------------------------------------------
\* Numbers, as one of the C types or as a double.
Ranges == [int32 |-> Signed(W), uint32 |-> Unsigned(W), int64 |-> Signed(2 * W)]

CreateNumber(n, from) ==
    /\ Making /\ n \in Ranges[from]
    /\ handle' = Creates[engine].CreateNumber
    /\ content' = Content("number", Whole(MakeNumber(engine, n, from)))
    /\ did' = [does |-> "create number", n |-> n, from |-> from]

ReceiveNumber(v) ==
    /\ Making
    /\ handle' = Wrap[engine]["number"] /\ content' = Content("number", v)
    /\ Done("received", "ok")

GetValueNumber(as) ==
    /\ Calling /\ Holding("number")
    /\ \E got \in NumberRead(engine, content.value, as) : did' = [does |-> "read number", as |-> as, got |-> got]
    /\ UNCHANGED <<handle, content>>

\* Big integers.
HasBig == "CreateBigWords" \in DOMAIN Creates[engine] /\ Creates[engine].CreateBigWords # NoHandle
ReceiveBig(n) ==
    /\ Making /\ HasBig
    /\ handle' = Wrap[engine]["bigint"] /\ content' = Content("big", n)
    /\ Done("received", "ok")

\* napi_create_bigint_words, of a positive number.
CreateBigWords(words) ==
    /\ Making /\ HasBig
    /\ handle' = Creates[engine].CreateBigWords /\ content' = Content("big", InBase(words, WordBase(engine)))
    /\ did' = [does |-> "create words", words |-> words]

GetValueBig(as) ==
    /\ Calling /\ Holding("big")
    /\ did' = [does |-> "read big", as |-> as, read |-> BigRead(engine, content.value, as)]
    /\ UNCHANGED <<handle, content>>

-----------------------------------------------------------------------------
\* Strings.
CreateString(text) ==
    /\ Making
    /\ handle' = Creates[engine].CreateString /\ content' = Content("text", text)
    /\ Done("napi_create_string_utf8", "ok")

\* napi_create_string_utf16, where the back end has one; a string that is not made is a value of no use.
CreateString16(units) ==
    /\ Making /\ engine \in {"QuickJS", "Jerry4"}
    /\ handle' = Creates[engine].CreateString16
    /\ LET made == MakeText16(engine, units) IN
       /\ content' = IF made.made THEN Content("text", made.text) ELSE Nothing
       /\ did' = [does |-> "create text", units |-> units]

GetValueString(size) ==
    /\ Calling /\ Holding("text")
    /\ \E read \in TextRead(engine, content.value, size) : did' = [does |-> "read text", size |-> size, read |-> read]
    /\ UNCHANGED <<handle, content>>

GetValueString16(size) ==
    /\ Calling /\ Holding("text") /\ Answer("GetCString16") # "missing"
    /\ did' \in IF TextRead16(engine, content.value, size) = {} THEN {[does |-> "read nothing"]}
                ELSE {[does |-> "read text16", size |-> size, read |-> read] :
                          read \in TextRead16(engine, content.value, size)}
    /\ UNCHANGED <<handle, content>>

-----------------------------------------------------------------------------
\* Objects and arrays.  The descriptor of a definition gives a value, a method or accessors.
Given == {{"value"}, {"method"}, {"getter"}, {"setter"}, {"getter", "setter"}, {"value", "getter"}, {"value", "method"}}
Descriptor(given, attributes) == [given |-> given, attributes |-> attributes, value |-> "a"]

Object == content.value
OnObject == Calling /\ Holding("object") /\ UNCHANGED handle
Outcome(op, arg, outcome) ==
    /\ content' = Content("object", outcome.object)
    /\ did' = [does |-> op, arg |-> arg, answer |-> outcome.answer]

DefineProperties(given, attributes) ==
    /\ OnObject
    /\ \E outcome \in DefineProperty(engine, Object, Descriptor(given, attributes)) :
           Outcome("define", Descriptor(given, attributes), outcome)

PropertyOps == {"SetProperty", "GetProperty", "HasProperty", "DeleteProperty"}
Property(op) == OnObject /\ handle.kind = "object" /\ Outcome(op, "b", PropertyOp(engine, op, Object, "b"))

ElementOps == {"SetElement", "GetElement", "HasElement", "DeleteElement"}
Element(op) == OnObject /\ handle.kind = "array" /\ Outcome(op, "b", ElementOp(engine, op, Object, "b"))

TypeTag(op, tag) == OnObject /\ Answer(op) # "missing" /\ Outcome(op, tag, TagOp(engine, op, Object, tag))
Lock(op) == OnObject /\ Answer(op) # "missing" /\ Outcome(op, "none", LockOp(engine, op, Object))

\* A script with the object locks it.
ScriptLocks == OnObject /\ Outcome("script", "none", Frozen(Object))

NextCall ==
    \/ \E f \in DOMAIN API : \E i \in 1 .. 3 : Ask(f, i)
    \/ AskNewTarget
    \/ \E f \in DOMAIN API : Create(f)
    \/ \E kind \in Kinds : Receive(kind)
    \/ \E op \in Conversions : Convert(op)
    \/ Drop
    \/ \E from \in DOMAIN Ranges : \E n \in Ranges[from] : CreateNumber(n, from)
    \/ \E v \in Numbers : ReceiveNumber(v)
    \/ \E as \in DOMAIN Ranges : GetValueNumber(as)
    \/ \E n \in Bigs : ReceiveBig(n)
    \/ \E words \in WordLists : CreateBigWords(words)
    \/ \E as \in {"int64", "uint64"} : GetValueBig(as)
    \/ \E text \in Texts : CreateString(text)
    \/ \E units \in UnitLists : CreateString16(units)
    \/ \E size \in Sizes : GetValueString(size) \/ GetValueString16(size)
    \/ \E given \in Given, attributes \in AttributeSets : DefineProperties(given, attributes)
    \/ \E op \in PropertyOps : Property(op)
    \/ \E op \in ElementOps : Element(op)
    \/ \E op \in {"AssociateTypeTag", "CheckTypeTag"}, tag \in Tags : TypeTag(op, tag)
    \/ \E op \in {"Freeze", "Seal"} : Lock(op)
    \/ ScriptLocks

\* A handle does not outlive what the function is called for.
Next == \/ NextCall
        \/ NextActivation /\ handle' = NoHandle /\ content' = Nothing
        \/ Noted /\ UNCHANGED <<handle, content>>
Spec == Init /\ [][Next]_vars
-----------------------------------------------------------------------------
\* Handles whose class is not that of their kind: promises, errors that come from a QuickJS script,
\* dates in V8, and in JerryScript the buffers and the results of napi_coerce_to_object.
Misfit ==
    \/ handle = Makes("promise", "Value")
    \/ engine = "QuickJS" /\ handle = Makes("error", "Value")
    \/ engine = "V8" /\ handle.kind = "date"
    \/ engine \in Jerry /\ handle.class = "Buffer"
    \/ engine \in Jerry /\ handle.class = "Object" /\ handle.kind \notin {"object", "error", "promise"}

\* A nullptr that is read: see TakesNull and CallbackFunction of the back ends.
NullIsRead ==
    \/ did.does = "napi_new_instance" /\ engine \in {"V8", "QuickJS"}
    \/ did.does = "napi_define_properties" /\ engine \in {"Ark", "V8"}
    \/ did.does = "napi_get_new_target" /\ engine = "QuickJS"

AskedApi == did.does \in DOMAIN API /\ "at" \in DOMAIN did

(***************************************************************************)
(* The tests a function makes are enough: a handle that passes them has    *)
(* the interface it is cast to, unless its class is not that of its kind,  *)
(* and a nullptr that is let through is not read, but for three functions  *)
(* (the casts of native_api.cpp, GetInterface of the classes).             *)
(***************************************************************************)
TestsSuffice == AskedApi /\ ~did.safe => IF did.kind = "none" THEN NullIsRead ELSE Misfit

\* Whether a kind passes the test the function means to make.
Meant(test, kind) == CASE test.by = "none" -> TRUE
                       [] test.by = "TypeOf" -> TypeFor(kind) \in test.of
                       [] OTHER -> kind \in KindsOf[test.by]

(***************************************************************************)
(* The same call on the same kind of value has the same status and finds   *)
(* the same whatever the back end, as README.md:27 has it.  Ark detaches   *)
(* no array buffer; JerryScript takes only flagged errors for errors and   *)
(* knows no functions.                                                     *)
(***************************************************************************)
SameVerdict ==
    AskedApi /\ did.kind # "none" =>
        LET row == API[did.does]
            takes == row.takes[did.at] IN
        /\ \/ did.status = IF ~Meant(takes.test, did.kind) THEN takes.otherwise
                           ELSE IF did.at = 1 /\ ~Meant(row.again.test, did.kind) THEN row.again.otherwise
                           ELSE "ok"
           \/ engine = "Ark" /\ did.does = "napi_detach_arraybuffer"
           \/ engine \in Jerry /\ did.does = "napi_throw"
        /\ \/ did.finds <=> row.does \in DOMAIN KindsOf /\ did.kind \in KindsOf[row.does]
           \/ engine \in Jerry /\ row.does \in {"IsError", "IsCallable"}

\* What ECMAScript makes of an operation on an object.
Ordinary(op, object, arg) ==
    CASE op = "define" -> Define(object, Ark!Defined(arg))
      [] op \in {"SetProperty", "SetElement"} -> Assign(object, arg)
      [] op \in {"GetProperty", "GetElement"} -> Read(object)
      [] op \in {"HasProperty", "HasElement"} -> Holds(object)
      [] op \in {"DeleteProperty", "DeleteElement"} -> Deleted(object)
      [] op = "AssociateTypeTag" -> Tagged(object, arg)
      [] op = "CheckTypeTag" -> HasTag(object, arg)
      [] op = "Freeze" -> Frozen(object)
      [] op = "Seal" -> Sealed(object)
Refuses(op, object, arg) == ~Ordinary(op, object, arg).answer

\* Where a back end leaves it: no attributes in QuickJS and no tag known again whose upper word is
\* 0, no redefinition and no accessors in JerryScript, operations left out in Ark.
Otherwise(op, object, arg) ==
    \/ engine = "QuickJS" /\ op = "define" /\ (arg.attributes # Attributes \/ arg.given # {"value"})
    \/ engine \in Jerry /\ op = "define" /\ (object.property # Absent \/ {"getter", "setter"} \cap arg.given # {})
    \/ engine \in Jerry /\ op = "SetElement"
    \/ engine = "QuickJS" /\ op = "DeleteElement"
    \/ engine = "QuickJS" /\ op = "DeleteProperty" /\ Refuses(op, object, arg)
    \/ engine \in {"Ark", "Jerry3"} /\ op \in {"AssociateTypeTag", "CheckTypeTag"}
    \/ engine \in {"QuickJS", "Jerry4"} /\ op = "AssociateTypeTag" /\ ~object.extensible
    \/ engine = "QuickJS" /\ op = "CheckTypeTag" /\ object.tag = ShortTag /\ arg = ShortTag
    \/ engine = "Ark" /\ op \in {"Freeze", "Seal"}

(***************************************************************************)
(* A definition, an assignment or any other operation makes of an object   *)
(* what ECMAScript makes of it, and answers what it answers (the object    *)
(* and array classes of the back ends).                                    *)
(***************************************************************************)
ObjectAsAsked ==
    [][Holding("object") /\ "answer" \in DOMAIN did' /\ did'.does # "script" =>
         LET ordinary == Ordinary(did'.does, Object, did'.arg) IN
         \/ /\ content'.value = ordinary.object
            /\ did'.does \in {"define", "SetProperty", "SetElement"} \/ did'.answer = ordinary.answer
         \/ Otherwise(did'.does, Object, did'.arg)]_vars


Lone(text) == \E i \in DOMAIN text : text[i] = LoneSurrogate

=============================================================================
