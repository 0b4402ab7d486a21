------------------------------ MODULE NodeApi ------------------------------
(***************************************************************************)
(* The Node-API functions of native_api.cpp and native_node_api.cpp as one *)
(* table: for each function the handles it takes, what it tests of them    *)
(* and the status it answers when the test fails, the interface it casts   *)
(* the first one to, and the operation it calls.                           *)
(*                                                                         *)
(* Of a call's arguments only the handles are modelled: a null pointer for *)
(* a result, a name or a callback is refused with napi_invalid_arg by the  *)
(* same CHECK_ARG as a null handle.                                        *)
(***************************************************************************)
EXTENDS NativeValue

Test(by, of) == [by |-> by, of |-> of]
Anything     == Test("none", {})
TypeIs(type) == Test("TypeOf", {type})
Owner        == Test("TypeOf", {"OBJECT", "FUNCTION"})
Is(what)     == Test(what, {})

(***************************************************************************)
(* A handle a function takes: what a null handle meets (CHECK_ARG refuses  *)
(* it, or the function lets it through to the back end), the test, and the *)
(* status when the test fails.                                             *)
(***************************************************************************)
Handle(test, otherwise) == [null |-> "refused", test |-> test, otherwise |-> otherwise]
Optional(test)          == [null |-> "passed on", test |-> test, otherwise |-> "invalid_arg"]

\* again: a second test of the first handle.
\* fails: the status when the operation answers null or false.
Row(takes, as, does) == [takes |-> takes, as |-> as, does |-> does, again |-> Handle(Anything, "ok"),
                         fails |-> "ok"]
Engine(does)                 == Row(<<>>, "Engine", does)
Value(does)                  == Row(<<Handle(Anything, "ok")>>, "Value", does)
On(test, otherwise, as, does) == Row(<<Handle(test, otherwise)>>, as, does)
And(row, another)    == [row EXCEPT !.takes = Append(@, another)]
Failing(row, status) == [row EXCEPT !.fails = status]

AnyHandle == Handle(Anything, "ok")
Text      == Handle(TypeIs("STRING"), "invalid_arg")

\* napi_get_undefined to napi_create_int64.
PlainValues ==
    [napi_get_undefined |-> Engine("CreateUndefined"), napi_get_null |-> Engine("CreateNull"),
     napi_get_global |-> Engine("GetGlobal"),          napi_get_boolean |-> Engine("CreateBoolean"),
     napi_create_object |-> Engine("CreateObject"),    napi_create_array |-> Engine("CreateArray"),
     napi_create_array_with_length |-> Engine("CreateArray"),
     napi_create_double |-> Engine("CreateNumber"),    napi_create_int32 |-> Engine("CreateNumber"),
     napi_create_uint32 |-> Engine("CreateNumber"),    napi_create_int64 |-> Engine("CreateNumber")]

\* Strings, symbols, functions and errors.  The three kinds of error are all made by CreateError.
NamedValues ==
    LET error == And(And(Engine("CreateError"), Optional(TypeIs("STRING"))), Text) IN
    [napi_create_string_latin1 |-> Engine("CreateString"),
     napi_create_string_utf8   |-> Engine("CreateString"),
     napi_create_string_utf16  |-> Engine("CreateString16"),
     napi_create_symbol        |-> And(Engine("CreateSymbol"), Text),
     napi_create_function      |-> Engine("CreateFunction"),
     napi_create_error |-> error, napi_create_type_error |-> error, napi_create_range_error |-> error]

TypeAndNumbers ==
    LET number(op) == On(TypeIs("NUMBER"), "number_expected", "Number", op) IN
    [napi_typeof           |-> Value("TypeOf"),
     napi_get_value_double |-> number("operator double"), napi_get_value_int32 |-> number("operator int32_t"),
     napi_get_value_uint32 |-> number("operator uint32_t"), napi_get_value_int64 |-> number("operator int64_t"),
     napi_get_value_bool   |-> On(TypeIs("BOOLEAN"), "boolean_expected", "Boolean", "operator bool")]

StringsAndCoercions ==
    LET string(op) == On(TypeIs("STRING"), "string_expected", "String", op) IN
    [napi_get_value_string_latin1 |-> string("GetCString"),
     napi_get_value_string_utf8   |-> string("GetCString"),
     napi_get_value_string_utf16  |-> string("GetCString16"),
     napi_coerce_to_bool   |-> Value("ToBoolean"), napi_coerce_to_number |-> Value("ToNumber"),
     napi_coerce_to_object |-> Value("ToObject"),  napi_coerce_to_string |-> Value("ToString")]

\* napi_get_prototype wants a function; napi_has_own_property asks HasProperty.
PropertyCalls ==
    LET property(op) == On(Owner, "object_expected", "Object", op)
        keyed(op)    == And(property(op), AnyHandle) IN
    [napi_get_prototype      |-> On(TypeIs("FUNCTION"), "object_expected", "Object", "GetPrototype"),
     napi_get_property_names |-> property("GetPropertyNames"),
     napi_set_property       |-> And(keyed("SetProperty"), AnyHandle),
     napi_has_property       |-> keyed("HasProperty"),    napi_get_property     |-> keyed("GetProperty"),
     napi_delete_property    |-> keyed("DeleteProperty"), napi_has_own_property |-> keyed("HasProperty")]

NamedPropertyCalls ==
    LET property(op) == On(Owner, "object_expected", "Object", op) IN
    [napi_set_named_property |-> And(property("SetProperty"), AnyHandle),
     napi_has_named_property |-> property("HasProperty"),
     napi_get_named_property |-> property("GetProperty")]

\* Elements, definitions and the array tests.  The value of a property descriptor is an unread handle.
ElementCalls ==
    LET element(op) == On(Is("IsArray"), "array_expected", "Array", op) IN
    [napi_set_element    |-> And(element("SetElement"), AnyHandle),
     napi_has_element    |-> element("HasElement"), napi_get_element |-> element("GetElement"),
     napi_delete_element |-> element("DeleteElement"),
     napi_define_properties |-> And(On(TypeIs("OBJECT"), "object_expected", "Object", "DefineProperty"), Optional(Anything)),
     napi_is_array         |-> Value("IsArray"),
     napi_get_array_length |-> element("GetLength")]

\* The elements of argv are unread handles.
FunctionCalls ==
    LET function(op) == On(TypeIs("FUNCTION"), "function_expected", "Engine", op) IN
    [napi_strict_equals |-> And(Value("StrictEquals"), AnyHandle),
     napi_call_function |-> And(And(function("CallFunction"), Optional(Anything)), Optional(Anything)),
     napi_new_instance  |-> And(function("CreateInstance"), Optional(Anything)),
     napi_instanceof    |-> And(On(TypeIs("OBJECT"), "object_expected", "Value", "InstanceOf"),
                                Handle(TypeIs("FUNCTION"), "function_expected"))]

\* What a callback asks of its call: thisVar is there, function may be null.
CallbackCalls ==
    [napi_get_cb_info    |-> Engine("callback info"),
     napi_get_new_target |-> And(Engine("InstanceOf new target"), Optional(Anything)),
     napi_define_class   |-> Engine("DefineClass")]

WrapCalls ==
    LET object(op) == On(TypeIs("OBJECT"), "object_expected", "Object", op) IN
    [napi_wrap               |-> object("SetNativePointer"), napi_unwrap |-> object("GetNativePointer"),
     napi_remove_wrap        |-> object("SetNativePointer"),
     napi_create_external    |-> Engine("CreateExternal"),
     napi_get_value_external |-> On(TypeIs("EXTERNAL"), "object_expected", "External", "operator void*"),
     napi_create_reference   |-> Value("CreateReference")]

\* napi_throw_type_error and napi_throw_range_error throw, and answer a failure they do not record.
ExceptionCalls ==
    [napi_throw             |-> On(Is("IsError"), "invalid_arg", "Engine", "Throw"),
     napi_throw_error       |-> Engine("ThrowNew"),
     napi_throw_type_error  |-> Engine("ThrowNew"),
     napi_throw_range_error |-> Engine("ThrowNew"),
     napi_is_error          |-> Value("IsError"),
     napi_is_exception_pending         |-> Engine("IsExceptionPending"),
     napi_get_and_clear_last_exception |-> Engine("GetAndClearLastException")]

ArrayBufferCalls ==
    [napi_is_arraybuffer              |-> Value("IsArrayBuffer"),
     napi_create_arraybuffer          |-> Engine("CreateArrayBuffer"),
     napi_create_external_arraybuffer |-> Engine("CreateArrayBufferExternal"),
     napi_get_arraybuffer_info |-> On(Is("IsArrayBuffer"), "arraybuffer_expected", "ArrayBuffer", "GetInfo"),
     napi_is_typedarray        |-> Value("IsTypedArray")]

\* The buffer functions look at the value the back end made, and refuse when there is none.
BufferCalls ==
    LET made(op) == Failing(Engine(op), "invalid_arg") IN
    [napi_is_buffer          |-> Value("IsBuffer"),
     napi_create_buffer      |-> made("CreateBuffer"),
     napi_create_buffer_copy |-> made("CreateBufferCopy"),
     napi_create_external_buffer |-> made("CreateBufferExternal"),
     napi_get_buffer_info |-> On(Is("IsBuffer"), "arraybuffer_expected", "Buffer", "GetInfo"),
     napi_object_freeze   |-> On(TypeIs("OBJECT"), "object_expected", "Object", "Freeze"),
     napi_object_seal     |-> On(TypeIs("OBJECT"), "object_expected", "Object", "Seal")]

ViewCalls ==
    LET over(op) == And(Engine(op), Handle(Is("IsArrayBuffer"), "arraybuffer_expected")) IN
    [napi_create_typedarray   |-> over("CreateTypedArray"),
     napi_get_typedarray_info |-> On(Is("IsTypedArray"), "invalid_arg", "TypedArray", "GetInfo"),
     napi_create_dataview     |-> over("CreateDataView"),
     napi_is_dataview         |-> Value("IsDataView"),
     napi_get_dataview_info   |-> On(Is("IsDataView"), "invalid_arg", "DataView", "GetInfo")]

PromiseCalls ==
    [napi_get_version      |-> Engine("version"),
     napi_create_promise   |-> Engine("CreatePromise"),
     napi_resolve_deferred |-> And(Engine("Resolve"), AnyHandle),
     napi_reject_deferred  |-> And(Engine("Reject"), AnyHandle),
     napi_is_promise       |-> Value("IsPromise"),
     napi_set_promise_rejection_callback |-> Engine("SetPromiseRejectCallback"),
     napi_run_script       |-> On(TypeIs("STRING"), "string_expected", "Engine", "RunScript"),
     napi_run_buffer_script |-> Engine("RunBufferScript"),
     napi_run_actor        |-> Engine("RunActor"),
     napi_adjust_external_memory |-> Engine("AdjustExternalMemory")]

\* napi_is_callable to napi_is_map_iterator.
CallableTests ==
    [napi_is_callable |-> Value("IsCallable"), napi_is_arguments_object |-> Value("IsArgumentsObject"),
     napi_is_async_function |-> Value("IsAsyncFunction"), napi_is_boolean_object |-> Value("IsBooleanObject"),
     napi_is_generator_function |-> Value("IsGeneratorFunction"), napi_is_map_iterator |-> Value("IsMapIterator")]

\* napi_is_set_iterator to napi_is_weak_set.
ObjectTests ==
    [napi_is_set_iterator |-> Value("IsSetIterator"), napi_is_generator_object |-> Value("IsGeneratorObject"),
     napi_is_module_namespace_object |-> Value("IsModuleNamespaceObject"), napi_is_proxy |-> Value("IsProxy"),
     napi_is_reg_exp |-> Value("IsRegExp"), napi_is_number_object |-> Value("IsNumberObject"),
     napi_is_map |-> Value("IsMap"), napi_is_set |-> Value("IsSet"), napi_is_string_object |-> Value("IsStringObject"),
     napi_is_symbol_object |-> Value("IsSymbolObject"), napi_is_weak_map |-> Value("IsWeakMap"),
     napi_is_weak_set |-> Value("IsWeakSet")]

\* napi_get_exception_info_for_worker answers invalid_arg when there is none.
WorkerCalls ==
    [napi_create_runtime |-> Engine("CreateRuntime"),
     napi_serialize      |-> And(Value("Serialize"), AnyHandle),
     napi_deserialize    |-> Engine("Deserialize"),
     napi_delete_serialization_data |-> Engine("DeleteSerializationData"),
     napi_get_exception_info_for_worker |-> Failing(Value("GetExceptionForWorker"), "invalid_arg")]

BigIntCalls ==
    LET big(op) == On(TypeIs("BIGINT"), "bigint_expected", "Bigint", op) IN
    [napi_create_bigint_int64 |-> Engine("CreateBigInt"), napi_create_bigint_uint64 |-> Engine("CreateBigUint"),
     napi_get_value_bigint_int64 |-> big("Int64Value"), napi_get_value_bigint_uint64 |-> big("Uint64Value"),
     napi_is_date |-> Value("IsDate")]

\* An object that is no buffer is refused with invalid_arg by an IF of its own.
DetachCalls ==
    LET buffer(op) == [On(TypeIs("OBJECT"), "object_expected", "ArrayBuffer", op)
                       EXCEPT !.again = Handle(Is("IsArrayBuffer"), "invalid_arg")] IN
    [napi_is_detached_arraybuffer |-> buffer("IsDetachedArrayBuffer"),
     napi_get_all_property_names  |-> On(Owner, "object_expected", "Object", "GetAllPropertyNames"),
     napi_detach_arraybuffer      |-> Failing(buffer("DetachArrayBuffer"), "detachable_arraybuffer_expected")]

TagAndDateCalls ==
    LET object(op) == On(TypeIs("OBJECT"), "object_expected", "Object", op) IN
    [napi_type_tag_object       |-> Failing(object("AssociateTypeTag"), "invalid_arg"),
     napi_check_object_type_tag |-> object("CheckTypeTag"),
     napi_create_date           |-> Engine("CreateDate"),
     napi_get_date_value        |-> On(Is("IsDate"), "date_expected", "Date", "GetTime"),
     napi_add_finalizer         |-> object("AddFinalizer")]

\* napi_get_value_bigint_words expects an object by the name of its status.
WordCalls ==
    [napi_create_bigint_words    |-> Engine("CreateBigWords"),
     napi_get_value_bigint_words |-> Failing(On(TypeIs("BIGINT"), "object_expected", "Bigint", "GetWordsArray"), "invalid_arg"),
     napi_run_script_path        |-> Engine("RunScriptPath")]

\* Functions of native_node_api.cpp: they answer napi_ok themselves and leave the last error alone.
QuietCalls ==
    [napi_fatal_exception    |-> Value("TriggerFatalException"),
     napi_create_async_work  |-> And(And(Engine("CreateAsyncWork"), Optional(Anything)), AnyHandle),
     napi_delete_async_work  |-> Engine("delete work"),
     napi_queue_async_work   |-> Engine("Queue"),
     napi_cancel_async_work  |-> Engine("Cancel"),
     napi_get_node_version   |-> Engine("node version"),
     napi_get_uv_event_loop  |-> Engine("GetUVLoop")]

\* An asynchronous context takes an optional resource object and a name.
AsyncContextCalls ==
    [napi_async_init    |-> And(And(Engine("async context"), Optional(Anything)), AnyHandle),
     napi_async_destroy |-> Engine("destroy context")]

API == PlainValues @@ NamedValues @@ TypeAndNumbers @@ StringsAndCoercions @@ PropertyCalls
       @@ NamedPropertyCalls @@ ElementCalls @@ FunctionCalls @@ CallbackCalls @@ WrapCalls
       @@ ExceptionCalls @@ ArrayBufferCalls @@ BufferCalls @@ ViewCalls @@ PromiseCalls
       @@ CallableTests @@ ObjectTests @@ WorkerCalls @@ BigIntCalls @@ DetachCalls
       @@ TagAndDateCalls @@ WordCalls @@ QuietCalls @@ AsyncContextCalls
=============================================================================
