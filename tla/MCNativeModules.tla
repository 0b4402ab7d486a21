-------------------------- MODULE MCNativeModules --------------------------
(***************************************************************************)
(* Two threads and four libraries: a system library and an application's   *)
(* of the same name; one on a secondary path that needs the first and      *)
(* registers a module of another name, with code but without a callback;   *)
(* and an application's that registers nothing.                            *)
(***************************************************************************)
EXTENDS NativeModules, TLC

CONSTANTS t1, t2

MCNames == {[stem |-> "ui", shape |-> "plain"], [stem |-> "UI", shape |-> "plain"],
            [stem |-> "ui", shape |-> "a file's name"], [stem |-> "net", shape |-> "plain"]}
MCLower == [ui |-> "ui", UI |-> "ui", net |-> "net", other |-> "other"]

Code(name) == {[of |-> name, kind |-> "JS"], [of |-> name, kind |-> "ABC"]}
Registers(name, callback) == <<[name |-> name, callback |-> callback]>>
SystemUi == Path("system", "ui", "lib")
MCLibraries ==
    SystemUi :> [modules |-> Registers("ui", TRUE), needs |-> {}, code |-> Code("ui")]
    @@ Path("app", "UI", "lib") :> [modules |-> Registers("UI", TRUE), needs |-> {}, code |-> {}]
    @@ Path("system", "net", "lib_napi") :>
          [modules |-> Registers("other", FALSE), needs |-> {SystemUi}, code |-> Code("net")]
    @@ Path("app", "net", "lib") :> [modules |-> <<>>, needs |-> {}, code |-> {}]
=============================================================================
