----------------------------- MODULE EcmaScript -----------------------------
(***************************************************************************)
(* What the JavaScript engines under the back ends are trusted to do with  *)
(* numbers, strings and objects: the part of ECMAScript that the classes   *)
(* of src/native_engine/impl call.  Nothing here is code of the            *)
(* repository; the back ends are modelled in terms of it.                  *)
(*                                                                         *)
(* Integers have W bits where the program has 32 and 2 * W where it has    *)
(* 64.  Of an object one named property is modelled, and of an array one   *)
(* element.                                                                *)
(***************************************************************************)
EXTENDS Integers, Sequences, FiniteSets, SequencesExt

CONSTANT W
ASSUME WidthAssumption == W \in Nat \ {0, 1}

Unsigned(bits) == 0 .. 2^bits - 1
Signed(bits)   == -(2^(bits - 1)) .. 2^(bits - 1) - 1
Modulo(n, bits) == n % 2^bits
Wrapped(n, bits) == LET m == Modulo(n, bits) IN IF m < 2^(bits - 1) THEN m ELSE m - 2^bits
Saturated(n, bits) == IF n > 2^(bits - 1) - 1 THEN 2^(bits - 1) - 1
                      ELSE IF n < -(2^(bits - 1)) THEN -(2^(bits - 1)) ELSE n

\* A JavaScript number.  Fractions are cut off by every conversion alike.
Whole(n) == [n |-> n, finite |-> TRUE]
NaN      == [n |-> 0, finite |-> FALSE]
Infinity == [n |-> 1, finite |-> FALSE]

\* The conversions that engines offer; OfDouble is the C cast of a double, undefined out of range.
ToInt32(v)   == IF v.finite THEN Wrapped(v.n, W) ELSE 0
ToUint32(v)  == IF v.finite THEN Modulo(v.n, W) ELSE 0
ToInt64(v)   == IF v.finite THEN Wrapped(v.n, 2 * W) ELSE 0
ToInteger(v) == IF v.finite THEN Saturated(v.n, 2 * W)
                ELSE IF v = NaN THEN 0 ELSE 2^(2 * W - 1) - 1
OfDouble(v, range) == IF v.finite /\ v.n \in range THEN {v.n} ELSE range

\* A string is the sequence of the lengths of its characters in UTF-8; a character
\* of four bytes is a surrogate pair in UTF-16.
Total(lengths) == SumFunction(lengths)
Units(text)    == [i \in DOMAIN text |-> IF text[i] = 4 THEN 2 ELSE 1]
Fitting(lengths, room) ==
    CHOOSE n \in 0 .. Len(lengths) :
        /\ Total(SubSeq(lengths, 1, n)) <= room
        /\ n < Len(lengths) => Total(SubSeq(lengths, 1, n + 1)) > room

\* The characters of a sequence of UTF-16 units; a surrogate without its other half takes three bytes.
LoneSurrogate == 3
Characters(units) ==
    LET Pair(i) == i \in 1 .. Len(units) - 1 /\ units[i] = "high" /\ units[i + 1] = "low"
        Length(i) == CASE units[i] = "plain" -> <<1>>
                       [] Pair(i) -> <<4>>
                       [] i > 1 /\ Pair(i - 1) -> <<>>
                       [] OTHER -> <<LoneSurrogate>> IN
    FoldLeftDomain(LAMBDA text, i : text \o Length(i), <<>>, units)

\* A big integer in words: the words of a base, least first.
InBase(words, base) == SumFunction([i \in DOMAIN words |-> words[i] * base^(i - 1)])

(***************************************************************************)
(* Objects: the property, whether the object may get new ones, its type    *)
(* tag, and whether a handle of it still stands for it.                    *)
(***************************************************************************)
Attributes == {"writable", "enumerable", "configurable"}
Absent == [is |-> "absent"]
Data(value, attributes) == [is |-> "data", value |-> value, attributes |-> attributes]
Accessor(get, set, attributes) == [is |-> "accessor", get |-> get, set |-> set,
                                   attributes |-> attributes \ {"writable"}]

Fresh == [property |-> Absent, extensible |-> TRUE, tag |-> "none", same |-> TRUE]

\* Whether an object takes the definition of a property in full: ValidateAndApplyPropertyDescriptor.
Takes(object, p) ==
    LET old == object.property IN
    IF old = Absent THEN object.extensible
    ELSE \/ "configurable" \in old.attributes
         \/ /\ old.is = p.is
            /\ "configurable" \notin p.attributes
            /\ "enumerable" \in old.attributes <=> "enumerable" \in p.attributes
            /\ IF old.is = "accessor" THEN p.get = old.get /\ p.set = old.set
               ELSE "writable" \in old.attributes \/ (p.value = old.value /\ "writable" \notin p.attributes)

Did(object, answer) == [object |-> object, answer |-> answer]
Define(object, p) == IF Takes(object, p) THEN Did([object EXCEPT !.property = p], TRUE)
                                          ELSE Did(object, FALSE)

\* An assignment: to a property that is there it changes the value alone, or calls the setter.
Assign(object, value) ==
    LET old == object.property IN
    CASE old = Absent -> Define(object, Data(value, Attributes))
      [] old.is = "data" /\ "writable" \in old.attributes -> Did([object EXCEPT !.property.value = value], TRUE)
      [] old.is = "data" /\ "writable" \notin old.attributes -> Did(object, FALSE)
      [] old.is = "accessor" -> Did(object, old.set # "none")

Deleted(object) ==
    IF object.property = Absent \/ "configurable" \in object.property.attributes
    THEN Did([object EXCEPT !.property = Absent], TRUE) ELSE Did(object, FALSE)

Holds(object) == Did(object, object.property # Absent)
ReadOf(object) ==
    CASE object.property = Absent -> "undefined"
      [] object.property.is = "data" -> object.property.value
      [] object.property.is = "accessor" -> object.property.get
Read(object) == Did(object, ReadOf(object))

Stripped(property, attributes) ==
    IF property = Absent THEN property ELSE [property EXCEPT !.attributes = @ \ attributes]
Without(object, attributes) ==
    [object EXCEPT !.extensible = FALSE, !.property = Stripped(@, attributes)]
Sealed(object) == Did(Without(object, {"configurable"}), TRUE)
Frozen(object) == Did(Without(object, {"configurable", "writable"}), TRUE)

\* A tag is two words, and is told from another by both; of ShortTag the upper one is 0.
ShortTag == "upper word 0"
Tags == {"A", "B", ShortTag}

\* A tag is given once; whoever looks for it learns whether it is the one.
Tagged(object, tag)  == IF object.tag = "none" THEN Did([object EXCEPT !.tag = tag], TRUE) ELSE Did(object, FALSE)
HasTag(object, tag)  == Did(object, object.tag = tag)
=============================================================================
