---------------------------- MODULE MCNodeCalls ----------------------------
EXTENDS NodeCalls

NumbersDef       == {Whole(n) : n \in {-9, -8, -3, -2, -1, 0, 1, 2, 3, 4, 7, 8, 9, 17}} \cup {NaN, Infinity}
BigsDef          == {-17, -16, -9, -8, -1, 0, 1, 7, 8, 15, 16, 17, 31}
WordListsDef     == {<<a>> : a \in {0, 1, 15}} \cup {<<a, b>> : a, b \in {0, 1, 15}}
TextsDef         == UNION {[1 .. n -> {1, 3, 4}] : n \in 0 .. 3}
UnitListsDef     == UNION {[1 .. n -> {"plain", "high", "low"}] : n \in 0 .. 3}
SizesDef         == 0 .. 9
AttributeSetsDef == {{}, {"writable"}, {"configurable"}, {"enumerable", "configurable"}, Attributes}
=============================================================================
