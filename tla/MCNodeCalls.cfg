SPECIFICATION Spec
CONSTANTS
    W = 2
    MaxDepth = 3
    Numbers <- NumbersDef
    Bigs <- BigsDef
    WordLists <- WordListsDef
    Texts <- TextsDef
    UnitLists <- UnitListsDef
    Sizes <- SizesDef
    AttributeSets <- AttributeSetsDef
INVARIANTS
    TestsSuffice
    SameVerdict
PROPERTIES
    ThrownReachesCaller
    OnlyOwnExceptions
    ObjectAsAsked
    
    
