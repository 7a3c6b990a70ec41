SPECIFICATION Spec
CONSTANTS
    Labels = {"a", "b"}
    MaxShort = 1
    Texts <- NestedTexts
INVARIANTS
    OffersEverywhere
CHECK_DEADLOCK FALSE
