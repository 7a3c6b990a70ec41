SPECIFICATION Spec
CONSTANTS
    Labels = {"a", "b"}
    MaxShort = 5
    Texts <- MCTexts
INVARIANTS
    TypeOK
    ReadAsGrammar
    ValidIffClosed
    OffersTheSame
    EndsTheSame
CHECK_DEADLOCK FALSE
