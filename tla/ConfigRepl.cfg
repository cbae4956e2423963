CONSTANTS
    Nil = Nil
    Placeholders <- MCPlaceholders
    Texts <- MCTexts
    Value <- MCValue
    Order <- MCOrder
    Default <- MCDefault
    Settings <- MCSettings
SPECIFICATION MCSpec
INVARIANTS ReplacedExactly LogsWhereSaid
CHECK_DEADLOCK FALSE
