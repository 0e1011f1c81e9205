SPECIFICATION Spec
CONSTANTS
    Cases = {c1, c2}
    AttemptNos = {1, 2}
    Currencies = {usd, inr}
    Amounts = {0, 3}
    Times = {1, 2, 3}
    Float <- Rounded
    FloatMinus <- RoundedMinus
    FloatDivide <- Hundredths
CHECK_DEADLOCK FALSE
SYMMETRY Symmetry
INVARIANTS HalvesAreRight
