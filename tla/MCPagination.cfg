CONSTANTS
    Items = {a, b}
    LastToken = 3
    MaxPages = 3
    Limit = 1
SPECIFICATION Spec
INVARIANTS AllOrNothing PageBudget AcceptedIffWithinBounds
