SPECIFICATION EvalSpec
CONSTANTS
    None = None
    Empty = Empty
    Blank = Blank
    BadDate = BadDate
    Malformed = Malformed
    NotAnObject = NotAnObject
    ACME = ACME
    Acme = Acme
    Bolt = Bolt
    Folded <- MCFolded
    Lines <- MCLines
    MaxLines = 3
    Edits = 1
    Outcomes <- MCOutcomes
    MinClassification = 66
    MinRouting = 50
    MinFieldF1 = 70
INVARIANTS
    GateIsEarned
    FullMarksPassTheGate
