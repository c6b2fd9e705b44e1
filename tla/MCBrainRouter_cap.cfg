SPECIFICATION Spec
CONSTANTS
    c1 = c1  c2 = c2  c3 = c3
    Callers = {c1, c2, c3}
    Cap = 1
    MaxDay = 1
    MaxPaid = 3
SYMMETRY SlotSymmetry
INVARIANTS
    BrainTypeOK
    CapOverrunBounded
    NeverOvercharged
    AnswersAccounted
