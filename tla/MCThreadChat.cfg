\* Two sends, a regenerate, swipe or continue and two editors on one thread whose
\* character has no greeting.
SPECIFICATION Spec
CONSTANTS
    Sends = {s1, s2}
    Generations = {g1}
    Editors = {e1, e2}
    Opening = Opening
    Blank <- NoGreeting
    None = None
SYMMETRY Symmetry
CHECK_DEADLOCK FALSE
INVARIANTS RowsBelong
PROPERTIES GenerationsReadThePast
