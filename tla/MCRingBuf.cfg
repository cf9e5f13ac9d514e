SPECIFICATION Spec
CONSTANTS
    Char = {c1, c2}
    Capacity = 4
    Fail = fail
PROPERTIES IsFifo
