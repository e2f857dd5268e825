SPECIFICATION Spec
CONSTANTS
    Callers = {c1, c2}
    Bg = bg
    MaxExe = 2
    MaxRev = 2
    MaxFails = 1
PROPERTIES
    StampedIsCurrent
    Converges
