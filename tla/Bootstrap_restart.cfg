SPECIFICATION Spec
CONSTANTS
    k1 = k1
    k2 = k2
    given = given
    w1 = w1
    Keys = {k1, k2}
    Passwords = {given, w1}
    Given = given
    None = None
    Empty = Empty
    MaxFaults = 0
PROPERTY ComesBack
