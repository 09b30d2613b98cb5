SPECIFICATION Spec
CONSTANTS
    p1 = p1
    p2 = p2
    w1 = w1
    NoPin = NoPin
    NoWord = NoWord
    MaxUsers = 3
    Pins = {p1, p2}
    Words = {w1}
    Gesture = 2
INVARIANT WayIn
