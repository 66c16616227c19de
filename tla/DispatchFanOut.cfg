CONSTANTS
    s1 = s1
    s2 = s2
    s3 = s3
    t1 = t1
    t2 = t2
    Sensors = {s1, s2, s3}
    Trucks = {t1}
    Capacity <- OneTruck
    MaxIntensity = 1
    MaxCopies = 3
    MaxPending = 2
    NoSensor = NoSensor
SPECIFICATION ReliableSpec
SYMMETRY Symmetry
INVARIANTS
    OneFirePerTruckObject
