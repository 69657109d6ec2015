SPECIFICATION Spec
CONSTANTS
    Ips = {a1, a2}
    Rate = 2
    Burst = 2
    Unit = 3
    MaxBuckets = 1
    KeepFor = 3
    MaxPackets = 2
    MaxTime = 6
    a1 = a1
    a2 = a2
INVARIANTS AdmissionBound RefusalsEnd PacketBound OnlyFloodsCut
CHECK_DEADLOCK FALSE
