SPECIFICATION ScanSpec
CONSTANTS
    SlotTime = 4
    Correction = 1
    g1 = g1
    g2 = g2
    g3 = g3
    Gateway = {g1, g2, g3}
    NoReading = NoReading
    Rssi = {1, 2}
    Phase <- McPhase
    OwnAsn = {8}
    ListSize = 2
    Period = 14
    Old = 6
    ScanMax = 5
    MaxTime = 24
CHECK_DEADLOCK FALSE
PROPERTIES AsnMatchesUnlessMisdated StrongestSelected
