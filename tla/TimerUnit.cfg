SPECIFICATION Spec
CONSTANTS
    M = 3
    MaxElapsed = 6
    MaxWrites = 4
    Configs <- MCConfigs
INVARIANTS
    CountsEveryCycle
    ArmedInTime
PROPERTIES
    MatchRaisesIrq
