SPECIFICATION Spec
CONSTANTS
    M = 3
    MaxElapsed = 6
    MaxWrites = 1
    Configs <- MCConfigs
PROPERTIES
    DividesClock
