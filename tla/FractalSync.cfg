SPECIFICATION Spec
CONSTANTS
    Tile = {0, 1, 2, 3}
    Node = {"nord", "sud", "west", "east", "root"}
    Id = {0, 1, 2, 3, 4, 5, 6, 7}
    Phases = 2
    Level <- MC_Level
    Above <- MC_Above
    Below <- MC_Below
    TilePort <- MC_TilePort
    Request <- MC_Request
    TeamOf <- MC_TeamOf
    Plans <- MC_Plans
INVARIANTS
    NothingLeftOver
PROPERTIES
    IsTeamBarrier
    AllPass
CHECK_DEADLOCK FALSE
