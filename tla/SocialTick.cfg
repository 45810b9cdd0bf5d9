SPECIFICATION FairSpec
CONSTANTS
    N = 3
    Factions <- MCFactions
    FactionOf <- MCFactionOf
    Places <- MCPlaces
    Exit <- MCExit
    Times <- MCTimes
    Schedule <- MCSchedule
    Home <- MCHome
    CrimeIds = {1, 2}
    Suspicious <- MCSuspicious
    Hostile <- MCHostile
INVARIANTS
    TypeOK
    ReputationOnce
    ReactionsOnce
    RumorsTraceable
PROPERTIES
    UnableStayOut
    WitnessedGetsReported
