SPECIFICATION Spec
CONSTANTS
    N = 3
    Factions <- MCFactions
    FactionOf <- MCFactionOf
    Places <- MCPlaces
    Exit <- MCExit
    Times <- MCTimes
    Schedule <- MCSchedule
    Home <- MCHome
    CrimeIds = {1, 2}
    Suspicious <- MCSuspicious
    Hostile <- MCHostile
INVARIANT AppliedOnce
