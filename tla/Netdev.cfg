CONSTANTS
    Setups <- MCSetups
    Packets <- MCPackets
    Mtus = {1500, 2047, 2048, 7000}
    Delays = {0, 1, 76, 153}
    FrameCounts = {0, 1, 2, 60, 61}
    Adverts = {"none", "some"}
    MaxEvents = 3  TallyMod = 3
SPECIFICATION Spec
INVARIANTS SettingsReachChip CoalesceAsAsked RequestsFit StatsExact
