CONSTANTS
    Chips = {2, 4, 5, 6, 7, 8, 9, 10, 11, 14, 17, 18, 19, 20, 22, 23, 25, 26, 28, 29, 30, 31, 32, 34, 35, 36,
             37, 39, 40, 42, 44, 48, 51, 52, 53, 61, 63}
    WolChoices = {{}, {"MAGIC", "UCAST", "BCAST", "MCAST"}}
    MaxOps = 2  MaxRaced = 1  Long = {44}  Overlapped = {7, 39}  MaxDisturbed = 1
SPECIFICATION Spec
INVARIANTS ConfigWritesLand GuardedKept NoLostUpdate WolAsAsked EphyWithoutAspm UpAsAsked WakesWhenAsked PagesAsMeant
