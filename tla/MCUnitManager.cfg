SPECIFICATION Spec
CONSTANTS
    Units = {"std", "lib"}
    Builtins = {"std"}
    Paths = {".", "share"}
    Here = "."
    MaxWrites = 2
    MaxPaths = 2
INVARIANTS
    EntriesMatchBytes
    SilentOnlyIfSuspect
PROPERTIES
    OneUnitForever
