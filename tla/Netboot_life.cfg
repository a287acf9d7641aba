SPECIFICATION FairSpec
CONSTANTS
    m1 = m1
    m2 = m2
    i1 = i1
    i2 = i2
    Mac <- MCMac
    IP <- MCIP
    NoIP = NoIP
    Nil = Nil
    Bios = {m2}
    Booting = {m1}
    Main = Main
    Watcher = Watcher
    Posts = {}
    Versions <- Listings
    Env <- Defaults
    Off = {}
    MaxEdits = 2
    MaxFaults = 1
INVARIANTS
    FilesWhole
PROPERTIES
    RefusedOnlyMeanwhile
    InstallationsEnd
