SPECIFICATION Spec
CONSTANTS
    m1 = m1
    m2 = m2
    i1 = i1
    i2 = i2
    Mac <- MCMac
    IP <- MCIP
    NoIP = NoIP
    Nil = Nil
    Bios = {}
    Booting = {m1}
    Main = Main
    Watcher = Watcher
    Posts = {}
    Versions <- MCVersions
    Env <- WithoutDHCP
    Off = {}
    MaxEdits = 0
    MaxFaults = 0
INVARIANTS
    DisabledStaysOff
