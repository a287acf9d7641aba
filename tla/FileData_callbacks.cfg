SPECIFICATION FairSpec
CONSTANTS
    m1 = m1
    m2 = m2
    i1 = i1
    i2 = i2
    Mac <- MCMac
    IP <- MCIP
    NoIP = NoIP
    Nil = Nil
    Header = Header
    Main = Main
    Watcher = Watcher
    Posts = {}
    Callbacks = {c1,c2}
    Contents <- TwoFiles
    MaxInode = 2
    MaxLines = 2
    MaxEvents = 1
INVARIANTS
    TypeOK
    ScanInv
    RegistryFromFile
    SerialRegistryIsCurrent
    SerialInventoryAgrees
    InstalledBootsLocal
PROPERTIES
    EditTakesEffect
