SPECIFICATION Spec
CONSTANTS
    x1 = x1
    x2 = x2
    k1 = k1
    k2 = k2
    dock = dock
    own = own
    a = a
    b = b
    c = c
    s1 = s1
    s2 = s2
    u = u
    v = v
    Runs = {x1, x2}
    Disks = {k1, k2, dock, own}
    Archives = {a, b, c}
    Kiosk = Kiosk
    Orchestrator = Orchestrator
    HostOf <- Plugged
    RootDisk = own
    Recorded = {a}
    DefaultLayout = DefaultLayout
    EspUuid <- Esp
    EfiUuid <- Efi
    Serials = {u, v, DefaultSerial}
    DefaultSerial = DefaultSerial
    NoSerial = NoSerial
    NoDisk = NoDisk
    NoRun = NoRun
    MaxFaults = 1
    Syncs = {s1, s2}
    Fleet = Fleet
    Cached = {b}
    MaxRequests = 2
INVARIANT RestoredIsWhole
INVARIANT NothingLeftMounted
SYMMETRY Interchangeable
CHECK_DEADLOCK FALSE
