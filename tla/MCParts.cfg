CONSTANTS
    Readers = {r1, r2}
    Files = {f1, f2}
    RingSize = 3
    Lengths = {0, 1, 2, 4}
    MaxChars = 5
    Rude = FALSE
    Threads = {t1, t2}
    Conns = {c1, c2}
    Vectors = {v1, v2}
    NoVec = NoVec
    NoCons = NoCons
    TotalEntries = 2
    MaxMsgs = 3
    Shared = FALSE
    Keys = {1, 2, 3}
    Word = 2
    HashOf <- MCHashOf
    primes <- MCPrimes
    load_factors <- MCLoadFactors
    MinSizes = {0, 2}
    PointerSize = 2
    PlanB = FALSE
    MaxEntryCount = 3
    Producers = {p1, p2}
    Items = {i1, i2}
    MaxEntries = 2
    EarlySize = 3
    Bytes = {1, 2}
    MaxLen = 3
    Page4KB = 2
    Page2MB = 20
    BssPages = 1
    HeaderSizes = {3, 9}
    ConsSize = 5
    ImageLens = {0, 1, 3}
    Stubborn = FALSE
    MaxPtr = 2
    DescLists <- MCDescLists
    IoLengths = {1, 3}
    MaxListed = 3
    SmallPage = 1
    BigPage = 3
    Gpas = {0, 2, 7}
    Hpas = {20, 30}
    RegionLens = {1, 2, 3, 5, 7}
    SizeWord = 16
    MaxRegions = 2
SPECIFICATION PartsSpec
INVARIANTS
    ConsoleInv
    StreamIntact
    VmRingInv
    KickSafe
    FilesInv
    TransferInv
    QueueBound
    BootInv
    MappedExact
PROPERTIES
    SleeperWakes
    IsMap
    QueueIsFifo
    RingbufIsFifo
CHECK_DEADLOCK FALSE
