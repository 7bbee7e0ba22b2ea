SPECIFICATION Spec
CHECK_DEADLOCK FALSE
CONSTANTS
    Block = 4
    LenBytes = 2
    MaxMessage = 13
    MaxPieces = 3
    WordBytes = 2
    MaxRadix = 3
    BankWords = 64
    Configs <- SomeConfigs
    FwImages <- SomeImages
    HeapBytes = 88
    Align = 8
    RsaBytes = 32
    PkaKeys <- SomeKeys
    MaxVerify = 2
    MaxPkaFaults = 1
    Page = 1024
    RamStart = 64
    RamEnd = 3000
    TrimThreshold = 1500
    IntMax = 9000
    Requests = {20, 200, 700}
    Alignments = {64}
    MaxLive = 3
    MaxAllocs = 5
    ListHeads = {h1, h2}
    ListEntries = {e1, e2, e3}
    NULL = NULL
    GetoptConfigs <- SomeParsers
    ArgWords <- SomeWords
    MaxArgs = 3
    MemLen = 4
    StrBytes = {1, 2}
    UlongMax = 511
    NumberChars = {"-", "0", "x", "1", "5", "6", "f"}
    MaxChars = 4
    Printers = {p1, p2}
    PrintCalls <- SomeCalls
    TbufMax = 7
    IntBits = 4
    LongBits = 6
    IniLines <- SomeIniLines
    MaxIniLines = 3
    INI_MAX_LINE = 10
    MAX_NAME = 4
    MAX_SECTION = 3
    Refused <- SomeRefused
INVARIANT EnginesExact
INVARIANT HeapExact
INVARIANT ListsSound
INVARIANT LibcExact
PROPERTY LibCallsEnd
