SPECIFICATION MCDefault
CONSTANTS
    key1 = key1
    key2 = key2
    val = val
    Nil = Nil
    NotFound = NotFound
    End = End
    MaxKey = 4
    Obj = {key1, key2}
    Value = {val}
    Hash <- MCHash
    Address <- MCAddress
    text1 = text1
    text2 = text2
    text3 = text3
    None = None
    Text = {text1, text2, text3}
    LargeText = {text3}
    TextHash <- MCTextHash
    Page = {1, 2, 3}
    BlockCount = 2
    MinStrTabSize = 1
    MaxHeld = 2
    MaxStrings = 3
    main = main
    co = co
    Thread = {main, co}
    MainThread = main
    MaxCCalls = 4
    HardLimit = 5
    MaxFrames = 3
    Module = {1, 2}
    Export = {1}
    Object = {1, 2, 3, 4}
    NoObject = 0
    MaxLoads = 3
    PageUnits = 2
    BlockUnits = 7
    Reserved = 2
    MaxBlocks = 2
    DataSizes = {0, 1, 3}
    CodeSizes = {1, 2, 4}
    MaxSections = 2
INVARIANTS
    CallsCounted
