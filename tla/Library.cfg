\* No part has to go on for ever: a caller ends when it has its answer.
SPECIFICATION MCSpec
CONSTANTS
    MAXU = 63
    RgEnds <- MCEnds
    BYTE = 2
    WORDS <- MCWords
    BmSizes = {3, 5}
    Bytes = {"a", "b"}
    OBJECT = 2
    CHUNK = 3
    MBUF = 3
    UINT32 = 64
    BufMax = 4
    AddMax = 2
    CalYears = {1970, 1999, 2020, 2096}
    CalDays = 2200
    SfYears = {2019, 2020, 2021, 2022, 2023}
    SfSpecs = {"G", "c", "z", "v", "V", "p", "%"}
    SfMods = {"", "_"}
    SfLength = 2
    CONVERT_CAP <- MCCaps
    CvChars = {"0", "1", "7", "f", "x", " ", "-", "+"}
    CvLength = 3
    LENGTHS = 8
    PfFlags <- MCFlags
    PfWidths = {4, 12, 40}
    PfNumbers <- MCNumbers
    PfRoom = {6, 12}
    REP_MIN = 16
    CBO_SIZE = 16
    StdMax = 24
    StdChars = {"a", "b"}
    StdLength = 4
INVARIANTS
    BitmapExact
    RangeExact
    
    NumbersSurvive
    PrintfExact
    StdlibExact
PROPERTIES
    BufferHoldsWhatWasAppended
CHECK_DEADLOCK FALSE
