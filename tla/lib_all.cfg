\* The parts of the library, one at a time.  A parser, a file or a login
\* comes to its end and stops there.
CONSTANTS
    None = None
    Root = Root
    k1 = k1
    k2 = k2
    k3 = k3
    OutBytes = {"a", "b"}
    OutSize = 3
    OutMaxLen = 4
    InBytes = {"a", "nl"}
    Terminator = "nl"
    InSize = 2
    InMaxLen = 3
    DigestBlock = 4
    DigestWord = 32
    DigestStream = 2
    DigestMaxLen = 37
    DigestLongest = 31
    HashKeys = {k1, k2, k3}
    HashValues = {"v", "w"}
    HashCodes = {0, 1, 4}
    HashSizes <- SomeSizes
    ByteBase = 4
    ArgsMax = 5
    Commands <- SomeCommands
    Asks <- SomeAsks
    Systems <- SomeSystems
    CryptWords <- SomeWords
    CryptSalts <- SomeSalts
    CryptSaltMax = 3
    CryptDigestLen = 2
    CryptRounds = 4
    CryptKeyMax = 2
    CliOptions <- SomeOptions
    CliWords <- SomeValues
    CliDigits = {"1"}
    CliMaxUses = 2
    CliArgsMin = 0
    CliArgsMax = 1
    StrNames = {"s", "t"}
    StrBytes = {"a", "A"}
    StrSpaces = {"a"}
    StrUpper = {"A"}
    StrLower <- SomeLower
    StrStep = 4
    StrSlackDiv = 4
    StrSlackMax = 16
    StrReps = {1, 2, 3, 4, 5}
    StrNil = 0
    StrMaxText = 4
    StrMaxOperands = 2
    Accounts <- SomeAccounts
    Passwords <- SomePasswords
    Now = 2
SPECIFICATION Spec
CHECK_DEADLOCK FALSE
INVARIANTS
    WrittenInOrder
    ReadInOrder
    HashTableIsMap
    FoundIsStored
    DigestIsOfTheWhole
    OnlyItselfMatches
    RecordSurvives
    RequestAsMeant
    OnlyTheRightful
    OptionsAsMeant
    StringsAreValues
    FormAsMeant
