SPECIFICATION FairSpec
CONSTANTS
    get = get
    foo = foo
    bar = bar
    p1 = p1
    p2 = p2
    r1 = r1
    Builtin <- MCBuiltin
    Other <- MCOther
    StandardId <- MCStandardId
    Hash <- MCHash
    Path <- MCPath
    Price <- MCPrice
    Unpriced = 9
    File <- MCFile
    Config <- MCConfig
    Start <- MCStart
    Unreadable = Unreadable
    NoLimits = NoLimits
    Absent = Absent
    Unlimited = 100000
    MaxNodes = 2
    Request <- MCRequest
    Body <- MCBody
    NoMethod = NoMethod
    MaxEdits = 2
INVARIANTS TypeOK PricesFollowLists ChargedForOwnMethod PublishedIsWhole
PROPERTY LastEditServed
