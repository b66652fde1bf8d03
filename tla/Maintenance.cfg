SPECIFICATION MCSpec
CONSTANTS
    s1 = s1
    s2 = s2
    q1 = q1
    q2 = q2
    q3 = q3
    u1 = u1
    u2 = u2
    a = a
    b = b
    c = c
    m1 = m1
    m2 = m2
    f1 = f1
    f2 = f2
    j1 = j1
    j2 = j2
    None = None
    Search = {s1, s2}
    Ask = {q1, q2, q3}
    User = {u1, u2}
    Good = {a, b, c}
    Marketplace = {m1, m2}
    MarketOf <- Offered
    Target <- AskedOn
    Wanted <- ByScan
    ByTitle <- ByCleanup
    Legacy = {s1}
    Lookup = {m1}
    Field = {f1, f2}
    Limit = 2
    Job = {j1, j2}
    MaxRows = 2
    MaxAlerts = 3
    Letters <- MCLetters
    Digits <- MCDigits
    Brands <- MCBrands
    Accessories <- MCAccessories
    ExtraAccessories <- MCExtraAccessories
    Families <- MCFamilies
    LegacyInclusion <- MCLegacyInclusion
    Inclusion <- MCInclusion
    Conjunctions <- MCConjunctions
    Compatibility <- MCCompatibility
    StopWords <- MCStopWords
    ForSale <- MCForSale
    Quantities <- MCQuantities
    Initialisms <- MCInitialisms
    MinScore = 55
INVARIANTS AskedForIsFound StampsAddNobody TwiceOnlyForLegacy
PROPERTIES WantedStays PassesOnlyAdd NothingChosenIsReplaced
SYMMETRY Sessions
CHECK_DEADLOCK FALSE
