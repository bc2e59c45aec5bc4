SPECIFICATION Spec
CONSTANTS
    r1 = r1  r2 = r2  t1 = t1  t2 = t2  t3 = t3  k1 = k1  k2 = k2
    Requests = {r1, r2}
    KeyHolders = {r1}
    Tokens = {t1, t2, t3}
    Passkeys = {k1, k2}
    MaxCount = 2
    MaxClock = 2
    MaxBoots = 1
    TTL = 1
    NoOne = NoOne
    Paths <- StrayPaths
    SomeRoles = {"admin", "dashboard"}
SYMMETRY Symmetry
INVARIANTS
    PasskeysGoBackToTheKey
    RedirectsEnd
    SentToSignInMaySignIn
    SessionNeverHurts
PROPERTIES
    CeremoniesAreFresh
    CountersNeverFall
    ImplementsPasskeyStore
CHECK_DEADLOCK FALSE
