CONSTANTS
    root = root  sub = sub
    memo = memo  seven = seven  zip = zip
    ea = ea  eb = eb  ec = ec  ed = ed  ee = ee
    cpf = cpf  date = date
    Patterns = {cpf, date}
    Weak = {date}
    Gated = {cpf}
    Accelerated = {date}
    NoScore = NoScore
    Dirs = {root, sub}
    Root = root
    Nodes = {memo, seven, zip}
    Entries = {ea, eb, ec, ed, ee}
    In <- MCIn
    Kind <- MCKind
    Leads <- MCLeads
    Inside <- MCInside
    Recursive = TRUE
    ScanCompressed = TRUE
    ScanSqlite = TRUE
    MaxMembers = 3
    MaxTotal = 3
    MaxRatio = 3
    MaxInner = 2
    Has7z = TRUE
    Set <- MCSet
    NoJob = NoJob
    Findings <- MCFindings
    Keys = {root, sub}
    KeyOf <- MCKeyOf
    p1 = p1  p2 = p2
    Pushers = {p1, p2}
    op1 = op1  op2 = op2
    tenant = tenant
    Operators = {op1, op2}
    Tenants = {tenant}
    MaxAttempts = 2
    NoRow = NoRow
    NoPush = NoPush
    Worlds <- MCWorlds
    MaxReports = 2
SPECIFICATION Spec
INVARIANT FilesAccountedFor
INVARIANT ArchiveWithinBudget
INVARIANT EchoCoversEveryPlace
PROPERTY ServerScansAreAnnounced
CHECK_DEADLOCK FALSE
