SPECIFICATION FairSpec
CONSTANTS
    g1 = g1  g2 = g2  g3 = g3  a = a  b = b  c = c  d = d  e = e
    Kinds = {"sql", "rest", "hubspot", "powerbi", "dataverse", "mongodb", "redis", "snowflake", "sharepoint", "webdav", "smb"}
    Groups = {g1, g2, g3}
    Items = {a, b, c, d, e}
    GroupOf <- InGroup
    Odd = {g2, b}
    Root = g1
    MaxPages = 2
    MaxRetries = 2
    ValueCap = 1
    Target = Target  None = None
INVARIANTS
    LossesAreTold
    ServedIsScanned
    ClientsAreClosed
PROPERTY TargetEnds
CHECK_DEADLOCK FALSE
