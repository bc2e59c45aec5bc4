CONSTANTS
    mongo = mongo
    mysql = mysql
    dav = dav
    server = server
    here = here
    there = there
    lic = lic
    Targets = {mongo, mysql, dav}
    Hosts = {server}
    Addresses = {here, there}
    Global = {there}
    HostOf <- MCHostOf
    OptsIn = {mysql}
    Carried = {dav}
    Requires <- MCRequires
    Tokens <- MCTokens
    Ids = {lic}
    Configs <- MCConfigs
    Worlds <- MCWorlds
    Asked = 3
    MaxChanges = 2
    NoToken = NoToken
SPECIFICATION Spec
INVARIANT PeersAreValidated
INVARIANT NothingStaysPinned
INVARIANT ScansAreEntitled
INVARIANT ConnectorsArePaidFor
