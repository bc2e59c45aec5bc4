SPECIFICATION EditorSpec
CONSTANTS
    Tabs = {t1, t2}
    Names = {x, y, z}
    Hosts = {"h1", "h2"}
    Passwords = {p1, p2}
    MaxRows = 3
    MaxSaves = 2
    MaxEdits = 2
SYMMETRY Symmetry
INVARIANT UneditedSaveKeepsAll
PROPERTY SavesKeepSecrets
CHECK_DEADLOCK FALSE
