----------------------------- MODULE MCAdmission -----------------------------
EXTENDS Admission

CONSTANTS mongo, mysql, dav, server, here, there, lic

MCHostOf   == [t \in Targets |-> CHOOSE h \in Hosts : TRUE]
MCRequires == [t \in Targets |-> IF t \in Carried THEN "pro" ELSE "community"]

Good(label, cap) ==
    [signed |-> TRUE, dated |-> TRUE, ids |-> Ids, exp |-> 0, grace |-> 1,
     bound |-> "anywhere", tier |-> label, workers |-> cap]

MCTokens == {Good("pro", 0)}

MCConfigs == [mode : {"open", "enforced"}, strict : {FALSE}, tier : {"enterprise"}]

MCWorld(mode, file, lists) ==
    [cfg |-> [mode |-> mode, strict |-> FALSE, tier |-> "enterprise"], env |-> "open",
     build |-> TRUE, key |-> "good", token |-> file,
     list |-> [kind |-> lists, ids |-> {}], now |-> 1]

MCWorlds ==
    {MCWorld("enforced", Good("community", 1), "verified"), MCWorld("open", NoToken, "unset")}
=============================================================================
