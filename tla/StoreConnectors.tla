--------------------------- MODULE StoreConnectors ---------------------------
(***************************************************************************)
(* MongoDB, Redis and Snowflake.  Groups are collections and tables, items *)
(* fields, keys and columns.  The checkpoints that Snowflake shares with   *)
(* the SQL connectors are in ScanRun.                                      *)
(***************************************************************************)
EXTENDS RemoteTarget

\* A database name that the driver rejects is found after the client is made;
\* the pin is released, the client is not.
MgConnect == kind = "mongodb" /\ (Connected \/ \E c \in {"none", "open"} : NotConnected(c))

MgCollections == kind = "mongodb" /\ ListOrAbort

\* Fields whose name starts with an underscore are left out.
MgCollection(g) == kind = "mongodb" /\ OpenOrAbort(g, ItemsIn(g) \ Odd)

MgField(i) == kind = "mongodb" /\ TakeOrAbort(i, "sample")

-----------------------------------------------------------------------------

RdConnect == kind = "redis" /\ (Connected \/ NotConnected("none"))

\* scan_iter, up to sample_limit keys.
RdScan ==
    /\ kind = "redis" /\ at = "list"
    /\ \/ /\ at' = "walk" /\ group' = Root /\ groups' = {} /\ items' = Items
          /\ Fine /\ UNCHANGED <<known, client, source, paging>>
       \/ Abort(Target)

\* A key whose name is clean has its value read, while values_sampled is below
\* its limit; an empty value does not count.
RdKey(i) ==
    /\ kind = "redis" /\ Taking(i)
    /\ \/ Take(i, "sample") /\ Fine /\ UNCHANGED page       \* found by name, or empty
       \/ page = ValueCap /\ Take(i, "name") /\ Fine /\ UNCHANGED page
       \/ page < ValueCap /\ i \notin Odd /\ Take(i, "sample") /\ Fine /\ page' = page + 1
       \/ Abort(i)

\* The value has another type than string, or is not to be had.
RdValueMissing(i) ==
    /\ kind = "redis" /\ Taking(i) /\ page < ValueCap
    /\ Take(i, "name") /\ UNCHANGED page
    /\ IF i \in Odd THEN Swallow(i) ELSE Tell(i, i)

\* The types that were met are told in one row.
RdLeave ==
    /\ kind = "redis" /\ at = "walk" /\ items = {}
    /\ at' = "close"
    /\ rows' = rows \cup {t \in {Target} : Odd \cap failed # {}}
    /\ UNCHANGED <<place, known, client, source, paging, failed>>

-----------------------------------------------------------------------------

SfConnect == kind = "snowflake" /\ (Connected \/ NotConnected("none"))

SfTables == kind = "snowflake" /\ ListOrAbort

SfTable(g) == kind = "snowflake" /\ OpenOrAbort(g, ItemsIn(g))

SfColumn(i) == kind = "snowflake" /\ TakeOrAbort(i, "sample")

\* _sample_column answers "" to any exception.
SfSampleFails(i) ==
    /\ kind = "snowflake" /\ Taking(i)
    /\ Swallow(i) /\ Take(i, "name") /\ UNCHANGED page

StoreConnect == MgConnect \/ RdConnect \/ SfConnect
StoreList    == MgCollections \/ RdScan \/ SfTables
StoreGroup(g) == MgCollection(g) \/ SfTable(g)
StoreItem(i)  == MgField(i) \/ RdKey(i) \/ RdValueMissing(i) \/ SfColumn(i) \/ SfSampleFails(i)

\* finally: self.close()
StoreClose == kind \in {"mongodb", "redis", "snowflake"} /\ Close("closed")
=============================================================================
