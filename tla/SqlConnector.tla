----------------------------- MODULE SqlConnector -----------------------------
(***************************************************************************)
(* SQL databases, in one run without a resume; what a resume finds in the  *)
(* checkpoints is in ScanRun.  Groups are tables, items columns.           *)
(***************************************************************************)
EXTENDS RemoteTarget

\* The driver is missing, the URL or its host is not allowed: the engine was
\* not made, and its pin is released.  A database that does not answer is met
\* later, as the engine connects on first use.
SqlConnect == kind = "sql" /\ (Connected \/ NotConnected("none"))

\* discover() and the completed tables.  A schema's listing ends at the first
\* table whose columns are not to be had, with the tables before it; if nothing
\* was found, the tables without a schema are tried in the same way.
SqlDiscover ==
    /\ kind = "sql"
    /\ \/ ListOrAbort
       \/ /\ at = "list" /\ at' = "walk"
          /\ \E lost \in (SUBSET Groups) \ {{}} :
                groups' = Groups \ lost /\ failed' = failed \cup lost
          /\ UNCHANGED <<rows, group, items, known, client, source, paging>>

\* mark_sql_table_in_progress, and mark_sql_table_completed, may fail.
SqlTable(g) == kind = "sql" /\ OpenOrAbort(g, ItemsIn(g))
SqlMarkFails == kind = "sql" /\ at = "walk" /\ group # None /\ items = {} /\ Abort(group)

SqlColumn(i) == kind = "sql" /\ TakeOrAbort(i, "sample")

\* sample() has told of its failure in a row of its own; then not even the
\* column's name is looked at.  Of a column that may be about minors a second,
\* larger sample is taken, which may fail likewise and changes nothing then.
SqlSampleFails(i) ==
    /\ kind = "sql" /\ Taking(i)
    /\ \E how \in {"nothing", "sample"} : Take(i, how)
    /\ Tell(i, i) /\ UNCHANGED page

\* finally: self.close()
SqlClose == kind = "sql" /\ Close("closed")
=============================================================================
