------------------------------ MODULE RemoteScan ------------------------------
(***************************************************************************)
(* The run of one remote target, with any of eleven connectors, and what   *)
(* the failure rows must tell about it.                                    *)
(***************************************************************************)
EXTENDS SqlConnector, ApiConnectors, StoreConnectors, ShareConnectors

Next ==
    \/ SqlConnect \/ ApiConnect \/ StoreConnect \/ ShareConnect
    \/ SqlDiscover \/ SqlMarkFails
    \/ ApiList \/ StoreList \/ ShareList \/ ApiFetch
    \/ \E g \in Groups : SqlTable(g) \/ ApiGroup(g) \/ StoreGroup(g) \/ ShareGroup(g)
    \/ \E i \in Items : SqlColumn(i) \/ SqlSampleFails(i) \/ ApiItem(i) \/ StoreItem(i) \/ ShareItem(i)
    \/ (kind # "redis" /\ (LeaveGroup \/ LeaveWalk))
    \/ RdLeave
    \/ SqlClose \/ ApiClose \/ StoreClose \/ ShareClose

Spec == Init /\ [][Next]_vars

\* Connectors that give their client a time limit for the answer.  SharePoint's
\* session and SMB's reads have none, WebDAV's is up to its library, and of the
\* SQL drivers some are given one for connecting only.
Timed == {"rest", "hubspot", "powerbi", "dataverse", "mongodb", "redis", "snowflake"}

\* The thread goes on, and requests end where there is a limit.
FairSpec == Spec /\ WF_vars(kind \in Timed /\ Next)

-----------------------------------------------------------------------------

\* Items that the connector means to look at: not the scalars in a JSON list,
\* nor fields like _id, nor folders below when the listing is flat.
InScope(i) ==
    /\ kind \in {"rest", "mongodb"} => i \notin Odd
    /\ (kind = "sharepoint" \/ (kind \in {"webdav", "smb"} /\ "recursive" \notin options))
            => GroupOf[i] = Root

Told(i) == rows \cap {i, GroupOf[i], Target} # {}

\* Values of Redis keys beyond the limit are left alone.
BeyondLimit(i) == kind = "redis" /\ page = ValueCap

\* The places where a failure leaves no row: listing the tables of a schema,
\* listing folders, what WebDAV takes for something else, Snowflake's samples,
\* Power BI's queries that report an error or are about a table without columns.
Silent(i) ==
    \/ Misfiled(i)
    \/ kind = "sql" /\ GroupOf[i] \in failed
    \/ kind \in {"webdav", "smb"} /\ "recursive" \in options /\ failed \cap {Root, GroupOf[i]} # {}
    \/ kind = "snowflake" /\ i \in failed
    \/ kind = "powerbi" /\ GroupOf[i] \in failed
    \/ kind = "powerbi" /\ GroupOf[i] \in Odd /\ failed \cap ItemsIn(GroupOf[i]) # {}

\* What a target's run did not look into is told by a row for the item, its
\* group or the target, but for the silent places above: whatever fails, in
\* whatever order, a row names it or something around it
\* (save_failure in the connectors' handlers, and the engine's).
LossesAreTold ==
    at = "ended" => \A i \in Items :
        InScope(i) /\ known[i] # "sample" => Told(i) \/ BeyondLimit(i) \/ Silent(i)

\* A service that answers everything is scanned entirely and reported without a
\* failure, but for WebDAV, whose recursive listing below a configured path
\* asks for names that do not exist (webdav_connector.py:235) and which passes
\* over files without a numeric content_length (67-72, 218-219), and but for
\* Redis values that have no text.
ServedIsScanned ==
    at = "ended" /\ failed = {} =>
        \/ kind = "webdav" /\ {"recursive", "path"} \subseteq options
        \/ /\ rows = {}
           /\ \A i \in Items : InScope(i) => known[i] = "sample" \/ BeyondLimit(i) \/ Misfiled(i)

\* No client outlives the run, but for those of the shares, and one whose
\* connect() failed after making it (REST tokens, MongoDB names).
ClientsAreClosed ==
    at = "ended" /\ client = "open" =>
        \/ kind \in {"sharepoint", "webdav", "smb"}
        \/ kind \in {"rest", "mongodb"} /\ rows = {Target} /\ groups = Groups /\ group = None

\* Every run of a connector with time limits ends, whatever fails or stays
\* silent, also when the service answers 429 again and again; that a service's
\* pages end is its own affair (_iter_object_properties follows them without a
\* limit) and a bound here.
TargetEnds == kind \in Timed ~> at = "ended"
=============================================================================
