---------------------------- MODULE ApiConnectors ----------------------------
(***************************************************************************)
(* REST, HubSpot, Power BI and Dataverse.  Groups are the paths of a REST  *)
(* API, CRM object types, Power BI tables and Dataverse entities; items    *)
(* are the fields in an answer, properties and columns.                    *)
(***************************************************************************)
EXTENDS RemoteTarget

\* connect.  Only ValueError (the guard's, or of a token that is no JSON) is
\* caught, the engine has the others; the client is built before its token is
\* asked for, and close() is in a later handler.
RestConnect == kind = "rest" /\ (Connected \/ \E c \in {"none", "open"} : NotConnected(c))

\* A discover_url that fails, or names no path, ends the run.
RestPaths ==
    /\ kind = "rest" /\ at = "list"
    /\ Listed \/ ("discover" \in options /\ Abort(Target))

\* Of a list, objects are flattened and everything else in it is left out.
RestGet(g) ==
    /\ kind = "rest" /\ Opening(g)
    /\ \/ Open(g, ItemsIn(g) \ Odd)
       \/ (Tell(g, g) /\ PassOver(g))

RestField(i) == kind = "rest" /\ TakeOrAbort(i, "sample")

-----------------------------------------------------------------------------

\* The allow list of hosts, the token and the guard come before the client.
HubConnect == kind = "hubspot" /\ (Connected \/ NotConnected("none"))

\* _object_types: configured, or three by default.
HubObjects == kind = "hubspot" /\ Listed

\* The handler around one object type.
HubTell(t) == Tell(t, group) /\ DropGroup

HubOpen(g) ==
    /\ kind = "hubspot" /\ Opening(g)
    /\ at' = "fetch" /\ group' = g /\ groups' = groups \ {g}
    /\ page' = 0 /\ tries' = 0
    /\ Fine /\ UNCHANGED <<items, known, client, source>>

\* Mutant of HubRetry: attempts are not counted over all waits.
HubRetryForEver ==
    /\ kind = "hubspot" /\ at = "fetch"
    /\ tries' = IF tries < MaxRetries THEN tries + 1 ELSE 0
    /\ Fine /\ UNCHANGED <<at, place, known, client, source, page>>

\* _get_json sleeps after an answer 429 and asks again, MaxRetries times.
HubRetry ==
    /\ kind = "hubspot" /\ at = "fetch"
    /\ \/ /\ tries < MaxRetries
          /\ tries' = tries + 1
          /\ Fine /\ UNCHANGED <<at, place, known, client, source, page>>
       \/ tries = MaxRetries /\ HubTell(group)

HubError == kind = "hubspot" /\ at = "fetch" /\ HubTell(group)

\* The answer to the first request has the properties, the next ones have
\* objects and whether more follow.
HubAnswer ==
    /\ kind = "hubspot" /\ at = "fetch"
    /\ tries' = 0
    /\ \/ /\ page < MaxPages /\ ItemsIn(group) # {}
          /\ page' = page + 1 /\ UNCHANGED <<at, items>>
       \/ /\ page > 0 \/ ItemsIn(group) = {}
          /\ page' = 0 /\ at' = "walk" /\ items' = ItemsIn(group)
    /\ Fine /\ UNCHANGED <<groups, group, known, client, source>>

\* A property is judged by its name and its samples at once.
HubProperty(i) ==
    /\ kind = "hubspot" /\ Taking(i)
    /\ (Take(i, "sample") /\ Fine /\ UNCHANGED page) \/ HubTell(i)

-----------------------------------------------------------------------------

\* Mutant of PbiConnect: the client is built before the token is asked for.
PbiConnectEarly ==
    kind = "powerbi" /\ (Connected \/ \E c \in {"none", "open"} : NotConnected(c))

PbiConnect == kind = "powerbi" /\ (Connected \/ NotConnected("none"))

PbiWorkspaces == kind = "powerbi" /\ ListOrAbort

\* The datasets and tables on the way, and the sample: an HTTP error aborts.
\* An answer that reports an error gives no rows, and columns are judged by
\* name; for a table without columns the rows are all there is, and any
\* exception is ignored.
PbiTable(g) ==
    /\ kind = "powerbi" /\ Opening(g)
    /\ \/ Open(g, ItemsIn(g))
       \/ Abort(g)
       \/ IF g \in Odd THEN Swallow(g) /\ PassOver(g)
          ELSE /\ Swallow(g)
               /\ group' = g /\ groups' = groups \ {g} /\ items' = ItemsIn(g)
               /\ UNCHANGED <<at, known, client, source, paging>>

PbiColumn(i) ==
    /\ kind = "powerbi" /\ Taking(i)
    /\ \/ (Take(i, IF group \in failed THEN "name" ELSE "sample") /\ Fine /\ UNCHANGED page)
       \/ IF group \in Odd THEN Swallow(i) /\ DropGroup ELSE Abort(i)

-----------------------------------------------------------------------------

DvConnect      == kind = "dataverse" /\ (Connected \/ NotConnected("none"))
DvEntities     == kind = "dataverse" /\ ListOrAbort
DvEntity(g)    == kind = "dataverse" /\ OpenOrAbort(g, ItemsIn(g))
DvAttribute(i) == kind = "dataverse" /\ TakeOrAbort(i, "sample")

ApiConnect == RestConnect \/ HubConnect \/ PbiConnect \/ DvConnect
ApiList    == RestPaths \/ HubObjects \/ PbiWorkspaces \/ DvEntities
ApiFetch   == HubRetry \/ HubError \/ HubAnswer
ApiGroup(g) == RestGet(g) \/ HubOpen(g) \/ PbiTable(g) \/ DvEntity(g)
ApiItem(i)  == RestField(i) \/ HubProperty(i) \/ PbiColumn(i) \/ DvAttribute(i)

\* finally: self.close()
ApiClose == kind \in {"rest", "hubspot", "powerbi", "dataverse"} /\ Close("closed")
=============================================================================
