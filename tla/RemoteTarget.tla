----------------------------- MODULE RemoteTarget -----------------------------
(***************************************************************************)
(* What the connectors of remote services have in common.  A connector     *)
(* connects, lists the groups of its source (paths, object types, tables,  *)
(* collections, folders), takes the items of each (fields, columns, keys,  *)
(* files) and saves what it detects.  Every request and every save may     *)
(* fail; each connector has its own answer: a failure row for the item,    *)
(* for the group or for the target, or no row at all.                      *)
(*                                                                         *)
(* A run is one thread without shared state, so a step is one request or   *)
(* one save.  The rows about crypto controls and inventory are best effort *)
(* in every connector and left out; so is the filter by file extension.    *)
(***************************************************************************)
EXTENDS Naturals

CONSTANTS
    Kinds,          \* connectors to look at
    Groups,
    Items,
    GroupOf,        \* the group an item is in
    Odd,            \* groups and items the connector treats apart: see InScope, Misfiled
    Root,           \* the folder that a share is listed from
    MaxPages,       \* pages the service has of an object type
    MaxRetries,     \* _MAX_429_RETRIES
    ValueCap,       \* value_sample_limit
    Target, None    \* what a row names for the whole target; no group

ASSUME RemoteAssumption ==
    /\ Kinds \subseteq {"sql", "rest", "hubspot", "powerbi", "dataverse", "mongodb",
                        "redis", "snowflake", "sharepoint", "webdav", "smb"}
    /\ Root \in Groups /\ None \notin Groups
    /\ GroupOf \in [Items -> Groups]
    /\ Odd \subseteq Groups \cup Items
    /\ MaxPages \in Nat \ {0} /\ MaxRetries \in Nat /\ ValueCap \in Nat

VARIABLES
    kind, options,  \* the connector, and which of its options are on
    at,             \* where run() is
    groups, group,  \* groups still to open, and the open one
    items,          \* items still to take
    page,           \* HubSpot: answers had for this object type; Redis: values_sampled
    tries,          \* HubSpot: 429s in a row
    known,          \* of an item: nothing; its name, which is clean; its content too
    rows,           \* what the rows in scan_failures name
    client,
    failed          \* history: requests and saves that failed

vars == <<kind, options, at, groups, group, items, page, tries, known, rows, client, failed>>

Things == Groups \cup Items \cup {Target}

TypeOK ==
    /\ kind \in Kinds /\ options \subseteq {"recursive", "path", "discover"}
    /\ at \in {"connect", "list", "walk", "fetch", "close", "ended"}
    /\ groups \subseteq Groups /\ group \in Groups \cup {None}
    /\ items \subseteq Items
    /\ page \in 0..(MaxPages + ValueCap) /\ tries \in 0..MaxRetries
    /\ known \in [Items -> {"nothing", "name", "sample"}]
    /\ rows \subseteq Things /\ failed \subseteq Things
    /\ client \in {"none", "open", "closed"}

Init ==
    /\ kind \in Kinds
    /\ options \in SUBSET {"recursive", "path", "discover"}
    /\ at = "connect"
    /\ groups = Groups /\ group = None /\ items = {}
    /\ page = 0 /\ tries = 0
    /\ known = [i \in Items |-> "nothing"]
    /\ rows = {} /\ failed = {}
    /\ client = "none"

-----------------------------------------------------------------------------

ItemsIn(g) == {i \in Items : GroupOf[i] = g}
source == <<kind, options>>
place  == <<groups, group, items>>
paging == <<page, tries>>

\* Nothing is wrong.
Fine == UNCHANGED <<rows, failed>>

\* Something failed and the row names it, or another thing, or there is none.
Tell(t, told) == failed' = failed \cup {t} /\ rows' = rows \cup {told}
Swallow(t)    == failed' = failed \cup {t} /\ UNCHANGED rows

\* One handler around everything that follows the connection, or the engine's
\* own: the target gets a row and the rest of it is not looked at.
Abort(t) ==
    /\ Tell(t, Target)
    /\ at' = "close"
    /\ UNCHANGED <<place, known, client, source, paging>>

\* The client is there.
Connected ==
    /\ at = "connect"
    /\ at' = "list" /\ client' = "open" /\ Fine
    /\ UNCHANGED <<place, known, source, paging>>

\* The connection is refused, or the listing: a row, and run() is left.
Refused(c) ==
    /\ Tell(Target, Target)
    /\ client' = c
    /\ at' = "ended"
    /\ UNCHANGED <<place, known, source, paging>>

Listed ==
    /\ at = "list" /\ at' = "walk" /\ Fine
    /\ UNCHANGED <<place, known, client, source, paging>>

\* A group is open when its items have been fetched or listed.  Folders are
\* met in their parent, so after the root.
Opening(g) == at = "walk" /\ group = None /\ g \in groups
Open(g, I) ==
    /\ group' = g /\ groups' = groups \ {g} /\ items' = I
    /\ Fine /\ UNCHANGED <<at, known, client, source, paging>>
PassOver(g) ==
    /\ groups' = groups \ {g}
    /\ UNCHANGED <<at, group, items, known, client, source, paging>>

Taking(i) == at = "walk" /\ group # None /\ i \in items
Take(i, how) ==
    /\ known' = [known EXCEPT ![i] = how]
    /\ items' = items \ {i}
    /\ UNCHANGED <<at, groups, group, client, source, tries>>

\* The open group's other items are not looked at.
DropGroup ==
    /\ at' = "walk" /\ group' = None /\ items' = {}
    /\ page' = 0 /\ tries' = 0
    /\ UNCHANGED <<groups, known, client, source>>

\* Frequent: nothing is caught below the handler around the loop.
ListOrAbort         == at = "list" /\ (Listed \/ Abort(Target))
OpenOrAbort(g, I)   == Opening(g) /\ (Open(g, I) \/ Abort(g))
TakeOrAbort(i, how) == Taking(i) /\ ((Take(i, how) /\ Fine /\ UNCHANGED page) \/ Abort(i))

NotConnected(c) == at = "connect" /\ Refused(c)

LeaveGroup ==
    /\ at = "walk" /\ group # None /\ items = {}
    /\ group' = None
    /\ Fine /\ UNCHANGED <<at, groups, items, known, client, source, paging>>

LeaveWalk ==
    /\ at = "walk" /\ group = None /\ groups = {}
    /\ at' = "close"
    /\ Fine /\ UNCHANGED <<place, known, client, source, paging>>

Close(c) ==
    /\ at = "close"
    /\ at' = "ended" /\ client' = c
    /\ Fine /\ UNCHANGED <<place, known, source, paging>>
=============================================================================
