--------------------------- MODULE RemoteScanProofs ---------------------------
(***************************************************************************)
(* Proofs about RemoteScan, for any groups, items, pages and retries, and  *)
(* each of the eleven connectors.                                          *)
(*                                                                         *)
(* The lemmas before the first theorem are about the steps that connectors *)
(* share; the theorems go through each connector's own.                    *)
(***************************************************************************)
EXTENDS RemoteScan, TLAPS

\* Where run() may be, and what it has at hand there.
PlaceInv ==
    /\ at = "connect" => rows = {} /\ client = "none"
    /\ at \in {"connect", "list"} => group = None
    /\ at \in {"connect", "list"} /\ kind # "webdav" => items = {}
    /\ at = "connect" => items = {} /\ groups = Groups
    /\ at = "list" /\ (kind # "webdav" \/ "recursive" \notin options) => groups = Groups
    /\ at \in {"list", "walk", "fetch", "close"} => client = "open"
    /\ at = "fetch" => kind = "hubspot" /\ group \in Groups
    /\ at = "walk" /\ group = None => items = {}
    /\ kind \in {"hubspot", "powerbi"} => \A i \in items : GroupOf[i] = group
    /\ at = "walk" /\ (kind = "redis" \/ (kind = "smb" /\ "recursive" \notin options)) => groups = {}

\* What may still happen to an item that has not been looked into.
ToDo(i) ==
    \/ i \in items \/ GroupOf[i] \in groups
    \/ at = "fetch" /\ group = GroupOf[i]
    \/ kind = "redis" /\ i \in Odd \cap failed

Settled(i) == known[i] = "sample" \/ Told(i) \/ BeyondLimit(i) \/ Silent(i)

\* No item is dropped without a trace.
LossInv ==
    \A i \in Items : InScope(i) =>
        Settled(i) \/ (at \notin {"close", "ended"} /\ ToDo(i))

DoubledPath == kind = "webdav" /\ {"recursive", "path"} \subseteq options

\* No row tells of a failure that was none.
RowsInv == failed = {} => DoubledPath \/ rows = {}

ScanInv == TypeOK /\ PlaceInv /\ LossInv /\ RowsInv /\ ClientsAreClosed

-----------------------------------------------------------------------------
(* The steps that connectors share.                                        *)

LEMMA InitInv == Init => ScanInv
<1> SUFFICES ASSUME Init PROVE ScanInv
  OBVIOUS
<1>1. TypeOK
  BY RemoteAssumption DEF Init, TypeOK
<1>2. PlaceInv /\ RowsInv /\ ClientsAreClosed
  BY DEF Init, PlaceInv, RowsInv, ClientsAreClosed
<1>3. LossInv
  BY RemoteAssumption DEF Init, LossInv, ToDo
<1> QED
  BY <1>1, <1>2, <1>3 DEF ScanInv

USE DEF source, place, paging, Fine, Things

LEMMA AbortKeeps ==
    ASSUME ScanInv, at \in {"list", "walk"}, NEW t \in Things, Abort(t)
    PROVE  ScanInv'
<1>1. TypeOK'
  BY DEF ScanInv, TypeOK, Abort, Tell
<1>2. PlaceInv'
  BY DEF ScanInv, PlaceInv, Abort, Tell
<1>3. LossInv'
  BY DEF LossInv, Abort, Tell, Settled, Told
<1>4. RowsInv' /\ ClientsAreClosed'
  BY DEF Abort, Tell, RowsInv, ClientsAreClosed
<1> QED
  BY <1>1, <1>2, <1>3, <1>4 DEF ScanInv

LEMMA RefusedKeeps ==
    ASSUME ScanInv, NEW c \in {"none", "open", "closed"}, Refused(c),
           \/ at = "connect" /\ (c = "open" => kind \in {"rest", "mongodb"})
           \/ at = "list" /\ (c = "open" => kind \in {"sharepoint", "webdav", "smb"})
    PROVE  ScanInv'
<1>1. TypeOK'
  BY DEF ScanInv, TypeOK, Refused, Tell
<1>2. PlaceInv'
  BY DEF ScanInv, PlaceInv, Refused, Tell
<1>3. LossInv'
  BY DEF LossInv, Refused, Tell, Settled, Told
<1>4. RowsInv'
  BY DEF Refused, Tell, RowsInv
<1>5. ClientsAreClosed'
  BY DEF ScanInv, PlaceInv, Refused, Tell, ClientsAreClosed
<1> QED
  BY <1>1, <1>2, <1>3, <1>4, <1>5 DEF ScanInv

\* What is settled stays so.
LEMMA SettledStays ==
    ASSUME NEW i \in Items, Settled(i), UNCHANGED source,
           rows \subseteq rows', failed \subseteq failed',
           known'[i] \in {known[i], "sample"},
           kind = "redis" /\ page = ValueCap => page' = ValueCap
    PROVE  Settled(i)'
<1>1. CASE known[i] = "sample"
  BY <1>1 DEF Settled
<1>2. CASE Told(i)
  BY <1>2 DEF Settled, Told
<1>3. CASE BeyondLimit(i)
  BY <1>3 DEF Settled, BeyondLimit
<1>4. CASE Silent(i)
  <2>1. Silent(i)'
    BY <1>4 DEF Silent, Misfiled
  <2> QED
    BY <2>1 DEF Settled
<1> QED
  BY <1>1, <1>2, <1>3, <1>4 DEF Settled

\* Enough for LossInv: everything settled stays settled, and what leaves the
\* list of things to do is settled.
LEMMA LossStays ==
    ASSUME LossInv, UNCHANGED source, rows \subseteq rows', failed \subseteq failed',
           kind = "redis" /\ page = ValueCap => page' = ValueCap,
           \A i \in Items : known'[i] \in {known[i], "sample"} \/ (InScope(i) => Settled(i)'),
           \A i \in Items : InScope(i) /\ at \notin {"close", "ended"} /\ ToDo(i) =>
               Settled(i)' \/ (at' \notin {"close", "ended"} /\ ToDo(i)'),
           at \in {"close", "ended"} => at' \in {"close", "ended"}
    PROVE  LossInv'
<1> SUFFICES ASSUME NEW i \in Items, InScope(i)'
             PROVE  (Settled(i) \/ (at \notin {"close", "ended"} /\ ToDo(i)))'
  BY DEF LossInv
<1>1. InScope(i)
  BY DEF InScope
<1>2. Settled(i) => Settled(i)'
  BY <1>1, SettledStays
<1> QED
  BY <1>1, <1>2 DEF LossInv

LEMMA ConnectedKeeps == ASSUME ScanInv, Connected PROVE ScanInv'
<1>1. TypeOK' /\ PlaceInv' /\ RowsInv' /\ ClientsAreClosed'
  BY DEF ScanInv, TypeOK, PlaceInv, RowsInv, DoubledPath, ClientsAreClosed, Connected
<1>2. \A i \in Items : ToDo(i) /\ at \notin {"close", "ended"} => ToDo(i)' /\ at' \notin {"close", "ended"}
  BY DEF Connected, ToDo
<1>3. LossInv'
  BY <1>2, LossStays DEF ScanInv, Connected
<1> QED
  BY <1>1, <1>3 DEF ScanInv

LEMMA ListedKeeps ==
    ASSUME ScanInv, Listed, kind \notin {"redis", "webdav"},
           kind = "smb" => "recursive" \in options
    PROVE  ScanInv'
<1>1. TypeOK' /\ PlaceInv' /\ RowsInv' /\ ClientsAreClosed'
  BY DEF ScanInv, TypeOK, PlaceInv, RowsInv, DoubledPath, ClientsAreClosed, Listed
<1>2. \A i \in Items : ToDo(i) /\ at \notin {"close", "ended"} => ToDo(i)' /\ at' \notin {"close", "ended"}
  BY DEF Listed, ToDo
<1>3. LossInv'
  BY <1>2, LossStays DEF ScanInv, Listed
<1> QED
  BY <1>1, <1>3 DEF ScanInv

\* A group is opened with those of its items that are in scope.
LEMMA OpenKeeps ==
    ASSUME ScanInv, NEW g \in Groups, Opening(g), NEW I, Open(g, I), I \subseteq ItemsIn(g),
           \A i \in ItemsIn(g) : InScope(i) => i \in I
    PROVE  ScanInv'
<1> USE RemoteAssumption DEF Opening, Open
<1>1. TypeOK'
  BY DEF ScanInv, TypeOK, ItemsIn
<1>2. PlaceInv'
  BY DEF ScanInv, PlaceInv, ItemsIn
<1>3. LossInv'
  <2>1. \A i \in Items : InScope(i) /\ ToDo(i) => ToDo(i)'
    BY DEF ScanInv, PlaceInv, ToDo, ItemsIn
  <2> QED
    BY <2>1, LossStays DEF ScanInv
<1>4. RowsInv' /\ ClientsAreClosed'
  BY DEF ScanInv, RowsInv, DoubledPath, ClientsAreClosed
<1> QED
  BY <1>1, <1>2, <1>3, <1>4 DEF ScanInv

\* An item is looked into.
LEMMA TakeKeeps ==
    ASSUME ScanInv, NEW i \in Items, Taking(i), Take(i, "sample"), Fine,
           page' \in 0..(MaxPages + ValueCap),
           kind = "redis" /\ page = ValueCap => page' = ValueCap
    PROVE  ScanInv'
<1> USE DEF Taking, Take
<1>1. TypeOK'
  BY DEF ScanInv, TypeOK
<1>2. PlaceInv'
  BY DEF ScanInv, PlaceInv
<1>3. LossInv'
  <2>1. known'[i] = "sample" /\ \A j \in Items : j # i => known'[j] = known[j]
    BY DEF ScanInv, TypeOK
  <2>2. Settled(i)'
    BY <2>1 DEF Settled
  <2>3. \A j \in Items : j # i /\ ToDo(j) => ToDo(j)'
    BY DEF ToDo
  <2>4. \A j \in Items : known'[j] \in {known[j], "sample"}
    BY <2>1
  <2> QED
    BY <2>2, <2>3, <2>4, LossStays DEF ScanInv
<1>4. RowsInv' /\ ClientsAreClosed'
  BY DEF ScanInv, RowsInv, DoubledPath, ClientsAreClosed
<1> QED
  BY <1>1, <1>2, <1>3, <1>4 DEF ScanInv

LEMMA LeaveKeeps ==
    ASSUME ScanInv, kind # "redis", LeaveGroup \/ LeaveWalk PROVE ScanInv'
<1> USE DEF LeaveGroup, LeaveWalk
<1>1. TypeOK' /\ RowsInv' /\ ClientsAreClosed'
  BY DEF ScanInv, TypeOK, RowsInv, DoubledPath, ClientsAreClosed
<1>2. PlaceInv'
  BY RemoteAssumption DEF ScanInv, PlaceInv
<1>3. \A i \in Items : ToDo(i) => ToDo(i)' /\ at' = "walk"
  <2>1. CASE LeaveGroup
    BY <2>1 DEF ToDo
  <2>2. CASE LeaveWalk
    BY <2>2 DEF ScanInv, PlaceInv, ToDo
  <2> QED
    BY <2>1, <2>2
<1>4. LossInv'
  BY <1>3, LossStays DEF ScanInv
<1> QED
  BY <1>1, <1>2, <1>4 DEF ScanInv

LEMMA CloseKeeps ==
    ASSUME ScanInv, NEW c \in {"none", "open", "closed"}, Close(c),
           c = "open" => kind \in {"sharepoint", "webdav", "smb"}
    PROVE  ScanInv'
<1> USE DEF Close
<1>1. TypeOK' /\ PlaceInv' /\ RowsInv' /\ ClientsAreClosed'
  BY DEF ScanInv, TypeOK, PlaceInv, RowsInv, DoubledPath, ClientsAreClosed
<1>2. LossInv'
  BY LossStays DEF ScanInv
<1> QED
  BY <1>1, <1>2 DEF ScanInv

\* The common shapes of a connector's steps.
LEMMA ListOrAbortKeeps ==
    ASSUME ScanInv, ListOrAbort, kind \notin {"redis", "webdav", "smb"} PROVE ScanInv'
BY AbortKeeps, ListedKeeps DEF ListOrAbort

LEMMA OpenOrAbortKeeps ==
    ASSUME ScanInv, NEW g \in Groups, NEW I, OpenOrAbort(g, I), I \subseteq ItemsIn(g),
           \A i \in ItemsIn(g) : InScope(i) => i \in I
    PROVE  ScanInv'
BY AbortKeeps, OpenKeeps DEF OpenOrAbort, Opening

LEMMA TakeOrAbortKeeps ==
    ASSUME ScanInv, NEW i \in Items, TakeOrAbort(i, "sample") PROVE ScanInv'
<1>1. page \in 0..(MaxPages + ValueCap)
  BY DEF ScanInv, TypeOK
<1> QED
  BY <1>1, AbortKeeps, TakeKeeps DEF TakeOrAbort, Taking

LEMMA NotConnectedKeeps ==
    ASSUME ScanInv, NEW c \in {"none", "open", "closed"}, NotConnected(c),
           c = "open" => kind \in {"rest", "mongodb"}
    PROVE  ScanInv'
BY RefusedKeeps DEF NotConnected

-----------------------------------------------------------------------------
(* SQL databases.                                                          *)

LEMMA SqlDiscoverKeeps == ASSUME ScanInv, SqlDiscover PROVE ScanInv'
<1>1. CASE ListOrAbort
  BY <1>1, ListOrAbortKeeps DEF SqlDiscover
<1>2. CASE ~ListOrAbort
  <2> USE <1>2 DEF SqlDiscover
  <2>1. PICK lost \in (SUBSET Groups) \ {{}} : groups' = Groups \ lost /\ failed' = failed \cup lost
    OBVIOUS
  <2>2. TypeOK' /\ PlaceInv' /\ RowsInv' /\ ClientsAreClosed'
    BY <2>1 DEF ScanInv, TypeOK, PlaceInv, RowsInv, ClientsAreClosed
  <2>3. \A i \in Items : Settled(i)' \/ (at' = "walk" /\ ToDo(i)')
    BY <2>1, RemoteAssumption DEF ToDo, Settled, Silent
  <2>4. LossInv'
    BY <2>3 DEF LossInv
  <2> QED
    BY <2>2, <2>4 DEF ScanInv
<1> QED
  BY <1>1, <1>2

LEMMA SqlSampleFailsKeeps == ASSUME ScanInv, NEW i \in Items, SqlSampleFails(i) PROVE ScanInv'
<1> USE DEF SqlSampleFails, Taking, Take, Tell
<1>1. TypeOK' /\ PlaceInv' /\ RowsInv' /\ ClientsAreClosed'
  BY DEF ScanInv, TypeOK, PlaceInv, RowsInv, ClientsAreClosed
<1>2. Settled(i)'
  BY DEF Settled, Told
<1>3. \A j \in Items : j # i => known'[j] = known[j]
  BY DEF ScanInv, TypeOK
<1>4. \A j \in Items : j # i /\ ToDo(j) => ToDo(j)'
  BY DEF ToDo
<1>5. LossInv'
  BY <1>2, <1>3, <1>4, LossStays DEF ScanInv
<1> QED
  BY <1>1, <1>5 DEF ScanInv

LEMMA SqlKeeps ==
    ASSUME ScanInv,
           \/ SqlConnect \/ SqlDiscover \/ SqlMarkFails \/ SqlClose
           \/ \E g \in Groups : SqlTable(g)
           \/ \E i \in Items : SqlColumn(i) \/ SqlSampleFails(i)
    PROVE  ScanInv'
<1>1. CASE SqlConnect
  BY <1>1, ConnectedKeeps, NotConnectedKeeps DEF SqlConnect
<1>2. CASE SqlDiscover
  BY <1>2, SqlDiscoverKeeps
<1>3. CASE SqlMarkFails
  BY <1>3, AbortKeeps DEF SqlMarkFails, ScanInv, TypeOK
<1>4. CASE SqlClose
  BY <1>4, CloseKeeps DEF SqlClose
<1>5. CASE \E g \in Groups : SqlTable(g)
  BY <1>5, OpenOrAbortKeeps DEF SqlTable
<1>6. CASE \E i \in Items : SqlColumn(i) \/ SqlSampleFails(i)
  BY <1>6, TakeOrAbortKeeps, SqlSampleFailsKeeps DEF SqlColumn
<1> QED
  BY <1>1, <1>2, <1>3, <1>4, <1>5, <1>6

-----------------------------------------------------------------------------
(* REST, HubSpot, Power BI and Dataverse.                                  *)

LEMMA RestKeeps ==
    ASSUME ScanInv, RestConnect \/ RestPaths \/ (\E g \in Groups : RestGet(g)) \/ (\E i \in Items : RestField(i))
    PROVE  ScanInv'
<1>1. CASE RestConnect
  BY <1>1, ConnectedKeeps, NotConnectedKeeps DEF RestConnect
<1>2. CASE RestPaths
  BY <1>2, ListedKeeps, AbortKeeps DEF RestPaths
<1>3. CASE \E g \in Groups : RestGet(g)
  <2>1. PICK g \in Groups : RestGet(g)
    BY <1>3
  <2>2. CASE Open(g, ItemsIn(g) \ Odd)
    <3>1. \A i \in ItemsIn(g) : InScope(i) => i \in ItemsIn(g) \ Odd
      BY <2>1 DEF RestGet, InScope
    <3> QED
      BY <2>1, <2>2, <3>1, OpenKeeps DEF RestGet
  <2>3. CASE Tell(g, g) /\ PassOver(g)
    <3> USE <2>1, <2>3 DEF RestGet, Opening, Tell, PassOver
    <3>1. TypeOK' /\ PlaceInv' /\ RowsInv' /\ ClientsAreClosed'
      BY DEF ScanInv, TypeOK, PlaceInv, RowsInv, ClientsAreClosed
    <3>2. \A i \in Items : GroupOf[i] = g => Settled(i)'
      BY DEF Settled, Told
    <3>3. \A i \in Items : ToDo(i) /\ GroupOf[i] # g => ToDo(i)'
      BY RemoteAssumption DEF ToDo
    <3>4. \A i \in Items : InScope(i) /\ ToDo(i) => Settled(i)' \/ ToDo(i)'
      BY <3>2, <3>3
    <3>5. LossInv'
      BY <3>4, LossStays DEF ScanInv
    <3> QED
      BY <3>1, <3>5 DEF ScanInv
  <2> QED
    BY <2>1, <2>2, <2>3 DEF RestGet
<1>4. CASE \E i \in Items : RestField(i)
  BY <1>4, TakeOrAbortKeeps DEF RestField
<1> QED
  BY <1>1, <1>2, <1>3, <1>4

\* The row of a group covers what is left of it.
LEMMA HubTellKeeps ==
    ASSUME ScanInv, kind = "hubspot", at \in {"walk", "fetch"}, group \in Groups,
           NEW t \in Things, HubTell(t)
    PROVE  ScanInv'
<1> USE DEF HubTell, DropGroup, Tell
<1>1. TypeOK' /\ PlaceInv' /\ RowsInv' /\ ClientsAreClosed'
  BY RemoteAssumption DEF ScanInv, TypeOK, PlaceInv, RowsInv, ClientsAreClosed
<1>2. \A i \in Items : i \in items \/ (at = "fetch" /\ group = GroupOf[i]) => Settled(i)'
  BY DEF ScanInv, PlaceInv, Settled, Told
<1>3. \A i \in Items : ToDo(i) => Settled(i)' \/ ToDo(i)'
  BY <1>2 DEF ToDo
<1>4. LossInv'
  BY <1>3, LossStays DEF ScanInv
<1> QED
  BY <1>1, <1>4 DEF ScanInv

LEMMA HubFetchKeeps == ASSUME ScanInv, HubRetry \/ HubError \/ HubAnswer PROVE ScanInv'
<1>1. CASE HubError \/ (HubRetry /\ HubTell(group))
  <2>1. group \in Groups
    BY <1>1 DEF ScanInv, PlaceInv, HubError, HubRetry
  <2> QED
    BY <1>1, <2>1, HubTellKeeps DEF HubError, HubRetry
<1>2. CASE HubRetry /\ ~HubTell(group)
  <2> USE <1>2 DEF HubRetry
  <2>0. tries \in 0..MaxRetries /\ MaxRetries \in Nat
    BY RemoteAssumption DEF ScanInv, TypeOK
  <2>1. tries' \in 0..MaxRetries
    BY <2>0
  <2>2. TypeOK'
    BY <2>1 DEF ScanInv, TypeOK
  <2>3. PlaceInv'
    BY DEF ScanInv, PlaceInv
  <2>4. RowsInv' /\ ClientsAreClosed'
    BY DEF ScanInv, RowsInv, DoubledPath, ClientsAreClosed
  <2>5. \A i \in Items : ToDo(i) => ToDo(i)'
    BY DEF ToDo
  <2>6. LossInv'
    BY <2>5, LossStays DEF ScanInv
  <2> QED
    BY <2>2, <2>3, <2>4, <2>6 DEF ScanInv
<1>3. CASE HubAnswer
  <2> USE <1>3 DEF HubAnswer
  <2>0. page \in 0..(MaxPages + ValueCap) /\ MaxPages \in Nat \ {0} /\ ValueCap \in Nat /\ MaxRetries \in Nat
    BY RemoteAssumption DEF ScanInv, TypeOK
  <2>1. TypeOK'
    <3>1. page' \in 0..(MaxPages + ValueCap) /\ tries' \in 0..MaxRetries
      BY <2>0
    <3>2. ItemsIn(group) \subseteq Items
      BY DEF ItemsIn
    <3> QED
      BY <3>1, <3>2 DEF ScanInv, TypeOK
  <2>2. PlaceInv' /\ RowsInv' /\ ClientsAreClosed'
    BY RemoteAssumption DEF ScanInv, PlaceInv, RowsInv, DoubledPath, ClientsAreClosed, ItemsIn
  <2>3. \A i \in Items : ToDo(i) => ToDo(i)'
    BY DEF ScanInv, PlaceInv, ToDo, ItemsIn
  <2>4. LossInv'
    BY <2>3, LossStays DEF ScanInv
  <2> QED
    BY <2>1, <2>2, <2>4 DEF ScanInv
<1> QED
  BY <1>1, <1>2, <1>3

LEMMA HubKeeps ==
    ASSUME ScanInv, HubConnect \/ HubObjects \/ (\E g \in Groups : HubOpen(g)) \/ (\E i \in Items : HubProperty(i))
    PROVE  ScanInv'
<1>1. CASE HubConnect
  BY <1>1, ConnectedKeeps, NotConnectedKeeps DEF HubConnect
<1>2. CASE HubObjects
  BY <1>2, ListedKeeps DEF HubObjects
<1>3. CASE \E g \in Groups : HubOpen(g)
  <2>1. PICK g \in Groups : HubOpen(g)
    BY <1>3
  <2> USE <2>1 DEF HubOpen, Opening
  <2>2. TypeOK' /\ PlaceInv' /\ RowsInv' /\ ClientsAreClosed'
    BY RemoteAssumption DEF ScanInv, TypeOK, PlaceInv, RowsInv, DoubledPath, ClientsAreClosed
  <2>3. \A i \in Items : ToDo(i) => ToDo(i)'
    BY DEF ToDo
  <2>4. LossInv'
    BY <2>3, LossStays DEF ScanInv
  <2> QED
    BY <2>2, <2>4 DEF ScanInv
<1>4. CASE \E i \in Items : HubProperty(i)
  <2>1. PICK i \in Items : HubProperty(i)
    BY <1>4
  <2>2. group \in Groups /\ page \in 0..(MaxPages + ValueCap)
    BY <2>1 DEF ScanInv, TypeOK, HubProperty, Taking
  <2> QED
    BY <2>1, <2>2, TakeKeeps, HubTellKeeps DEF HubProperty, Taking
<1> QED
  BY <1>1, <1>2, <1>3, <1>4

LEMMA PbiTableKeeps == ASSUME ScanInv, NEW g \in Groups, PbiTable(g) PROVE ScanInv'
<1>1. CASE Open(g, ItemsIn(g)) \/ Abort(g)
  BY <1>1, OpenKeeps, AbortKeeps DEF PbiTable, Opening
<1>2. CASE g \in Odd /\ Swallow(g) /\ PassOver(g)
  <2> USE <1>2 DEF PbiTable, Opening, Swallow, PassOver
  <2>1. TypeOK' /\ PlaceInv' /\ RowsInv' /\ ClientsAreClosed'
    BY DEF ScanInv, TypeOK, PlaceInv, RowsInv, ClientsAreClosed
  <2>2. \A i \in Items : GroupOf[i] = g => Settled(i)'
    BY DEF Settled, Silent
  <2>3. \A i \in Items : ToDo(i) => Settled(i)' \/ ToDo(i)'
    BY <2>2, RemoteAssumption DEF ToDo
  <2>4. LossInv'
    BY <2>3, LossStays DEF ScanInv
  <2> QED
    BY <2>1, <2>4 DEF ScanInv
<1>3. CASE /\ g \notin Odd /\ Swallow(g)
           /\ group' = g /\ groups' = groups \ {g} /\ items' = ItemsIn(g)
           /\ UNCHANGED <<at, known, client, source, paging>>
  <2> USE <1>3, RemoteAssumption DEF PbiTable, Opening, Swallow
  <2>1. TypeOK' /\ PlaceInv' /\ RowsInv' /\ ClientsAreClosed'
    BY DEF ScanInv, TypeOK, PlaceInv, RowsInv, ClientsAreClosed, ItemsIn
  <2>2. \A i \in Items : ToDo(i) => ToDo(i)'
    BY DEF ScanInv, PlaceInv, ToDo, ItemsIn
  <2>3. LossInv'
    BY <2>2, LossStays DEF ScanInv
  <2> QED
    BY <2>1, <2>3 DEF ScanInv
<1> QED
  BY <1>1, <1>2, <1>3 DEF PbiTable

LEMMA PbiColumnKeeps == ASSUME ScanInv, NEW i \in Items, PbiColumn(i) PROVE ScanInv'
<1> USE DEF PbiColumn, Taking
<1>1. GroupOf[i] = group /\ group \in Groups
  BY DEF ScanInv, TypeOK, PlaceInv
<1>2. page \in 0..(MaxPages + ValueCap)
  BY DEF ScanInv, TypeOK
<1>3. CASE group \notin failed /\ Take(i, "sample") /\ Fine /\ UNCHANGED page
  BY <1>2, <1>3, TakeKeeps
<1>4. CASE group \in failed /\ Take(i, "name") /\ Fine /\ UNCHANGED page
  <2> USE <1>4 DEF Take
  <2>1. TypeOK' /\ PlaceInv' /\ RowsInv' /\ ClientsAreClosed'
    BY DEF ScanInv, TypeOK, PlaceInv, RowsInv, DoubledPath, ClientsAreClosed
  <2>2. Settled(i)'
    BY <1>1 DEF Settled, Silent
  <2>3. \A j \in Items : j # i => known'[j] = known[j]
    BY DEF ScanInv, TypeOK
  <2>4. \A j \in Items : j # i /\ ToDo(j) => ToDo(j)'
    BY DEF ToDo
  <2>5. LossInv'
    BY <2>2, <2>3, <2>4, LossStays DEF ScanInv
  <2> QED
    BY <2>1, <2>5 DEF ScanInv
<1>5. CASE group \in Odd /\ Swallow(i) /\ DropGroup
  <2> USE <1>5 DEF Swallow, DropGroup
  <2>1. TypeOK' /\ PlaceInv' /\ RowsInv' /\ ClientsAreClosed'
    BY RemoteAssumption DEF ScanInv, TypeOK, PlaceInv, RowsInv, ClientsAreClosed
  <2>2. \A j \in items : Settled(j)'
    <3>1. \A j \in items : j \in Items /\ GroupOf[j] = group
      BY DEF ScanInv, TypeOK, PlaceInv
    <3>2. i \in ItemsIn(group) /\ i \in failed'
      BY <1>1 DEF ItemsIn
    <3> QED
      BY <3>1, <3>2 DEF Settled, Silent
  <2>3. \A j \in Items : ToDo(j) => Settled(j)' \/ ToDo(j)'
    BY <2>2 DEF ToDo
  <2>4. LossInv'
    BY <2>3, LossStays DEF ScanInv
  <2> QED
    BY <2>1, <2>4 DEF ScanInv
<1>6. CASE Abort(i)
  BY <1>6, AbortKeeps
<1> QED
  BY <1>3, <1>4, <1>5, <1>6

LEMMA ApiKeeps ==
    ASSUME ScanInv,
           \/ ApiConnect \/ ApiList \/ ApiFetch \/ ApiClose
           \/ \E g \in Groups : ApiGroup(g)
           \/ \E i \in Items : ApiItem(i)
    PROVE  ScanInv'
<1>1. CASE ApiConnect
  <2>1. CASE PbiConnect \/ DvConnect
    BY <2>1, ConnectedKeeps, NotConnectedKeeps DEF PbiConnect, DvConnect
  <2> QED
    BY <1>1, <2>1, RestKeeps, HubKeeps DEF ApiConnect
<1>2. CASE ApiList
  <2>1. CASE PbiWorkspaces \/ DvEntities
    BY <2>1, ListOrAbortKeeps DEF PbiWorkspaces, DvEntities
  <2> QED
    BY <1>2, <2>1, RestKeeps, HubKeeps DEF ApiList
<1>3. CASE ApiFetch
  BY <1>3, HubFetchKeeps DEF ApiFetch
<1>4. CASE ApiClose
  BY <1>4, CloseKeeps DEF ApiClose
<1>5. CASE \E g \in Groups : ApiGroup(g)
  <2>1. PICK g \in Groups : ApiGroup(g)
    BY <1>5
  <2>2. CASE DvEntity(g)
    BY <2>2, OpenOrAbortKeeps DEF DvEntity
  <2> QED
    BY <2>1, <2>2, RestKeeps, HubKeeps, PbiTableKeeps DEF ApiGroup
<1>6. CASE \E i \in Items : ApiItem(i)
  <2>1. PICK i \in Items : ApiItem(i)
    BY <1>6
  <2>2. CASE DvAttribute(i)
    BY <2>2, TakeOrAbortKeeps DEF DvAttribute
  <2> QED
    BY <2>1, <2>2, RestKeeps, HubKeeps, PbiColumnKeeps DEF ApiItem
<1> QED
  BY <1>1, <1>2, <1>3, <1>4, <1>5, <1>6

-----------------------------------------------------------------------------
(* MongoDB, Redis and Snowflake.                                           *)

LEMMA RdScanKeeps == ASSUME ScanInv, RdScan PROVE ScanInv'
<1>1. CASE Abort(Target)
  BY <1>1, AbortKeeps DEF RdScan
<1>2. CASE ~Abort(Target)
  <2> USE <1>2, RemoteAssumption DEF RdScan
  <2>1. TypeOK' /\ PlaceInv' /\ RowsInv' /\ ClientsAreClosed'
    BY DEF ScanInv, TypeOK, PlaceInv, RowsInv, DoubledPath, ClientsAreClosed
  <2>2. \A i \in Items : ToDo(i)'
    BY DEF ToDo
  <2>3. LossInv'
    BY <2>2, LossStays DEF ScanInv
  <2> QED
    BY <2>1, <2>3 DEF ScanInv
<1> QED
  BY <1>1, <1>2

\* A key is left with its name alone at the limit of values, or because of a
\* failure that is told, at once or at the end.
LEMMA RdNameKeeps ==
    ASSUME ScanInv, kind = "redis", NEW i \in Items, Taking(i), Take(i, "name"), UNCHANGED page,
           \/ page = ValueCap /\ Fine
           \/ i \in Odd /\ Swallow(i)
           \/ i \notin Odd /\ Tell(i, i)
    PROVE  ScanInv'
<1> USE DEF Taking, Take, Swallow, Tell
<1>1. TypeOK' /\ PlaceInv' /\ RowsInv' /\ ClientsAreClosed'
  BY DEF ScanInv, TypeOK, PlaceInv, RowsInv, DoubledPath, ClientsAreClosed
<1>2. Settled(i)' \/ ToDo(i)'
  BY DEF Settled, BeyondLimit, Told, ToDo
<1>3. \A j \in Items : j # i => known'[j] = known[j]
  BY DEF ScanInv, TypeOK
<1>4. \A j \in Items : ToDo(j) => Settled(j)' \/ ToDo(j)'
  BY <1>2 DEF ToDo
<1>5. LossInv'
  <2>1. \A j \in Items : InScope(j)' => Settled(j)' \/ (at' \notin {"close", "ended"} /\ ToDo(j)')
    <3> SUFFICES ASSUME NEW j \in Items, InScope(j), j # i
                 PROVE  Settled(j)' \/ ToDo(j)'
      BY <1>2 DEF InScope
    <3>1. CASE Settled(j)
      BY <3>1, <1>3, SettledStays
    <3> QED
      BY <3>1, <1>4 DEF ScanInv, LossInv
  <2> QED
    BY <2>1 DEF LossInv
<1> QED
  BY <1>1, <1>5 DEF ScanInv

LEMMA RdKeyKeeps == ASSUME ScanInv, NEW i \in Items, RdKey(i) \/ RdValueMissing(i) PROVE ScanInv'
<1>1. page \in 0..(MaxPages + ValueCap) /\ MaxPages \in Nat /\ ValueCap \in Nat
  BY RemoteAssumption DEF ScanInv, TypeOK
<1>2. page < ValueCap => page + 1 \in 0..(MaxPages + ValueCap) /\ page # ValueCap
  BY <1>1
<1>3. CASE RdKey(i)
  BY <1>1, <1>2, <1>3, TakeKeeps, RdNameKeeps, AbortKeeps DEF RdKey, Taking
<1>4. CASE RdValueMissing(i)
  BY <1>4, RdNameKeeps DEF RdValueMissing
<1> QED
  BY <1>3, <1>4

LEMMA RdLeaveKeeps == ASSUME ScanInv, RdLeave PROVE ScanInv'
<1> USE DEF RdLeave
<1>1. TypeOK' /\ PlaceInv' /\ RowsInv' /\ ClientsAreClosed'
  BY DEF ScanInv, TypeOK, PlaceInv, RowsInv, DoubledPath, ClientsAreClosed
<1>2. \A i \in Items : ToDo(i) => Settled(i)'
  BY DEF ScanInv, PlaceInv, ToDo, Settled, Told
<1>3. LossInv'
  BY <1>2, LossStays DEF ScanInv
<1> QED
  BY <1>1, <1>3 DEF ScanInv

LEMMA SfSampleFailsKeeps == ASSUME ScanInv, NEW i \in Items, SfSampleFails(i) PROVE ScanInv'
<1> USE DEF SfSampleFails, Taking, Take, Swallow
<1>1. TypeOK' /\ PlaceInv' /\ RowsInv' /\ ClientsAreClosed'
  BY DEF ScanInv, TypeOK, PlaceInv, RowsInv, ClientsAreClosed
<1>2. Settled(i)'
  BY DEF Settled, Silent
<1>3. \A j \in Items : j # i => known'[j] = known[j]
  BY DEF ScanInv, TypeOK
<1>4. \A j \in Items : j # i /\ ToDo(j) => ToDo(j)'
  BY DEF ToDo
<1>5. LossInv'
  BY <1>2, <1>3, <1>4, LossStays DEF ScanInv
<1> QED
  BY <1>1, <1>5 DEF ScanInv

LEMMA StoreKeeps ==
    ASSUME ScanInv,
           \/ StoreConnect \/ StoreList \/ StoreClose
           \/ \E g \in Groups : StoreGroup(g)
           \/ \E i \in Items : StoreItem(i)
    PROVE  ScanInv'
<1>1. CASE StoreConnect
  BY <1>1, ConnectedKeeps, NotConnectedKeeps DEF StoreConnect, MgConnect, RdConnect, SfConnect
<1>2. CASE StoreList
  <2>1. CASE MgCollections \/ SfTables
    BY <2>1, ListOrAbortKeeps DEF MgCollections, SfTables
  <2> QED
    BY <1>2, <2>1, RdScanKeeps DEF StoreList
<1>3. CASE StoreClose
  BY <1>3, CloseKeeps DEF StoreClose
<1>4. CASE \E g \in Groups : StoreGroup(g)
  <2>1. PICK g \in Groups : StoreGroup(g)
    BY <1>4
  <2>2. CASE MgCollection(g)
    <3>1. \A i \in ItemsIn(g) : InScope(i) => i \in ItemsIn(g) \ Odd
      BY <2>2 DEF MgCollection, InScope
    <3> QED
      BY <2>2, <3>1, OpenOrAbortKeeps DEF MgCollection
  <2>3. CASE SfTable(g)
    BY <2>3, OpenOrAbortKeeps DEF SfTable
  <2> QED
    BY <2>1, <2>2, <2>3 DEF StoreGroup
<1>5. CASE \E i \in Items : StoreItem(i)
  <2>1. PICK i \in Items : StoreItem(i)
    BY <1>5
  <2>2. CASE MgField(i) \/ SfColumn(i)
    BY <2>2, TakeOrAbortKeeps DEF MgField, SfColumn
  <2> QED
    BY <2>1, <2>2, RdKeyKeeps, SfSampleFailsKeeps DEF StoreItem
<1> QED
  BY <1>1, <1>2, <1>3, <1>4, <1>5

-----------------------------------------------------------------------------
(* SharePoint, WebDAV and SMB.                                             *)

\* A flat listing has everything that is in scope.
LEMMA OpenRootKeeps ==
    ASSUME ScanInv, at = "list", NEW I, OpenRoot(I), I \subseteq ItemsIn(Root),
           \A i \in ItemsIn(Root) : i \in I \/ Misfiled(i),
           kind = "sharepoint" \/ (kind \in {"webdav", "smb"} /\ "recursive" \notin options)
    PROVE  ScanInv'
<1> USE RemoteAssumption DEF OpenRoot
<1>1. TypeOK' /\ PlaceInv' /\ RowsInv' /\ ClientsAreClosed'
  BY DEF ScanInv, TypeOK, PlaceInv, RowsInv, DoubledPath, ClientsAreClosed, ItemsIn
<1>2. \A i \in Items : InScope(i) => ToDo(i)' \/ Settled(i)'
  BY DEF InScope, ToDo, ItemsIn, Settled, Silent, Misfiled
<1>3. LossInv'
  BY <1>2, LossStays DEF ScanInv
<1> QED
  BY <1>1, <1>3 DEF ScanInv

\* A file that is not there has its row.
LEMMA MissingKeeps ==
    ASSUME ScanInv, NEW i \in Items, Taking(i), Take(i, "nothing"), UNCHANGED page,
           \/ Tell(i, i)
           \/ DoubledPath /\ rows' = rows \cup {i} /\ UNCHANGED failed
    PROVE  ScanInv'
<1> USE DEF Taking, Take, Tell
<1>1. TypeOK' /\ PlaceInv' /\ RowsInv' /\ ClientsAreClosed'
  BY DEF ScanInv, TypeOK, PlaceInv, RowsInv, DoubledPath, ClientsAreClosed
<1>2. Settled(i)'
  BY DEF Settled, Told
<1>3. \A j \in Items : j # i => known'[j] = known[j]
  BY DEF ScanInv, TypeOK
<1>4. \A j \in Items : j # i /\ ToDo(j) => ToDo(j)'
  BY DEF ToDo
<1>5. LossInv'
  BY <1>2, <1>3, <1>4, LossStays DEF ScanInv
<1> QED
  BY <1>1, <1>5 DEF ScanInv

LEMMA DownloadKeeps ==
    ASSUME ScanInv, NEW i \in Items, Download(i) \/ DownloadFails(i) PROVE ScanInv'
BY TakeOrAbortKeeps, MissingKeeps DEF Download, DownloadFails

\* WebDAV asks for names that do not exist only below a configured path.
LEMMA NamesOnServer ==
    ASSUME kind = "webdav", NEW i \in Items, ~OnServer(i) PROVE DoubledPath
<1>1. CASE "recursive" \notin options
  BY <1>1 DEF OnServer, Remote, ListedName
<1>2. CASE "path" \notin options
  <2>1. <<>> \o <<i>> = <<i>>
    OBVIOUS
  <2> QED
    BY <1>2, <2>1 DEF OnServer, Remote, ListedName, ConfiguredPath
<1> QED
  BY <1>1, <1>2 DEF DoubledPath

\* A folder that is passed over by the recursive listing, and with the root all
\* folders, is one of the silent places.
LEMMA FolderKeeps ==
    ASSUME ScanInv, NEW g \in Groups, g \in groups, at \in {"list", "walk"},
           kind \in {"webdav", "smb"}, "recursive" \in options,
           at = "list" => kind = "webdav", at = "walk" => group = None,
           Swallow(g),
           groups' = IF g = Root THEN {} ELSE groups \ {g},
           UNCHANGED <<at, group, items, known, client, source, paging>>
    PROVE  ScanInv'
<1> USE RemoteAssumption DEF Swallow
<1>1. TypeOK' /\ PlaceInv' /\ RowsInv' /\ ClientsAreClosed'
  BY DEF ScanInv, TypeOK, PlaceInv, RowsInv, ClientsAreClosed
<1>2. \A i \in Items : g \in {Root, GroupOf[i]} => Settled(i)'
  BY DEF Settled, Silent
<1>3. \A i \in Items : ToDo(i) => Settled(i)' \/ ToDo(i)'
  BY <1>2 DEF ToDo
<1>4. LossInv'
  BY <1>3, LossStays DEF ScanInv
<1> QED
  BY <1>1, <1>4 DEF ScanInv

LEMMA WdFolderKeeps == ASSUME ScanInv, NEW g \in Groups, WdFolder(g) PROVE ScanInv'
<1> USE DEF WdFolder
<1>1. CASE /\ items' = items \cup Files(g) /\ groups' = groups \ ({g} \cup Odd)
           /\ \E S \in SUBSET (ItemsIn(g) \cap Odd) : OddListed(S)
  <2> USE <1>1 DEF OddListed
  <2>0. failed \subseteq failed' /\ failed' \subseteq failed \cup Items
    BY DEF ItemsIn
  <2>1. TypeOK' /\ PlaceInv' /\ RowsInv' /\ ClientsAreClosed'
    BY <2>0 DEF ScanInv, TypeOK, PlaceInv, RowsInv, DoubledPath, ClientsAreClosed, Files, ItemsIn
  <2>2. \A i \in Items : ToDo(i) => ToDo(i)' \/ Settled(i)'
    <3> SUFFICES ASSUME NEW i \in Items, ToDo(i), ~Misfiled(i)'
                 PROVE  ToDo(i)'
      BY DEF Settled, Silent
    <3>1. i \notin Odd /\ GroupOf[i] \notin Odd \ {Root}
      BY DEF Misfiled
    <3>2. GroupOf[i] \in groups => GroupOf[i] = g \/ GroupOf[i] \notin Odd
      BY <3>1
    <3> QED
      BY <3>1, <3>2, RemoteAssumption DEF ToDo, Files, ItemsIn
  <2>3. LossInv'
    BY <2>2, LossStays DEF ScanInv
  <2> QED
    BY <2>1, <2>3 DEF ScanInv
<1>2. CASE ~(/\ items' = items \cup Files(g) /\ groups' = groups \ ({g} \cup Odd)
             /\ \E S \in SUBSET (ItemsIn(g) \cap Odd) : OddListed(S))
  <2>1. /\ Swallow(g)
        /\ groups' = IF g = Root THEN {} ELSE groups \ {g}
        /\ UNCHANGED <<at, group, items, known, client, source, paging>>
    BY <1>2
  <2> QED
    BY <2>1, FolderKeeps
<1> QED
  BY <1>1, <1>2

LEMMA SmbFolderKeeps == ASSUME ScanInv, NEW g \in Groups, SmbFolder(g) PROVE ScanInv'
<1> USE DEF SmbFolder, Opening
<1>1. CASE Open(g, ItemsIn(g))
  BY <1>1, OpenKeeps
<1>2. CASE ~Open(g, ItemsIn(g))
  <2>1. "recursive" \in options
    BY DEF ScanInv, PlaceInv
  <2> QED
    BY <1>2, <2>1, FolderKeeps
<1> QED
  BY <1>1, <1>2

LEMMA WdListedKeeps == ASSUME ScanInv, WdListed PROVE ScanInv'
<1> USE RemoteAssumption DEF WdListed
<1>1. TypeOK' /\ PlaceInv' /\ RowsInv' /\ ClientsAreClosed'
  BY DEF ScanInv, TypeOK, PlaceInv, RowsInv, DoubledPath, ClientsAreClosed
<1>2. \A i \in Items : ToDo(i) => ToDo(i)'
  BY DEF ToDo
<1>3. LossInv'
  BY <1>2, LossStays DEF ScanInv
<1> QED
  BY <1>1, <1>3 DEF ScanInv

LEMMA ShareKeeps ==
    ASSUME ScanInv,
           \/ ShareConnect \/ ShareList \/ ShareClose
           \/ \E g \in Groups : ShareGroup(g)
           \/ \E i \in Items : ShareItem(i)
    PROVE  ScanInv'
<1>1. CASE ShareConnect
  BY <1>1, ConnectedKeeps, NotConnectedKeeps DEF ShareConnect, SpConnect, WdConnect, SmbConnect
<1>2. CASE ShareList
  <2>1. client = "open" \/ at # "list"
    BY DEF ScanInv, PlaceInv
  <2>2. CASE SpList
    BY <2>1, <2>2, OpenRootKeeps, RefusedKeeps DEF SpList
  <2>3. CASE WdListRoot
    <3>1. Files(Root) \subseteq ItemsIn(Root) /\ \A i \in ItemsIn(Root) : i \in Files(Root) \/ Misfiled(i)
      BY <2>3 DEF WdListRoot, Files, Misfiled
    <3> QED
      BY <2>1, <2>3, <3>1, OpenRootKeeps, RefusedKeeps DEF WdListRoot
  <2>4. CASE SmbList
    BY <2>1, <2>4, OpenRootKeeps, RefusedKeeps, ListedKeeps DEF SmbList
  <2> QED
    BY <1>2, <2>2, <2>3, <2>4, WdListedKeeps DEF ShareList
<1>3. CASE ShareClose
  <2>1. client \in {"none", "open", "closed"}
    BY DEF ScanInv, TypeOK
  <2> QED
    BY <1>3, <2>1, CloseKeeps DEF ShareClose
<1>4. CASE \E g \in Groups : ShareGroup(g)
  BY <1>4, WdFolderKeeps, SmbFolderKeeps DEF ShareGroup
<1>5. CASE \E i \in Items : ShareItem(i)
  <2>1. PICK i \in Items : ShareItem(i)
    BY <1>5
  <2>2. CASE SpFile(i) \/ SmbFile(i)
    BY <2>2, DownloadKeeps DEF SpFile, SmbFile
  <2>3. CASE WdFile(i)
    BY <2>3, DownloadKeeps, MissingKeeps, NamesOnServer DEF WdFile
  <2> QED
    BY <2>1, <2>2, <2>3 DEF ShareItem
<1> QED
  BY <1>1, <1>2, <1>3, <1>4, <1>5

-----------------------------------------------------------------------------
(* The theorems.                                                           *)

LEMMA StepInv == ScanInv /\ [Next]_vars => ScanInv'
<1> SUFFICES ASSUME ScanInv, [Next]_vars PROVE ScanInv'
  OBVIOUS
<1>1. CASE UNCHANGED vars
  BY <1>1 DEF vars, ScanInv, TypeOK, PlaceInv, LossInv, RowsInv, DoubledPath, ClientsAreClosed,
              Settled, ToDo, Told, BeyondLimit, Silent, Misfiled, InScope
<1>2. CASE Next
  <2>1. CASE \/ ApiConnect \/ ApiList \/ ApiFetch \/ ApiClose
             \/ \E g \in Groups : ApiGroup(g)
             \/ \E i \in Items : ApiItem(i)
    BY <2>1, ApiKeeps
  <2>2. CASE \/ StoreConnect \/ StoreList \/ StoreClose
             \/ \E g \in Groups : StoreGroup(g)
             \/ \E i \in Items : StoreItem(i)
    BY <2>2, StoreKeeps
  <2>3. CASE \/ ShareConnect \/ ShareList \/ ShareClose
             \/ \E g \in Groups : ShareGroup(g)
             \/ \E i \in Items : ShareItem(i)
    BY <2>3, ShareKeeps
  <2>4. CASE RdLeave \/ (kind # "redis" /\ (LeaveGroup \/ LeaveWalk))
    BY <2>4, LeaveKeeps, RdLeaveKeeps
  <2>5. CASE \/ SqlConnect \/ SqlDiscover \/ SqlMarkFails \/ SqlClose
             \/ \E g \in Groups : SqlTable(g)
             \/ \E i \in Items : SqlColumn(i) \/ SqlSampleFails(i)
    BY <2>5, SqlKeeps
  <2> QED
    BY <1>2, <2>1, <2>2, <2>3, <2>4, <2>5 DEF Next
<1> QED
  BY <1>1, <1>2

THEOREM ScanInvHolds == Spec => []ScanInv
BY InitInv, StepInv, PTL DEF Spec

\* The type invariant, for every connector.
THEOREM TypeCorrect == Spec => []TypeOK
<1>1. ScanInv => TypeOK
  BY DEF ScanInv
<1> QED
  BY <1>1, ScanInvHolds, PTL

\* What was not looked into is told by a row, but for the silent places: no
\* order of failures in any connector drops an item otherwise (save_failure).
THEOREM LossesAreAllTold == Spec => []LossesAreTold
<1>1. ScanInv => LossesAreTold
  BY DEF ScanInv, LossInv, LossesAreTold, Settled
<1> QED
  BY <1>1, ScanInvHolds, PTL

\* A service that answers everything is scanned entirely, but for WebDAV's
\* recursive listing below a path (webdav_connector.py:235) and what it takes
\* for something else than it is (67-72, 218-219).
THEOREM AllServedIsScanned == Spec => []ServedIsScanned
<1>1. ASSUME ScanInv, at = "ended", failed = {}, ~DoubledPath
      PROVE  rows = {} /\ \A i \in Items :
                 InScope(i) => known[i] = "sample" \/ BeyondLimit(i) \/ Misfiled(i)
  <2>1. rows = {}
    BY <1>1 DEF ScanInv, RowsInv
  <2>2. \A i \in Items : ~Told(i)
    BY <2>1 DEF Told
  <2>3. \A i \in Items : Silent(i) => Misfiled(i)
    BY <1>1 DEF Silent
  <2> QED
    BY <1>1, <2>1, <2>2, <2>3 DEF ScanInv, LossInv, Settled
<1>2. ScanInv => ServedIsScanned
  BY <1>1 DEF ServedIsScanned, DoubledPath
<1> QED
  BY <1>2, ScanInvHolds, PTL

\* No client outlives its run, but those of the connectors named in the
\* property (close in their finally clauses).
THEOREM ClientsAreAllClosed == Spec => []ClientsAreClosed
<1>1. ScanInv => ClientsAreClosed
  BY DEF ScanInv
<1> QED
  BY <1>1, ScanInvHolds, PTL
=============================================================================
