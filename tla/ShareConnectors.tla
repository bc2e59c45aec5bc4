--------------------------- MODULE ShareConnectors ---------------------------
(***************************************************************************)
(* SharePoint, WebDAV and SMB: files are downloaded one by one and scanned *)
(* as FileScan does.  Groups are folders, items files.                     *)
(***************************************************************************)
EXTENDS RemoteTarget, Sequences

\* Root is listed, in a request of its own, and I are the files in it.
OpenRoot(I) ==
    /\ at' = "walk" /\ group' = Root /\ groups' = {} /\ items' = I
    /\ Fine /\ UNCHANGED <<known, client, source, paging>>

\* A download that fails is told; what fails later (the temporary file, the
\* reader, the save) leaves run().
Download(i) == TakeOrAbort(i, "sample")

\* Mutant of DownloadFails: break for continue.
DownloadFailsBreak(i) ==
    /\ Taking(i) /\ Tell(i, i)
    /\ items' = {}
    /\ UNCHANGED <<at, groups, group, known, client, source, paging>>

DownloadFails(i) == Taking(i) /\ Take(i, "nothing") /\ UNCHANGED page /\ Tell(i, i)

-----------------------------------------------------------------------------

SpConnect == kind = "sharepoint" /\ (Connected \/ NotConnected("none"))

\* The files of one folder, not of the folders in it.
SpList == kind = "sharepoint" /\ at = "list" /\ (OpenRoot(ItemsIn(Root)) \/ Refused(client))

SpFile(i) == kind = "sharepoint" /\ (Download(i) \/ DownloadFails(i))

-----------------------------------------------------------------------------

WdConnect == kind = "webdav" /\ (Connected \/ NotConnected("none"))

\* A file is an entry with a numeric content_length.  One without, or without a
\* name, is odd, and so is a folder that has the one or lacks the other.
Files(g) == ItemsIn(g) \ Odd

\* What a WebDAV run never hears of.
Misfiled(i) ==
    /\ kind = "webdav"
    /\ i \in Odd \/ ("recursive" \in options /\ GroupOf[i] \in Odd \ {Root})

\* Odd files are listed like folders, and that one fails is not told.
OddListed(S) == failed' = failed \cup S /\ UNCHANGED rows

\* _list_webdav_recursive, before the first download.  Odd folders are taken for
\* files, which the filter by extension leaves out.  A folder that cannot be
\* listed counts as empty.
WdFolder(g) ==
    /\ kind = "webdav" /\ "recursive" \in options
    /\ at = "list" /\ g \in groups /\ (g # Root => Root \notin groups)
    /\ \/ /\ items' = items \cup Files(g) /\ groups' = groups \ ({g} \cup Odd)
          /\ \E S \in SUBSET (ItemsIn(g) \cap Odd) : OddListed(S)
       \/ /\ Swallow(g) /\ UNCHANGED items
          /\ groups' = IF g = Root THEN {} ELSE groups \ {g}
    /\ UNCHANGED <<at, group, known, client, source, paging>>

WdListed ==
    /\ kind = "webdav" /\ "recursive" \in options /\ at = "list" /\ groups = {}
    /\ at' = "walk" /\ group' = Root
    /\ Fine /\ UNCHANGED <<groups, items, known, client, source, paging>>

WdListRoot ==
    /\ kind = "webdav" /\ "recursive" \notin options /\ at = "list"
    /\ OpenRoot(Files(Root)) \/ Refused(client)

\* The recursive listing gives names with the configured path, the plain one
\* without; the download puts the path before both.
ConfiguredPath == IF "path" \in options THEN <<"path">> ELSE <<>>

\* Mutant of ListedName: both listings give the path.
ListedNameWithPath(i) == ConfiguredPath \o <<i>>

ListedName(i) == IF "recursive" \in options THEN ConfiguredPath \o <<i>> ELSE <<i>>

Remote(i)   == ConfiguredPath \o ListedName(i)
OnServer(i) == Remote(i) = ConfiguredPath \o <<i>>

WdFile(i) ==
    /\ kind = "webdav"
    /\ \/ OnServer(i) /\ (Download(i) \/ DownloadFails(i))
       \/ /\ ~OnServer(i) /\ Taking(i) /\ Take(i, "nothing")
          /\ rows' = rows \cup {i} /\ UNCHANGED <<failed, page>>

-----------------------------------------------------------------------------

\* The host is pinned, then the session registered; the pin is released on
\* every way out (HostPins), the session stays.
SmbConnect == kind = "smb" /\ (Connected \/ NotConnected("none"))

\* smbclient.walk is a generator: it asks nothing before the loop.
SmbList ==
    /\ kind = "smb"
    /\ IF "recursive" \in options THEN Listed
       ELSE at = "list" /\ (OpenRoot(ItemsIn(Root)) \/ Refused(client))

\* Like os.walk, it passes over a folder that cannot be listed.
SmbFolder(g) ==
    /\ kind = "smb" /\ Opening(g) /\ (g # Root => Root \notin groups)
    /\ \/ Open(g, ItemsIn(g))
       \/ /\ Swallow(g)
          /\ groups' = IF g = Root THEN {} ELSE groups \ {g}
          /\ UNCHANGED <<at, group, items, known, client, source, paging>>

SmbFile(i) == kind = "smb" /\ (Download(i) \/ DownloadFails(i))

ShareConnect == SpConnect \/ WdConnect \/ SmbConnect
ShareList    == SpList \/ WdListed \/ WdListRoot \/ SmbList
ShareGroup(g) == WdFolder(g) \/ SmbFolder(g)
ShareItem(i)  == SpFile(i) \/ WdFile(i) \/ SmbFile(i)

\* Nobody closes the HTTP sessions, nor deletes the registered SMB session.
ShareClose == kind \in {"sharepoint", "webdav", "smb"} /\ Close(client)
=============================================================================
