----------------------------- MODULE ConfigEditor -----------------------------
(***************************************************************************)
(* The configuration page in several browser tabs, the file behind it, and *)
(* an operator who also edits the file by hand.                            *)
(*                                                                         *)
(* A tab shows the file with its secrets redacted, is edited, and is saved *)
(* by merging the form into whatever the file has by then.  Handlers are   *)
(* coroutines without an await after the form was read, so a save is one   *)
(* step; only a kill can come between its truncating and writing the file. *)
(***************************************************************************)
EXTENDS RedactConfig

CONSTANTS
    Tabs,
    Names,          \* of targets; a name is never edited, it says which target is meant
    Hosts,          \* of a target's URL
    Passwords,
    MaxRows, MaxSaves, MaxEdits     \* bounds of the model

VARIABLES
    file,           \* the tree in the file; one string when it is no YAML object
    form,           \* what a tab's text area has; NoTree: the page is not open
    edits, saves    \* counts, bounded

editorVars == <<file, form, edits, saves>>

ASSUME EditorAssumption == MaxRows \in Nat /\ MaxSaves \in Nat /\ MaxEdits \in Nat /\ Hosts # {}

NoTree  == [p \in {} |-> DictNode]
\* What a kill in write_text leaves, and what an operator may type.
Torn    == Document(Plain("torn"))
Garbage == Document(Plain("garbage"))

Fields == {"name", "pass", "url"}
TargetsPath  == <<Key("targets")>>
ApiPath      == <<Key("api")>>
ApiKeyPath   == <<Key("api"), Key("api_key")>>
FileScanPath == <<Key("file_scan")>>
FilePasswordsPath == <<Key("file_scan"), Key("file_passwords")>>
ZipPath      == <<Key("file_scan"), Key("file_passwords"), Key("zip")>>
FixedPaths   == {<<>>, TargetsPath, ApiPath, ApiKeyPath, FileScanPath, FilePasswordsPath, ZipPath}
TargetPath(i)   == <<Key("targets"), Item(i)>>
FieldPath(i, k) == <<Key("targets"), Item(i), Key(k)>>
RowPaths(n) == {TargetPath(i) : i \in 1..n} \cup {FieldPath(i, k) : i \in 1..n, k \in Fields}

Target(n, p, h, s) == [name |-> Plain(n), pass |-> Plain(p), url |-> Str(h, s)]

Parses(tree) == tree # NoTree /\ tree[<<>>] = DictNode
Rows(tree) ==
    LET targets == {p \in DOMAIN tree : Len(p) = 2 /\ p[1] = Key("targets")} IN
    [i \in {p[2].item : p \in targets} |-> [k \in Fields |-> tree[FieldPath(i, k)]]]
NameOf(row)  == row["name"].text

WithRows(tree, rows) ==
    [p \in FixedPaths \cup RowPaths(Len(rows)) |->
        IF p \in FixedPaths THEN tree[p]
        ELSE IF Len(p) = 2 THEN DictNode ELSE rows[p[2].item][p[3].key]]

Config(rows, key, zip) ==
    WithRows([p \in FixedPaths |->
                CASE p = TargetsPath -> ListNode
                  [] p = ApiKeyPath -> Plain(key)
                  [] p = ZipPath -> Plain(zip)
                  [] OTHER -> DictNode], rows)

EditorInit ==
    /\ \E n, m \in Names, p, q \in Passwords, h \in Hosts, s \in {"", "inline"}, key \in {"", "key"} :
           n # m /\ file = Config(<<Target(n, p, h, s), Target(m, q, h, "")>>, key, "zip")
    /\ form = [t \in Tabs |-> NoTree]
    /\ edits = 0 /\ saves = 0

\* GET /config.  A file that is no object is shown as it is.
Shown(tree) == IF Parses(tree) THEN RedactConfigForDisplay(tree) ELSE tree

Open(t) ==
    /\ form[t] = NoTree
    /\ form' = [form EXCEPT ![t] = Shown(file)]
    /\ UNCHANGED <<file, edits, saves>>

\* The operator types.
Edit(t, tree) ==
    /\ edits < MaxEdits /\ edits' = edits + 1
    /\ form' = [form EXCEPT ![t] = tree]
    /\ UNCHANGED <<file, saves>>

EditRow(t) == \E i \in DOMAIN Rows(form[t]) :
    \/ \E p \in Passwords \cup {""} : Edit(t, [form[t] EXCEPT ![FieldPath(i, "pass")] = Plain(p)])
    \/ \E h \in Hosts : Edit(t, [form[t] EXCEPT ![FieldPath(i, "url")] = Str(h, @.secret)])

EditRows(t) ==
    \/ \E i \in DOMAIN Rows(form[t]) : Edit(t, WithRows(form[t], RemoveAt(Rows(form[t]), i)))
    \/ /\ Len(Rows(form[t])) < MaxRows
       /\ \E n \in Names, p \in Passwords :
              Edit(t, WithRows(form[t], Append(Rows(form[t]), Target(n, p, CHOOSE h \in Hosts : TRUE, ""))))

EditTab(t) ==
    \/ Parses(form[t]) /\ (EditRow(t) \/ EditRows(t) \/ Edit(t, Garbage))
    \/ form[t] = Garbage /\ form' = [form EXCEPT ![t] = NoTree] /\ UNCHANGED <<file, edits, saves>>

\* POST /config: _merge_and_save_config_yaml.  A form that is no object, or that
\* normalize_config refuses, comes back with an error; else the page is opened
\* anew.
Current == IF Parses(file) THEN file ELSE Document(DictNode)
Merged(t) == MergeConfigOnSave(form[t], Current)

Save(t) ==
    /\ Parses(form[t])
    /\ saves < MaxSaves /\ saves' = saves + 1
    /\ file' = Merged(t)
    /\ form' = [form EXCEPT ![t] = NoTree]
    /\ UNCHANGED edits

SaveRefused(t) == form[t] # NoTree /\ ~Parses(form[t]) /\ UNCHANGED editorVars

\* The process is killed in write_text.
Crash ==
    /\ saves < MaxSaves /\ saves' = saves + 1
    /\ \E t \in Tabs : Parses(form[t])
    /\ file' = Torn
    /\ UNCHANGED <<form, edits>>

\* The file is edited by hand: restored, a password rotated, targets put in
\* another order.
Outside ==
    /\ edits < MaxEdits /\ edits' = edits + 1
    /\ \/ /\ Parses(file)
          /\ \/ \E i \in DOMAIN Rows(file), p \in Passwords :
                    file' = [file EXCEPT ![FieldPath(i, "pass")] = Plain(p)]
             \/ file' = WithRows(file, Reverse(Rows(file)))
       \/ /\ ~Parses(file)
          /\ \E n \in Names, p \in Passwords, h \in Hosts : file' = Config(<<Target(n, p, h, "")>>, "key", "zip")
    /\ UNCHANGED <<form, saves>>

EditorNext ==
    \/ \E t \in Tabs : Open(t) \/ EditTab(t) \/ Save(t) \/ SaveRefused(t)
    \/ Crash \/ Outside

EditorSpec == EditorInit /\ [][EditorNext]_editorVars

-----------------------------------------------------------------------------

\* Opening the page and saving it as it is gives the same file, with every
\* secret, whatever happened to the file before: redaction and merge are inverse
\* (merge_config_on_save), but below keys like file_passwords, whose own name
\* is secret and whose placeholders are stored.
UneditedSaveKeepsAll ==
    Parses(file) =>
        LET again == MergeConfigOnSave(RedactConfigForDisplay(file), file) IN
        /\ DOMAIN again = DOMAIN file
        /\ \A p \in DOMAIN file : BelowSecret(p) \/ again[p] = file[p]

SecretsOf(tree, n) ==
    {<<r["pass"].text, r["url"].secret>> : r \in {r \in Range(Rows(tree)) : NameOf(r) = n}}

\* The form has the file's targets in the file's places, perhaps with more at
\* its end, and no masked URL of which something else was edited.  (Where it
\* does not: without its first row the next target gets that one's password;
\* a masked URL with another host is stored with its stars.)
LinedUp(s, c) ==
    /\ Parses(c) /\ Len(Rows(s)) >= Len(Rows(c))
    /\ \A i \in DOMAIN Rows(c) :
           /\ NameOf(Rows(s)[i]) = NameOf(Rows(c)[i])
           /\ Rows(s)[i]["url"] = RedactInline(Rows(c)[i]["url"]) \/ {Rows(s)[i]["url"].secret, Rows(c)[i]["url"].secret} = {""}
    /\ \A i \in DOMAIN Rows(s) \ DOMAIN Rows(c) : NameOf(Rows(s)[i]) \notin {NameOf(r) : r \in Range(Rows(c))}

TypedFor(s, n) == \E r \in Range(Rows(s)) : NameOf(r) = n /\ r["pass"].text \notin {"", REDACTED_PLACEHOLDER}

\* A save changes a target's secrets only if someone typed a new one for that
\* target, in however many tabs, old or new, the page is open, and whatever was
\* saved since: passwords go by the position in the list and must meet the
\* right target (_walk_merge).  It holds as long as the rows line up.
SavesKeepSecrets ==
    [][\A t \in Tabs : Save(t) /\ LinedUp(form[t], file) =>
          \A n \in {NameOf(r) : r \in Range(Rows(file))} :
              TypedFor(form[t], n) \/ SecretsOf(file', n) = SecretsOf(file, n)]_editorVars
=============================================================================
