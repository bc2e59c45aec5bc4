------------------------------ MODULE MCPipeline ------------------------------
EXTENDS Pipeline

CONSTANTS root, sub, memo, seven, zip, ea, eb, ec, ed, ee, cpf, date, p1, p2, op1, op2, tenant

\* root/{ea: memo, eb: sub, ec: zip}, sub/{ed: link to memo, ee: 7z}
MCIn     == [x \in Entries |-> IF x \in {ed, ee} THEN sub ELSE root]
MCKind   == [x \in Entries |-> IF x = eb THEN "dir" ELSE IF x = ed THEN "link" ELSE "file"]
MCLeads  == [x \in Entries |-> IF x \in {ea, ed} THEN memo ELSE IF x = eb THEN sub
                               ELSE IF x = ec THEN zip ELSE seven]
MCInside == [x \in Entries |-> TRUE]
Plain    == [x \in Entries |-> IF x = ec THEN "zip" ELSE IF x = ee THEN "7z" ELSE "doc"]

MCSet == [medium |-> 40, fuzzy |-> TRUE, fuzzyMin |-> 25, fuzzyMax |-> 45, fuzzyRatio |-> 85,
          hint |-> FALSE, hintMin |-> 20, hintMax |-> 39, hintSimilarity |-> 80, format |-> FALSE]

Silent == [matches |-> {}, hits |-> {}, valid |-> {}, rust |-> "off", entertainment |-> FALSE,
           minor |-> FALSE, declared |-> FALSE, ambiguous |-> FALSE, typed |-> FALSE,
           ml |-> 0, dl |-> 0, ratio |-> 0, similarity |-> NoScore]
Loud   == [Silent EXCEPT !.matches = {cpf}, !.hits = {date}, !.valid = {cpf}, !.rust = "works"]
Faint  == [Silent EXCEPT !.matches = {cpf}, !.ml = 30, !.ratio = 90]

Part(size, reads, text, tells) ==
    [size |-> size, wanted |-> TRUE, reads |-> reads, text |-> text, tells |-> tells,
     named |-> Silent]
Holds(format, opens, ps) == [format |-> format, opens |-> opens, packed |-> 1, parts |-> ps]

Memo(t)  == Holds("doc", "ok", <<Part(1, "ok", t, Loud)>>)
Zip(w)   == Holds("zip", "ok", <<Part(1, w, "ok", Loud), Part(1, "ok", "ok", Faint)>>)
Seven(w) == Holds("7z", "ok", <<Part(1, "ok", "ok", Faint), Part(1, w, "ok", Loud),
                                Part(2, "ok", "ok", Loud)>>)

Filled(m, z, s) == [n \in Nodes |-> IF n = memo THEN m ELSE IF n = zip THEN z ELSE s]

Block(type, mode) == [type |-> type, on_conflict |-> mode]

Told   == [enabled |-> TRUE, onComplete |-> TRUE, onFailure |-> TRUE, onlyHigh |-> TRUE,
           dedupe |-> TRUE, log |-> TRUE]
Untold == [Told EXCEPT !.enabled = FALSE]

World(x, has, unreadable, cutShort, who, where) ==
    [ext |-> x, content |-> has, denied |-> unreadable, torn |-> cutShort,
     kind |-> who, block |-> where, asks |-> Untold]

InOrder == Filled(Memo("ok"), Zip("ok"), Seven("ok"))

\* For a command line: a disk in order, and one thing wrong at a time.
Disks ==
    {InOrder, Filled(Memo("locked"), Zip("ok"), Seven("ok")), Filled(Memo("ok"), Memo("ok"), Seven("ok"))}
    \cup {Filled(Memo("ok"), Zip(w), Seven("ok")) : w \in {"locked", "crash"}}
    \cup {Filled(Memo("ok"), Zip("ok"), Seven(w)) : w \in {"locked", "garbled"}}

\* A database file and a file out of scope; a member that is not wanted.
Odd == World([Plain EXCEPT ![ee] = "sqlite", ![ec] = "other"],
             Filled(Memo("ok"), Zip("ok"), Holds("sqlite", "ok", <<Part(1, "ok", "ok", Loud)>>)),
             {}, {}, "cli", Block("sql", "upsert"))
\* Called a tar, an unreadable container, a compressed single file.
Bag(x, has) == World([Plain EXCEPT ![ec] = x], Filled(Memo("ok"), has, Seven("ok")), {}, {}, "cli",
                     Block("mongo", "upsert"))
Bags == {Bag("tar", Memo("ok")), Bag("zip", [Zip("ok") EXCEPT !.opens = "garbled"]),
         Bag("tar", [Zip("garbled") EXCEPT !.format = "tar"]),
         Bag("7z", [Seven("ok") EXCEPT !.opens = "locked"]),
         Bag("zip", Zip("broken")), Bag("7z", Seven("absent")), Bag("7z", Seven("broken")),
         Bag("tar", [Zip("ok") EXCEPT !.format = "tar", !.opens = "crash"]),
         Bag("gz", [Zip("ok") EXCEPT !.format = "gz"])}
Spare == World(Plain,
               Filled(Memo("ok"), Holds("zip", "ok", <<[Part(1, "ok", "ok", Loud) EXCEPT !.wanted = FALSE],
                                                     Part(1, "ok", "ok", Loud)>>), Seven("ok")),
               {}, {}, "cli", Block("sql", "upsert"))

\* A server that announces what it finds; the sink has no part in that.
Herald == [World(Plain, InOrder, {seven}, {}, "dashboard", Block("none", "upsert"))
              EXCEPT !.asks = Told]

\* On a dashboard reports overlap with the scan: two members of one directory and a
\* file with names in two.
MCWorlds ==
    {World(Plain, k, {}, {}, "cli", Block("sql", "fail")) : k \in Disks}
    \cup {World(Plain, InOrder, n, t, "cli", Block("mongo", "skip")) :
              n \in {{}, {memo}}, t \in {{}, {sub}}}
    \cup {Odd, Spare, [Spare EXCEPT !.asks = Told, !.block = Block("none", "upsert")], Herald} \cup Bags
    \cup {World(Plain, Filled(Memo("ok"), Zip("ok"), Seven("locked")), {seven}, {}, "dashboard",
                Block("sql", "upsert"))}

MCFindings == [entry : Entries, part : 0..3]
MCKeyOf    == [f \in MCFindings |-> In[f.entry]]
=============================================================================
