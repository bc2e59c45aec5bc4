----------------------------- MODULE RedactConfig -----------------------------
(***************************************************************************)
(* What the configuration page shows of a configuration and what it makes  *)
(* of the submitted form (config/redact_config.py).                        *)
(*                                                                         *)
(* A configuration is a tree of dicts, lists and strings: here a function  *)
(* from the paths in it to what is there.  The code's recursion over the   *)
(* tree becomes, for every path, a statement about the path's prefixes.    *)
(* Of a string the model keeps its text and the secret within it, as in a  *)
(* URL with a password.  Numbers, booleans and nulls are left out.         *)
(***************************************************************************)
EXTENDS Naturals, Sequences, SequencesExt

\* The steps of a path: into a dict, into a list.
Key(k)  == [key |-> k]
Item(i) == [item |-> i]

DictNode == [t |-> "dict"]
ListNode == [t |-> "list"]
Str(text, secret) == [t |-> "str", text |-> text, secret |-> secret]
Plain(text) == Str(text, "")

\* A document that is one node.
Document(node) == [p \in {<<>>} |-> node]

Above(p) == Prefixes(p) \ {p}

REDACTED_PLACEHOLDER == "# REDACTED"
Stars == "***"                    \* _INLINE_SECRET_PLACEHOLDER

\* Keys that contain pass, api_key, token, ... in their names.
SecretKeys == {"pass", "api_key", "file_passwords", "api_key_roles"}

SecretAt(p) == p # <<>> /\ \E k \in SecretKeys : Last(p) = Key(k)
BelowSecret(p) == \E q \in Above(p) : SecretAt(q)
InDict(p) == p # <<>> /\ "key" \in DOMAIN Last(p)
InApi(p)  == \E q \in Above(p) : q # <<>> /\ Last(q) = Key("api")

Redacted(s) == IF s.text = "" THEN s ELSE Plain(REDACTED_PLACEHOLDER)

\* Passwords in URLs and after "password=".
RedactInline(s) == IF s.secret = "" THEN s ELSE Str(s.text, Stars)

\* Of a string: all below a secret key; under one, outside of api, also an empty
\* one; in a dict the passwords within it; in a list it is shown as it is.
RedactString(s, p) ==
    IF BelowSecret(p) THEN Redacted(s)
    ELSE IF SecretAt(p) THEN (IF InApi(p) THEN Redacted(s) ELSE Plain(REDACTED_PLACEHOLDER))
    ELSE IF InDict(p) THEN RedactInline(s) ELSE s

RedactConfigForDisplay(data) ==
    [p \in DOMAIN data |-> IF data[p].t = "str" THEN RedactString(data[p], p) ELSE data[p]]

-----------------------------------------------------------------------------

\* Mutant of Blank: an empty value is a new secret.
PlaceholderOnly(v) == v.t = "str" /\ v.text = REDACTED_PLACEHOLDER

\* A submitted secret that means "leave it".
Blank(v) == v.t = "str" /\ v.text \in {"", REDACTED_PLACEHOLDER}

\* Mutant of Unchanged: masked strings are not recognised.
UnchangedPlaceholder(s, c) == s.text = REDACTED_PLACEHOLDER

\* A submitted string that means "leave it".
Unchanged(s, c) == s.text = REDACTED_PLACEHOLDER \/ s = RedactInline(c)

\* The walk over both trees goes no deeper here: one of them ends, they differ in
\* kind, or a string or a secret is decided.
Settled(s, c, q) ==
    \/ q \notin DOMAIN s \/ q \notin DOMAIN c
    \/ s[q].t # c[q].t \/ s[q].t = "str"
    \/ SecretAt(q)

\* It ends here for the current value.
KeepsCurrent(s, c, q) ==
    \/ q \notin DOMAIN s
    \/ /\ q \in DOMAIN c
       /\ IF SecretAt(q) THEN Blank(s[q])
          ELSE s[q].t = "str" /\ c[q].t = "str" /\ Unchanged(s[q], c[q])

\* Where the walk comes first to an end, if that is for the current value.
Kept(s, c) ==
    {q \in DOMAIN s \cup DOMAIN c :
        Settled(s, c, q) /\ KeepsCurrent(s, c, q) /\ \A r \in Above(q) : ~Settled(s, c, r)}

\* Keys that are not submitted stay; rows are merged by position, and those
\* beyond the submitted ones stay.  (The branch for a path that ends in a secret
\* key is never taken: such a key is decided in the dict it is in.)
MergeConfigOnSave(s, c) ==
    LET kept == Kept(s, c)
        From(p) == IF Prefixes(p) \cap kept = {} THEN s ELSE c IN
    [p \in {p \in DOMAIN s \cup DOMAIN c : p \in DOMAIN From(p)} |-> From(p)[p]]
=============================================================================
