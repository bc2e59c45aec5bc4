------------------------------ MODULE Detection ------------------------------
(***************************************************************************)
(* How a column or a file is classified: SensitivityDetector.analyze with  *)
(* the regex stages, the fuzzy and embedding elevations and the schema     *)
(* hint.  What the matchers and models say of a text is the evidence, a    *)
(* record; the settings are the clamped sensitivity_detection block.       *)
(***************************************************************************)
EXTENDS Integers

CONSTANTS
    Patterns,       \* names of the patterns in force
    Weak,           \* WEAK_PATTERNS_IN_ENTERTAINMENT
    Gated,          \* _CHECKSUM_GATED_PATTERNS
    Accelerated,    \* patterns the Rust stage compiled; Python keeps the rest
    NoScore         \* no embedding classifier, no similarity

ASSUME DetectionAssumption ==
    /\ Weak \subseteq Patterns /\ Gated \subseteq Patterns /\ Accelerated \subseteq Patterns
    /\ NoScore \notin 0..100

Percent == 0..100

Evidence ==
    [matches : SUBSET Patterns,         \* patterns that Python's engine matches
     hits : SUBSET Accelerated,         \* patterns that the Rust stage reports
     valid : SUBSET Gated,              \* gated ones with a checksum-valid token
     rust : {"off", "works", "fails"},  \* the Rust stage, for this text
     entertainment : BOOLEAN,           \* lyrics, tabs, chords, docs, subtitles
     minor : BOOLEAN,                   \* _detect_possible_minor
     declared : BOOLEAN,                \* a declared sensitive term occurs
     ambiguous : BOOLEAN,               \* the name holds an ambiguous token
     typed : BOOLEAN,                   \* the SQL type suggests an identifier
     ml : Percent, dl : Percent,
     ratio : Percent,                   \* best fuzzy score; 0 for a short name
     similarity : Percent \cup {NoScore}]

Settings ==
    [medium : 1..69,
     fuzzy : BOOLEAN, fuzzyMin : Percent, fuzzyMax : Percent, fuzzyRatio : 50..100,
     hint : BOOLEAN, hintMin : Percent, hintMax : Percent, hintSimilarity : 50..100,
     format : BOOLEAN]

Larger(a, b) == IF a >= b THEN a ELSE b
Lesser(a, b) == IF a <= b THEN a ELSE b
Clamp(lo, hi, n) == Larger(lo, Lesser(hi, n))

\* SensitivityDetector.__init__: any integers come out as settings.
Clean(raw) ==
    [raw EXCEPT !.medium = Clamp(1, 69, @),
                !.fuzzyMin = Clamp(0, 100, @), !.fuzzyMax = Clamp(0, 100, @),
                !.fuzzyRatio = Clamp(50, 100, @),
                !.hintMin = Clamp(0, 100, @), !.hintMax = Clamp(0, 100, @),
                !.hintSimilarity = Clamp(50, 100, @)]

-----------------------------------------------------------------------------

\* _append_pattern_hit: the checksum gate.
Counts(e, p) == p \in Gated => p \in e.valid

\* RustRegexStage.match_names and the names left to Python.
RustHits(e) == IF e.rust = "works" THEN e.hits ELSE {}
PythonOnly(e) == IF e.rust = "works" THEN Patterns \ Accelerated ELSE Patterns

\* _match_regex_patterns
Found(e) == {p \in RustHits(e) \cup (e.matches \cap PythonOnly(e)) : Counts(e, p)}

\* max(ml, dl), with the entertainment penalty.
Confidence(e) ==
    IF e.entertainment THEN Larger(0, Larger(e.ml, e.dl) - 25) ELSE Larger(e.ml, e.dl)

\* try_fuzzy_elevation: a band below MEDIUM, cut at two thresholds.
FuzzyTop(s) == Clamp(0, 100, Lesser(s.fuzzyMax, Larger(2, s.medium) - 1))
FuzzyLifts(s, e) ==
    /\ s.fuzzy
    /\ Confidence(e) \in s.fuzzyMin..FuzzyTop(s)
    /\ e.ratio >= s.fuzzyRatio

\* try_embedding_prototype_elevation
HintTop(s) == Lesser(s.hintMax, s.medium - 1)
HintLifts(s, e) ==
    /\ s.hint /\ e.similarity # NoScore
    /\ Confidence(e) \in s.hintMin..HintTop(s)
    /\ e.similarity >= s.hintSimilarity

Result(l, why, score) == [level |-> l, why |-> why, score |-> score]

\* analyze, return by return.
Verdict(s, e) ==
    LET conf == Confidence(e) IN
    IF Found(e) # {} THEN
        IF e.entertainment /\ Found(e) \subseteq Weak /\ ~e.minor
        THEN Result("MEDIUM", "patterns", Lesser(conf, 55))
        ELSE Result("HIGH", "patterns", Larger(conf, IF e.entertainment THEN 70 ELSE 80))
    ELSE IF e.minor THEN Result("HIGH", "DOB_POSSIBLE_MINOR", Larger(conf, 80))
    ELSE IF ~e.entertainment /\ e.declared
         THEN Result("HIGH", "DECLARED_TERM_MATCH", Larger(conf, 80))
    ELSE IF e.ambiguous /\ conf >= s.medium THEN Result("MEDIUM", "PII_AMBIGUOUS", conf)
    ELSE IF FuzzyLifts(s, e) THEN Result("MEDIUM", "FUZZY_COLUMN_MATCH", conf)
    ELSE IF HintLifts(s, e) THEN Result("MEDIUM", "EMBEDDING_PROTOTYPE_HINT", conf)
    ELSE IF conf >= 70 THEN
        IF e.entertainment THEN Result("MEDIUM", "ML_POTENTIAL_ENTERTAINMENT", Lesser(conf, 55))
        ELSE Result("HIGH", "ML_DETECTED", conf)
    ELSE IF conf >= s.medium THEN Result("MEDIUM", "ML_POTENTIAL", conf)
    ELSE IF s.format /\ e.typed THEN Result("MEDIUM", "FORMAT_HINT", Larger(conf, s.medium))
    ELSE Result("LOW", "GENERAL", conf)

Level(s, e) == Verdict(s, e).level

\* scan_file_content: LOW is not kept.
Sensitive(s, e) == Level(s, e) # "LOW"

-----------------------------------------------------------------------------
(* Facts about the classification, proved in PipelineProofs.               *)

Severity == [LOW |-> 0, MEDIUM |-> 1, HIGH |-> 2]

\* No hole between an elevation band and MEDIUM, as with the default settings.
Gapless(s) ==
    /\ s.fuzzy => s.fuzzyMax >= s.medium - 1
    /\ s.hint => s.hintMax >= s.medium - 1

\* The same text and a larger model confidence.
Surer(e, f) == /\ f = [e EXCEPT !.ml = f.ml, !.dl = f.dl]
               /\ f.ml >= e.ml /\ f.dl >= e.dl
=============================================================================
