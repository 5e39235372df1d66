----------------------------- MODULE Pseudonyms -----------------------------
(***************************************************************************)
(* From findings to a pseudonymized text and back: the pseudonyms of the   *)
(* engine (pseudonymizer/engine.py), their substitution in texts and in    *)
(* the runs of a document (pseudonymizer/transformer.py), the mapping that *)
(* is encrypted (core/pipeline.py, api/console_routes.py), and the revert  *)
(* (core/revert.py).                                                       *)
(*                                                                         *)
(* A text is a sequence of letters.  Nothing here waits or fails: a batch  *)
(* is scanned by one thread, finding by finding, and reviewed as a whole.  *)
(***************************************************************************)
EXTENDS Naturals, Sequences

CONSTANTS
    Letters,      \* what texts are written with, a prefix or a number among them
    Values,       \* the values that are found
    Canonical,    \* Canonical[v]: what the detector normalises v to
    Types,        \* the types of entities
    Prefixed,     \* those with a prefix of their own, which is their name here
    Preserving,   \* those whose pseudonym keeps the first letter (IPV4, URL in
                  \* light mode)
    Numeral,      \* Numeral[n]: the digits of a counter (_format_counter)
    Custom,       \* the pseudonym a reviewer may choose instead
    Free,         \* words of the text that nothing is found in
    Gap,          \* the letter between two words, as a line break
    Texts,        \* Texts[S]: the texts of words in S that are looked at
    MaxFindings   \* bound: the findings of a batch

Text == Seq(Letters)

Has(t, letter) == \E i \in 1..Len(t) : t[i] = letter

ASSUME ValuesAssumption ==
    /\ Values \subseteq Text \ {<<>>} /\ Canonical \in [Values -> Values]
    /\ Types \cup {"ENTITY", "x"} \subseteq Letters
    /\ Prefixed \subseteq Types /\ Preserving \subseteq Types \ Prefixed
    /\ MaxFindings \in Nat

\* Python writes two numbers differently, padded or not.
ASSUME NumeralAssumption ==
    /\ \A n \in 1..MaxFindings : Numeral[n] \in Text
    /\ \A m, n \in 1..MaxFindings : Numeral[m] = Numeral[n] => m = n

\* "ENTITY" is nobody's own prefix, and no address (IPV4, URL) starts with one.
ASSUME PrefixAssumption ==
    /\ "ENTITY" \notin Prefixed
    /\ \A v \in Values : Head(v) \notin Prefixed

\* An empty choice of the reviewer counts as none.  No value has a gap in it.
ASSUME TextsAssumption ==
    /\ Custom \in Text \ {<<>>} /\ Free \subseteq Text /\ Gap \in Letters
    /\ \A v \in Values : ~Has(v, Gap)
    /\ \A S \in SUBSET (Values \cup Free) : Texts[S] \subseteq Seq(S) \ {<<>>}

VARIABLES
    found,      \* the findings of the batch at hand, each with its pseudonym
    assigned,   \* _mapping: the pseudonym of each key
    counters,   \* _counters
    verdicts,   \* what was decided of each finding; <<>> before the review
    stage,      \* how far the batch is: "scan", "reviewed", "apply", "revert"
    words,      \* the words of a text that is pseudonymized
    text,       \* what has become of the text
    documents,  \* and of its two runs, in a document that is cut anywhere
    todo        \* the keys of the map that are not replaced yet

engine == <<assigned, counters>>
texts == <<words, text, documents, todo>>
scanned == <<found, engine, verdicts, stage, texts>>

Verdict == {"ACCEPT", "REJECT", "MODIFY"}

-----------------------------------------------------------------------------
(* The engine: one pseudonym for each type and canonical value.            *)

Generate(type, value, n) ==
    CASE type \in Prefixed   -> <<type>> \o Numeral[n]
      [] type \in Preserving -> <<Head(value), "x">>
      [] OTHER               -> <<"ENTITY">> \o Numeral[n]

(* Wrong on purpose: values keep the case they are found with.             *)
KeyAsFound(type, value) == <<type, value>>

Key(type, value) == <<type, Canonical[value]>>

AddFinding(type, value, pseudonym) ==
    found' = Append(found, [type |-> type, value |-> value, proposed |-> pseudonym])

Scanning == stage = "scan" /\ Len(found) < MaxFindings

PseudonymsInit ==
    /\ found = <<>> /\ verdicts = <<>> /\ stage = "scan"
    /\ assigned = [k \in {} |-> <<>>]
    /\ counters = [t \in Types |-> 0]
    /\ words = <<>> /\ text = <<>> /\ documents = <<>> /\ todo = {}

\* A value found again, in whatever case and file.
FindAgain(type, value) ==
    /\ Scanning /\ Key(type, value) \in DOMAIN assigned
    /\ AddFinding(type, value, assigned[Key(type, value)])
    /\ UNCHANGED <<engine, verdicts, stage, texts>>

\* A new key takes the next number of its type, also if it will not show it.
FindNew(type, value) ==
    LET key == Key(type, value)
        pseudonym == Generate(type, Canonical[value], counters[type] + 1)
    IN  /\ Scanning /\ key \notin DOMAIN assigned
        /\ counters' = [counters EXCEPT ![type] = @ + 1]
        /\ assigned' = [k \in DOMAIN assigned \cup {key} |->
                          IF k = key THEN pseudonym ELSE assigned[k]]
        /\ AddFinding(type, value, pseudonym)
        /\ UNCHANGED <<verdicts, stage, texts>>

\* What is decided in the end.  A finding the policy leaves out has taken its number
\* and counts as one that is rejected.
Review ==
    /\ found # <<>> /\ stage = "scan" /\ stage' = "reviewed"
    /\ verdicts' \in [DOMAIN found -> Verdict]
    /\ UNCHANGED <<found, engine, texts>>

\* The pseudonyms after review: a chosen one in place of the proposed.
Final ==
    [i \in DOMAIN found |-> IF verdicts[i] = "MODIFY" THEN Custom ELSE found[i].proposed]

-----------------------------------------------------------------------------
(* Substitution: one key of the map after the other, each on the result of *)
(* those before, the longest first.                                        *)

Kept == {i \in DOMAIN verdicts : verdicts[i] # "REJECT"}

KeptValues == {found[i].value : i \in Kept}

FirstOf(S) == CHOOSE i \in S : \A j \in S : i <= j

SubstitutionMap ==
    [v \in KeptValues |-> Final[FirstOf({i \in Kept : found[i].value = v})]]

\* old is in the text at place i.
Match(t, old, i) ==
    /\ i + Len(old) <= Len(t) + 1
    /\ \A j \in 1..Len(old) : t[i + j - 1] = old[j]

\* str.replace: every occurrence from the left, none overlapping the one before.
Replace(t, old, new) ==
    LET from[i \in 1..(Len(t) + 1)] ==
            IF i = Len(t) + 1 THEN <<>>
            ELSE IF Match(t, old, i) THEN new \o from[i + Len(old)]
            ELSE <<t[i]>> \o from[i + 1]
    IN  from[1]

(* Wrong on purpose: only the first run, as if a paragraph had no other.    *)
TransformFirstRun(runs, old, new) ==
    [i \in DOMAIN runs |-> IF i = 1 THEN Replace(runs[i], old, new) ELSE runs[i]]

\* The runs of a document, its cells, the pages of a PDF: each one by itself.
TransformRuns(runs, old, new) == [i \in DOMAIN runs |-> Replace(runs[i], old, new)]

(* Wrong on purpose: the shortest first.                                   *)
Shortest(keys) == {k \in keys : \A l \in keys : Len(k) <= Len(l)}

\* The keys that may be next in an order of decreasing length.
Longest(keys) == {k \in keys : \A l \in keys : Len(l) <= Len(k)}

\* The words of a text: values that are replaced, and words without any.
Occurs(value, word) == \E i \in 1..Len(word) : Match(word, value, i)

Words ==
    {w \in Values \cup Free : w \in KeptValues \/ \A v \in KeptValues : ~Occurs(v, w)}

Join(ws) ==
    LET upTo[n \in DOMAIN ws] ==
            IF n = 1 THEN ws[1] ELSE upTo[n - 1] \o <<Gap>> \o ws[n]
    IN  upTo[Len(ws)]

\* The two runs of a document that is cut after c letters of the m-th word.
Cuts(ws) == UNION {{m} \X (0..Len(ws[m])) : m \in DOMAIN ws}

Runs(ws, m, c) ==
    << Join([i \in 1..m |-> IF i = m THEN SubSeq(ws[m], 1, c) ELSE ws[i]]),
       Join([i \in 1..(Len(ws) + 1 - m) |->
                IF i = 1 THEN SubSeq(ws[m], c + 1, Len(ws[m])) ELSE ws[m + i - 1]]) >>

BeginApply ==
    /\ stage = "reviewed" /\ stage' = "apply"
    /\ words' \in Texts[Words]
    /\ text' = Join(words')
    /\ documents' = [cut \in Cuts(words') |-> Runs(words', cut[1], cut[2])]
    /\ todo' = DOMAIN SubstitutionMap
    /\ UNCHANGED <<found, engine, verdicts>>

\* Of two keys of the same length, either may be the first.
Apply(key) ==
    LET new == SubstitutionMap[key]
    IN  /\ stage = "apply" /\ key \in Longest(todo)
        /\ text' = Replace(text, key, new)
        /\ documents' = [cut \in DOMAIN documents |->
                            TransformRuns(documents[cut], key, new)]
        /\ todo' = todo \ {key}
        /\ UNCHANGED <<found, engine, verdicts, stage, words>>

-----------------------------------------------------------------------------
(* The mapping and the revert.                                             *)

(* Wrong on purpose: made from the pseudonyms proposed, not the final.     *)
MappingOfProposed ==
    [p \in {found[i].proposed : i \in Kept} |->
        Canonical[found[FirstOf({i \in Kept : found[i].proposed = p})].value]]

MappingOf ==
    [p \in {Final[i] : i \in Kept} |->
        Canonical[found[FirstOf({i \in Kept : Final[i] = p})].value]]

BeginRevert ==
    /\ stage = "apply" /\ todo = {} /\ stage' = "revert"
    /\ todo' = DOMAIN MappingOf
    /\ UNCHANGED <<found, engine, verdicts, words, text, documents>>

\* Only texts are reverted: documents are copied as they are.
Revert(key) ==
    /\ stage = "revert" /\ key \in Longest(todo)
    /\ text' = Replace(text, key, MappingOf[key])
    /\ todo' = todo \ {key}
    /\ UNCHANGED <<found, engine, verdicts, stage, words, documents>>

\* The batch is removed, and its engine with it.
EndBatch ==
    /\ stage # "scan" /\ todo = {} /\ stage' = "scan"
    /\ found' = <<>> /\ verdicts' = <<>>
    /\ assigned' = [k \in {} |-> <<>>]
    /\ counters' = [t \in Types |-> 0]
    /\ words' = <<>> /\ text' = <<>> /\ documents' = <<>> /\ todo' = {}

PseudonymsNext ==
    \/ \E type \in Types, value \in Values : FindAgain(type, value) \/ FindNew(type, value)
    \/ \E key \in todo : Apply(key) \/ Revert(key)
    \/ Review \/ BeginApply \/ BeginRevert \/ EndBatch

PseudonymsSpec == PseudonymsInit /\ [][PseudonymsNext]_scanned

-----------------------------------------------------------------------------
(* Properties, of the batch at hand.                                       *)

\* Values of a type with its own prefix have the same pseudonym if and only if
\* they are the same when normalised, and never one of another type: a reader of
\* the pseudonymized text can tell who is who, in whatever order types and values
\* are met.
PseudonymsTellApart ==
    \A i, j \in DOMAIN found :
        found[i].type \in Prefixed
          => (found[i].proposed = found[j].proposed
                <=> /\ found[i].type = found[j].type
                    /\ Canonical[found[i].value] = Canonical[found[j].value])

\* No value occurs in the pseudonym of another one that is not shorter, and so may be
\* replaced before it.
Apart ==
    \A v, w \in KeptValues :
        v # w /\ Len(v) <= Len(w) => ~Occurs(v, SubstitutionMap[w])

\* The text with image[v] for each value v that is replaced.
Reading(image) ==
    Join([m \in DOMAIN words |->
            IF words[m] \in KeptValues THEN image[words[m]] ELSE words[m]])

\* A value that is replaced is replaced as a whole, also where a shorter one is a
\* part of it, and by the pseudonym of its first finding that was not rejected;
\* the other words stay as they are.
ReplacedAsWholes ==
    LET Finds(v) == {i \in Kept : found[i].value = v}
        first[v \in KeptValues] ==
            Final[CHOOSE i \in Finds(v) : \A j \in Finds(v) : i <= j]
    IN  stage = "apply" /\ todo = {} /\ Apart => text = Reading(first)

\* Findings with one pseudonym are of one value, as the detectors normalise it.
Distinct ==
    \A i, j \in Kept : Final[i] = Final[j] => Canonical[found[i].value] = Canonical[found[j].value]

\* No pseudonym occurs in a value that may be put back before it, in the other words
\* of the text, or across two words.
Fresh ==
    \A i \in Kept :
        /\ ~Has(Final[i], Gap)
        /\ \A j \in Kept : Final[i] # Final[j] /\ Len(Final[i]) <= Len(Final[j])
                              => ~Occurs(Final[i], Canonical[found[j].value])
        /\ \A m \in DOMAIN words : words[m] \in KeptValues \/ ~Occurs(Final[i], words[m])

\* The revert gives back the text, with values as the detectors normalise them,
\* if different values were given different pseudonyms that nothing else in the
\* text looks like: whichever types, choices of the reviewer and values within
\* values a batch has.
RevertRestores ==
    stage = "revert" /\ todo = {} /\ Apart /\ Distinct /\ Fresh => text = Reading(Canonical)

\* A document hides what its text hides, wherever it is cut into runs, but through a
\* word that is replaced; and so after each key.
RunsHideTheSame ==
    stage = "apply" =>
        \A m \in DOMAIN words : \A c \in 0..Len(words[m]) :
            \/ words[m] \in KeptValues /\ c \in 1..(Len(words[m]) - 1)
            \/ documents[<<m, c>>][1] \o documents[<<m, c>>][2] = text

=============================================================================
