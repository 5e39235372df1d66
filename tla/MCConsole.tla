----------------------------- MODULE MCConsole -----------------------------
(***************************************************************************)
(* ConsoleFlow for TLC, with the texts and pseudonyms it exchanges.  What  *)
(* becomes of a text depends on its findings alone, and so it is explored  *)
(* beside the first state only.  "A" is "a" in another case, which the     *)
(* detectors normalise; "ab" contains "a".  A text has all words it may    *)
(* have, but for the one that is the pseudonym a reviewer may choose.      *)
(***************************************************************************)
EXTENDS ConsoleFlow, Pseudonyms, SequencesExt

MCValues == {<<"a">>, <<"A">>, <<"a", "b">>}
MCCanonical == [v \in MCValues |-> IF v = <<"A">> THEN <<"a">> ELSE v]
MCCustom == <<"EMAIL">>
MCFree == {<<"EMAIL">>, <<"b">>}
MCTexts ==
    [S \in SUBSET (MCValues \cup MCFree) |->
        {SetToSeq(S), SetToSeq(S \ {MCCustom})} \ {<<>>}]

\* Counters in base 2 and not padded, so that three findings are enough for one
\* to be longer than another.
MCNumeral == << <<"1">>, <<"1", "0">>, <<"1", "1">> >>

CONSTANT MaxAtOnce  \* bound: how much of what follows meets in one run

\* A restart, a new passphrase, the task of a batch apply and each retry of it, the
\* end of the requests, and the applies that are under way.
Turns ==
    restarts + (IF keys > 1 THEN keys - 1 ELSE 0)
    + (IF task.state = "none" THEN 0 ELSE 1 + task.tries)
    + (IF quiet THEN 1 ELSE 0) + Cardinality({a \in Applies : apply[a] # Idle})

MCInit == Init /\ PseudonymsInit

MCNext ==
    \/ found = <<>> /\ Next /\ Turns' <= MaxAtOnce /\ UNCHANGED scanned
    \/ Init /\ PseudonymsNext /\ UNCHANGED vars

MCSpec == MCInit /\ [][MCNext]_<<vars, scanned>> /\ Fairness

=============================================================================
