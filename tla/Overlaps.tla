------------------------------ MODULE Overlaps ------------------------------
(***************************************************************************)
(* What becomes of the findings of one chunk that overlap                  *)
(* (_resolve_overlaps of detectors/engine.py).  A finding is its span in   *)
(* the text and the priority of its type.  Of several with one span and    *)
(* one priority the code keeps at most the first, by its confidence and    *)
(* then by which detector ended first; they are one here.                  *)
(***************************************************************************)
EXTENDS Naturals, Sequences, FiniteSetsExt

CONSTANTS
    Length,      \* bound: the length of the text
    Priorities,  \* the priorities of the entity types (_ENTITY_PRIORITY)
    MaxFindings  \* bound: the findings of a chunk

ASSUME SizesAssumption ==
    Length \in Nat /\ Priorities \subseteq Nat /\ MaxFindings \in Nat

VARIABLES
    found,  \* all_findings of the chunk at hand; none between two chunks
    rest,   \* those of sorted_findings that the loop has not come to
    kept    \* resolved

chunk == <<found, rest, kept>>

RawFinding == {f \in [start : 0..Length, end : 0..Length, priority : Priorities] :
                  f.start < f.end}

Width(f) == f.end - f.start

Overlap(f, g) == f.start < g.end /\ g.start < f.end

\* The order in which they are taken.
Before(f, g) ==
    \/ f.start < g.start
    \/ f.start = g.start /\ f.priority > g.priority
    \/ f.start = g.start /\ f.priority = g.priority /\ Width(f) > Width(g)

(* Wrong on purpose: the wider one, whatever it is.                        *)
StrongerByWidth(f, g) == Width(f) > Width(g)

Stronger(f, g) ==
    \/ f.priority > g.priority
    \/ f.priority = g.priority /\ Width(f) > Width(g)

LastKept == kept[Len(kept)]

(* Wrong on purpose: the stronger one is kept beside the other; one that    *)
(* only touches the last one is taken for an overlap.                      *)
TakeBoth(f) ==
    IF kept = <<>> \/ f.start >= LastKept.end \/ Stronger(f, LastKept)
    THEN Append(kept, f) ELSE kept
TakeWeaker(f) ==
    IF kept = <<>> \/ f.start > LastKept.end THEN Append(kept, f)
    ELSE IF Stronger(f, LastKept) THEN [kept EXCEPT ![Len(kept)] = f]
    ELSE kept

\* One that begins before the end of the last one kept takes its place if it is
\* stronger, and is dropped otherwise.
Take(f) ==
    IF kept = <<>> \/ f.start >= LastKept.end THEN Append(kept, f)
    ELSE IF Stronger(f, LastKept) THEN [kept EXCEPT ![Len(kept)] = f]
    ELSE kept

-----------------------------------------------------------------------------
(* One chunk after the other (detect_in_chunk).                            *)

Chunks == UNION {kSubset(n, RawFinding) : n \in 0..MaxFindings}

OverlapsInit == found = {} /\ rest = {} /\ kept = <<>>

\* The detectors have searched a chunk, each in a thread; one that raises has
\* found nothing.
Collect ==
    /\ found = {}
    /\ found' \in Chunks
    /\ rest' = found' /\ kept' = <<>>

\* The next one of sorted_findings.
First(f) == f \in rest /\ \A g \in rest \ {f} : Before(f, g)

TakeFirst ==
    \E f \in rest :
        /\ First(f)
        /\ kept' = Take(f)
        /\ rest' = rest \ {f} /\ UNCHANGED found

\* What is kept is handed on.
HandOn ==
    /\ found # {} /\ rest = {}
    /\ found' = {} /\ kept' = <<>> /\ UNCHANGED rest

OverlapsNext == Collect \/ TakeFirst \/ HandOn

OverlapsSpec == OverlapsInit /\ [][OverlapsNext]_chunk

-----------------------------------------------------------------------------
(* Properties, of the findings the loop has come to; at its end, of all.   *)

IsKept(f) == \E i \in DOMAIN kept : kept[i] = f

\* No two findings that are kept overlap, and they are in the order of the text:
\* replacing the last one never reaches back into the one before it.
KeptAreDisjoint ==
    \A i, j \in DOMAIN kept : i < j => kept[i].end <= kept[j].start

\* A finding whose priority is above that of all it overlaps is kept and stays so,
\* in whatever order the detectors delivered them and whatever was replaced before
\* it.
StrongestAreKept ==
    \A f \in found \ rest :
        (\A g \in found \ {f} : Overlap(f, g) => f.priority > g.priority)
            => IsKept(f)

\* A finding is dropped only because of one that overlaps it and is not weaker.
\* (That one may itself be replaced later, and what replaces it need not overlap
\* the first.)
DroppedForAStronger ==
    \A f \in found \ rest :
        \/ IsKept(f)
        \/ \E g \in found \ {f} : Overlap(f, g) /\ ~Stronger(f, g)

=============================================================================
