-------------------------- MODULE Pseudonyms_proofs --------------------------
(***************************************************************************)
(* What is proved of the pseudonyms of a batch and of its texts            *)
(* (Pseudonyms), for any values, types and number of findings, and texts   *)
(* of any length: first of the engine, then of what str.replace and a join *)
(* of words do letter by letter, then of a batch word by word, from its    *)
(* first key to the last of the revert.                                    *)
(***************************************************************************)
EXTENDS Pseudonyms, TLAPS, FiniteSetTheorems, WellFoundedInduction, SequenceTheorems

-----------------------------------------------------------------------------
(* The engine: pseudonyms made for different numbers or types.             *)

Number == 1..MaxFindings

Pseudonym == {Generate(t, v, n) : t \in Types, v \in Values, n \in Number}

LEMMA Prepended ==
    ASSUME NEW h, NEW S, NEW s \in Seq(S), h \in S
    PROVE  /\ (<<h>> \o s)[1] = h
           /\ Len(<<h>> \o s) = Len(s) + 1
           /\ \A i \in 1..Len(s) : (<<h>> \o s)[i + 1] = s[i]
<1>1. <<h>> \in Seq(S) /\ Len(<<h>>) = 1 /\ <<h>>[1] = h
  OBVIOUS
<1>2. Len(s) \in Nat
  OBVIOUS
<1>3. Len(<<h>> \o s) = 1 + Len(s)
  BY <1>1
<1>4. (<<h>> \o s)[1] = h
  BY <1>1, <1>2
<1>5. ASSUME NEW i \in 1..Len(s) PROVE (<<h>> \o s)[i + 1] = s[i]
  BY <1>1, <1>2
<1> QED
  BY <1>2, <1>3, <1>4, <1>5

LEMMA SameTail ==
    ASSUME NEW h, NEW S, h \in S, NEW s \in Seq(S), NEW r \in Seq(S), <<h>> \o s = <<h>> \o r
    PROVE  s = r
<1>1. Len(s) = Len(r) /\ Len(s) \in Nat
  <2>1. Len(s) + 1 = Len(r) + 1
    BY Prepended
  <2> QED
    BY <2>1
<1>2. ASSUME NEW i \in 1..Len(s) PROVE s[i] = r[i]
  <2>1. (<<h>> \o s)[i + 1] = s[i]
    BY Prepended
  <2>2. (<<h>> \o r)[i + 1] = r[i]
    BY <1>1, Prepended
  <2> QED
    BY <2>1, <2>2
<1> QED
  BY <1>1, <1>2

\* A pseudonym with a prefix of its own tells its type and its number.
LEMMA GenerateApart ==
    ASSUME NEW t \in Prefixed, NEW u \in Types, NEW v \in Values, NEW w \in Values,
           NEW m \in Number, NEW n \in Number,
           Generate(t, v, m) = Generate(u, w, n)
    PROVE  t = u /\ m = n
<1> DEFINE S == Letters
<1>1. Numeral[m] \in Seq(S) /\ Numeral[n] \in Seq(S)
  BY NumeralAssumption DEF Number, Text
<1>2. t \in S /\ u \in S /\ "ENTITY" \in S
  BY ValuesAssumption
<1>3. Generate(t, v, m) = <<t>> \o Numeral[m]
  BY ValuesAssumption DEF Generate
<1>4. Generate(t, v, m)[1] = t
  BY <1>1, <1>2, <1>3, Prepended
<1>5. u \in Prefixed
  <2> SUFFICES ASSUME u \notin Prefixed PROVE FALSE
    OBVIOUS
  <2>1. CASE u \in Preserving
    <3>1. Generate(u, w, n) = <<Head(w), "x">>
      BY <2>1 DEF Generate
    <3>2. Generate(u, w, n)[1] = Head(w)
      BY <3>1
    <3> QED
      BY <1>4, <3>2, PrefixAssumption
  <2>2. CASE u \notin Preserving
    <3>1. Generate(u, w, n) = <<"ENTITY">> \o Numeral[n]
      BY <2>2 DEF Generate
    <3>2. Generate(u, w, n)[1] = "ENTITY"
      BY <1>1, <1>2, <3>1, Prepended
    <3> QED
      BY <1>4, <3>2, PrefixAssumption
  <2> QED
    BY <2>1, <2>2
<1>6. Generate(u, w, n) = <<u>> \o Numeral[n]
  BY <1>5, ValuesAssumption DEF Generate
<1>7. t = u
  BY <1>1, <1>2, <1>4, <1>6, Prepended
<1>8. Numeral[m] = Numeral[n]
  BY <1>1, <1>2, <1>3, <1>6, <1>7, SameTail
<1> QED
  BY <1>7, <1>8, NumeralAssumption DEF Number

-----------------------------------------------------------------------------
(* The invariant of the engine: what a key was assigned was made for it,   *)
(* with a number its type has reached; no two keys of a type have one      *)
(* number; and a finding carries what its key was assigned.                *)

Finding == [type : Types, value : Values, proposed : Pseudonym]

EngineType ==
    /\ found \in Seq(Finding) /\ Len(found) <= MaxFindings
    /\ DOMAIN assigned \subseteq Types \X Values
    /\ counters \in [Types -> Nat]
    /\ \A t \in Types : counters[t] <= Len(found)

Numbered ==
    \A k \in DOMAIN assigned :
        \E n \in 1..counters[k[1]] : assigned[k] = Generate(k[1], k[2], n)

NoneTwice ==
    \A k, l \in DOMAIN assigned :
        k[1] \in Prefixed /\ assigned[k] = assigned[l] => k = l

Carried ==
    \A i \in DOMAIN found :
        /\ Key(found[i].type, found[i].value) \in DOMAIN assigned
        /\ found[i].proposed = assigned[Key(found[i].type, found[i].value)]

EngineInv == EngineType /\ Numbered /\ NoneTwice /\ Carried

LEMMA NothingFound ==
    ASSUME found = <<>>, assigned = [k \in {} |-> <<>>], counters = [t \in Types |-> 0]
    PROVE  EngineInv
BY ValuesAssumption DEF EngineInv, EngineType, Numbered, NoneTwice, Carried

\* What the next finding is, in either case.
LEMMA Appended ==
    ASSUME EngineInv, NEW type \in Types, NEW value \in Values, NEW p \in Pseudonym,
           Scanning, AddFinding(type, value, p)
    PROVE  /\ found' \in Seq(Finding) /\ Len(found') <= MaxFindings
           /\ Len(found') = Len(found) + 1 /\ Len(found) \in Nat
           /\ DOMAIN found' = 1..(Len(found) + 1) /\ DOMAIN found = 1..Len(found)
           /\ \A i \in DOMAIN found : found'[i] = found[i]
           /\ found'[Len(found) + 1] = [type |-> type, value |-> value, proposed |-> p]
<1> DEFINE f == [type |-> type, value |-> value, proposed |-> p]
<1>1. found \in Seq(Finding) /\ f \in Finding /\ found' = Append(found, f)
  BY DEF EngineInv, EngineType, Finding, AddFinding
<1>2. Len(found) \in Nat /\ Len(found) < MaxFindings
  BY <1>1 DEF Scanning
<1> HIDE DEF f
<1>3. found' \in Seq(Finding) /\ Len(found') = Len(found) + 1
  BY <1>1
<1>4. DOMAIN found' = 1..(Len(found) + 1) /\ DOMAIN found = 1..Len(found)
  BY <1>1, <1>3
<1>5. found'[Len(found) + 1] = f /\ \A i \in 1..Len(found) : found'[i] = found[i]
  BY <1>1
<1>6. Len(found') <= MaxFindings
  BY <1>2, <1>3, ValuesAssumption
<1> QED
  BY <1>2, <1>3, <1>4, <1>5, <1>6 DEF f

LEMMA FindAgainKeeps ==
    ASSUME EngineInv, NEW type \in Types, NEW value \in Values, FindAgain(type, value)
    PROVE  EngineInv'
<1> DEFINE key == Key(type, value)
           p == assigned[key]
<1>1. key \in DOMAIN assigned /\ Scanning /\ AddFinding(type, value, p)
      /\ assigned' = assigned /\ counters' = counters
  BY DEF FindAgain, engine
<1>2. p \in Pseudonym
  <2>1. PICK n \in 1..counters[key[1]] : p = Generate(key[1], key[2], n)
    BY <1>1 DEF EngineInv, Numbered
  <2>2. key[1] \in Types /\ key[2] \in Values
    BY ValuesAssumption DEF Key
  <2>3. counters[key[1]] \in Nat /\ counters[key[1]] <= Len(found)
    BY <2>2 DEF EngineInv, EngineType
  <2>4. Len(found) \in Nat /\ Len(found) <= MaxFindings
    BY DEF EngineInv, EngineType
  <2>5. n \in Number
    BY <2>3, <2>4, ValuesAssumption DEF Number
  <2> QED
    BY <2>1, <2>2, <2>5 DEF Pseudonym
<1> HIDE DEF key, p
<1>3. /\ found' \in Seq(Finding) /\ Len(found') <= MaxFindings
      /\ Len(found') = Len(found) + 1 /\ Len(found) \in Nat
      /\ DOMAIN found' = 1..(Len(found) + 1) /\ DOMAIN found = 1..Len(found)
      /\ \A i \in DOMAIN found : found'[i] = found[i]
      /\ found'[Len(found) + 1] = [type |-> type, value |-> value, proposed |-> p]
  BY <1>1, <1>2, Appended
<1>4. EngineType'
  BY <1>1, <1>3 DEF EngineInv, EngineType
<1>5. Numbered' /\ NoneTwice'
  BY <1>1 DEF EngineInv, Numbered, NoneTwice, Generate
<1>6. Carried'
  <2> SUFFICES ASSUME NEW i \in DOMAIN found'
               PROVE  /\ Key(found'[i].type, found'[i].value) \in DOMAIN assigned
                      /\ found'[i].proposed = assigned[Key(found'[i].type, found'[i].value)]
    BY <1>1 DEF Carried, Key
  <2>1. CASE i \in DOMAIN found
    BY <1>3, <2>1 DEF EngineInv, Carried
  <2>2. CASE i = Len(found) + 1
    BY <1>1, <1>3, <2>2 DEF key, p
  <2>3. i \in DOMAIN found \/ i = Len(found) + 1
    BY <1>3
  <2> QED
    BY <2>1, <2>2, <2>3
<1> QED
  BY <1>4, <1>5, <1>6 DEF EngineInv

LEMMA FindNewKeeps ==
    ASSUME EngineInv, NEW type \in Types, NEW value \in Values, FindNew(type, value)
    PROVE  EngineInv'
<1> DEFINE key == Key(type, value)
           m == counters[type] + 1
           p == Generate(type, Canonical[value], m)
<1>1. /\ Scanning /\ key \notin DOMAIN assigned /\ AddFinding(type, value, p)
      /\ counters' = [counters EXCEPT ![type] = m]
      /\ assigned' = [k \in DOMAIN assigned \cup {key} |-> IF k = key THEN p ELSE assigned[k]]
  BY DEF FindNew
<1>2. key = <<type, Canonical[value]>> /\ Canonical[value] \in Values
  BY ValuesAssumption DEF Key
<1>3. /\ counters \in [Types -> Nat] /\ Len(found) \in Nat /\ Len(found) < MaxFindings
      /\ \A t \in Types : counters[t] <= Len(found)
  BY <1>1 DEF EngineInv, EngineType, Scanning
<1>4. m \in Number /\ counters[type] \in Nat /\ m = counters[type] + 1
  BY <1>3, ValuesAssumption DEF Number
<1>5. p \in Pseudonym
  BY <1>2, <1>4 DEF Pseudonym
<1>6. p = Generate(key[1], key[2], m) /\ key[1] = type /\ key \in Types \X Values
  BY <1>2
<1> HIDE DEF key, m, p
<1>7. /\ found' \in Seq(Finding) /\ Len(found') <= MaxFindings
      /\ Len(found') = Len(found) + 1
      /\ DOMAIN found' = 1..(Len(found) + 1) /\ DOMAIN found = 1..Len(found)
      /\ \A i \in DOMAIN found : found'[i] = found[i]
      /\ found'[Len(found) + 1] = [type |-> type, value |-> value, proposed |-> p]
  BY <1>1, <1>5, Appended
<1>8. /\ counters' \in [Types -> Nat] /\ counters'[type] = m
      /\ \A t \in Types : t # type => counters'[t] = counters[t]
  BY <1>1, <1>3, <1>4
<1>9. /\ DOMAIN assigned' = DOMAIN assigned \cup {key} /\ assigned'[key] = p
      /\ \A k \in DOMAIN assigned : assigned'[k] = assigned[k] /\ k # key
  BY <1>1
<1>10. EngineType'
  <2>1. \A t \in Types : counters'[t] <= Len(found')
    BY <1>3, <1>4, <1>7, <1>8
  <2>2. DOMAIN assigned' \subseteq Types \X Values
    BY <1>6, <1>9 DEF EngineInv, EngineType
  <2> QED
    BY <1>7, <1>8, <2>1, <2>2 DEF EngineType
<1>11. ASSUME NEW k \in DOMAIN assigned
       PROVE  /\ k[1] \in Types /\ k[2] \in Values /\ k = <<k[1], k[2]>>
              /\ \E n \in 1..counters[k[1]] :
                    n \in Number /\ assigned[k] = Generate(k[1], k[2], n)
  <2>1. k \in Types \X Values
    BY DEF EngineInv, EngineType
  <2>2. PICK n \in 1..counters[k[1]] : assigned[k] = Generate(k[1], k[2], n)
    BY DEF EngineInv, Numbered
  <2>3. k[1] \in Types /\ k[2] \in Values /\ k = <<k[1], k[2]>>
    BY <2>1
  <2>4. n \in Number
    BY <1>3, <2>3, ValuesAssumption DEF Number
  <2> QED
    BY <2>2, <2>3, <2>4
<1>12. Numbered'
  <2> SUFFICES ASSUME NEW k \in DOMAIN assigned'
               PROVE  \E n \in 1..counters'[k[1]] : assigned'[k] = Generate(k[1], k[2], n)
    BY DEF Numbered, Generate
  <2>1. CASE k = key
    <3>1. m \in 1..counters'[key[1]]
      BY <1>4, <1>6, <1>8
    <3> QED
      BY <1>6, <1>9, <2>1, <3>1
  <2>2. CASE k \in DOMAIN assigned
    <3>1. PICK n \in 1..counters[k[1]] : assigned[k] = Generate(k[1], k[2], n)
      BY <1>11, <2>2
    <3>2. k[1] \in Types
      BY <1>11, <2>2
    <3>3. n \in 1..counters'[k[1]]
      BY <1>3, <1>4, <1>8, <3>2
    <3> QED
      BY <1>9, <2>2, <3>1, <3>3
  <2> QED
    BY <1>9, <2>1, <2>2
<1>13. ASSUME NEW k \in DOMAIN assigned, k[1] \in Prefixed \/ type \in Prefixed
       PROVE  assigned[k] # p
  <2> SUFFICES ASSUME assigned[k] = p PROVE FALSE
    OBVIOUS
  <2>1. PICK n \in 1..counters[k[1]] : n \in Number /\ assigned[k] = Generate(k[1], k[2], n)
    BY <1>11
  <2>2. Generate(k[1], k[2], n) = Generate(type, key[2], m) /\ key[2] \in Values
    BY <1>6, <2>1
  <2>3. k[1] = type /\ n = m
    <3>1. CASE k[1] \in Prefixed
      BY <1>4, <1>11, <2>1, <2>2, <3>1, GenerateApart
    <3>2. CASE type \in Prefixed
      BY <1>4, <1>11, <2>1, <2>2, <3>2, GenerateApart
    <3> QED
      BY <1>13, <3>1, <3>2
  <2>4. n \in 1..counters[type] /\ n = counters[type] + 1
    BY <1>4, <2>1, <2>3
  <2> QED
    BY <1>4, <2>4
<1>14. NoneTwice'
  <2> SUFFICES ASSUME NEW k \in DOMAIN assigned', NEW l \in DOMAIN assigned',
                      k[1] \in Prefixed, assigned'[k] = assigned'[l]
               PROVE  k = l
    BY DEF NoneTwice
  <2>1. CASE k \in DOMAIN assigned /\ l \in DOMAIN assigned
    BY <1>9, <2>1 DEF EngineInv, NoneTwice
  <2>2. CASE k \in DOMAIN assigned /\ l = key
    BY <1>9, <1>13, <2>2
  <2>3. CASE k = key /\ l \in DOMAIN assigned
    BY <1>6, <1>9, <1>13, <2>3
  <2> QED
    BY <1>9, <2>1, <2>2, <2>3
<1>15. Carried'
  <2> SUFFICES ASSUME NEW i \in DOMAIN found'
               PROVE  /\ Key(found'[i].type, found'[i].value) \in DOMAIN assigned'
                      /\ found'[i].proposed = assigned'[Key(found'[i].type, found'[i].value)]
    BY DEF Carried, Key
  <2>1. CASE i \in DOMAIN found
    BY <1>7, <1>9, <2>1 DEF EngineInv, Carried
  <2>2. CASE i = Len(found) + 1
    BY <1>7, <1>9, <2>2 DEF key
  <2>3. i \in DOMAIN found \/ i = Len(found) + 1
    BY <1>3, <1>7
  <2> QED
    BY <2>1, <2>2, <2>3
<1> QED
  BY <1>10, <1>12, <1>14, <1>15 DEF EngineInv

LEMMA EngineStep == EngineInv /\ [PseudonymsNext]_scanned => EngineInv'
<1> SUFFICES ASSUME EngineInv, [PseudonymsNext]_scanned PROVE EngineInv'
  OBVIOUS
<1>1. ASSUME NEW type \in Types, NEW value \in Values, FindAgain(type, value)
      PROVE  EngineInv'
  BY <1>1, FindAgainKeeps
<1>2. ASSUME NEW type \in Types, NEW value \in Values, FindNew(type, value)
      PROVE  EngineInv'
  BY <1>2, FindNewKeeps
<1>3. CASE UNCHANGED <<found, engine>>
  BY <1>3 DEF engine, EngineInv, EngineType, Numbered, NoneTwice, Carried, Generate, Key
<1>4. CASE EndBatch
  <2>1. found' = <<>> /\ assigned' = [k \in {} |-> <<>>] /\ counters' = [t \in Types |-> 0]
    BY <1>4 DEF EndBatch
  <2> QED
    BY <2>1, ValuesAssumption DEF EngineInv, EngineType, Numbered, NoneTwice, Carried
<1>5. CASE UNCHANGED scanned
  BY <1>3, <1>5 DEF scanned
<1>6. CASE Review \/ BeginApply \/ BeginRevert
  BY <1>3, <1>6 DEF Review, BeginApply, BeginRevert
<1>7. ASSUME NEW key, Apply(key) \/ Revert(key) PROVE EngineInv'
  BY <1>3, <1>7 DEF Apply, Revert
<1> QED
  BY <1>1, <1>2, <1>4, <1>5, <1>6, <1>7 DEF PseudonymsNext

LEMMA EngineInvariant == PseudonymsSpec => []EngineInv
<1>1. PseudonymsInit => EngineInv
  BY NothingFound DEF PseudonymsInit
<1> QED
  BY <1>1, EngineStep, PTL DEF PseudonymsSpec

\* For any values, types and findings, a pseudonym of a type with its own prefix
\* stands for one normalised value of that type, and every finding of that value has
\* it (pseudonymizer/engine.py).
THEOREM ReadersTellApart == PseudonymsSpec => []PseudonymsTellApart
<1>1. EngineInv => PseudonymsTellApart
  <2> SUFFICES ASSUME EngineInv, NEW i \in DOMAIN found, NEW j \in DOMAIN found,
                      found[i].type \in Prefixed
               PROVE  found[i].proposed = found[j].proposed
                        <=> /\ found[i].type = found[j].type
                            /\ Canonical[found[i].value] = Canonical[found[j].value]
    BY DEF PseudonymsTellApart
  <2> DEFINE k == Key(found[i].type, found[i].value)
             l == Key(found[j].type, found[j].value)
  <2>1. /\ k \in DOMAIN assigned /\ found[i].proposed = assigned[k]
        /\ l \in DOMAIN assigned /\ found[j].proposed = assigned[l]
    BY DEF EngineInv, Carried
  <2>2. k[1] = found[i].type
    BY DEF Key
  <2>3. k = l <=> /\ found[i].type = found[j].type
                  /\ Canonical[found[i].value] = Canonical[found[j].value]
    BY DEF Key
  <2>4. assigned[k] = assigned[l] => k = l
    BY <2>1, <2>2 DEF EngineInv, NoneTwice
  <2> HIDE DEF k, l
  <2> QED
    BY <2>1, <2>3, <2>4
<1> QED
  BY <1>1, EngineInvariant, PTL

-----------------------------------------------------------------------------
(* Replacing in a text, and joining words, for texts and words of any      *)
(* length.  Both are recursive functions: what they give is shown for each *)
(* place of a text from the last to the first, for each word from the      *)
(* first to the last.                                                      *)

\* A set that holds 0 and what follows any of its numbers holds all numbers: else the
\* numbers up to one it misses would have no smallest such set among them.
LEMMA FromZero ==
    ASSUME NEW T, 0 \in T, \A n \in Nat : n \in T => n + 1 \in T
    PROVE  \A n \in Nat : n \in T
<1> DEFINE U == {n \in Nat : n \notin T}
           C == {1..n : n \in U}
<1> SUFFICES ASSUME U # {} PROVE FALSE
  OBVIOUS
<1>1. C \subseteq FiniteSubsetsOf(Nat) /\ C # {}
  <2>1. ASSUME NEW n \in Nat PROVE IsFiniteSet(1..n) /\ 1..n \in SUBSET Nat
    BY FS_Interval
  <2> QED
    BY <2>1 DEF FiniteSubsetsOf
<1>2. PICK x \in C : \A y \in C : <<y, x>> \notin StrictSubsetOrdering(Nat)
  <2> HIDE DEF C
  <2> QED
    BY <1>1, WFMin, FS_StrictSubsetOrderingWellFounded
<1>3. PICK n \in Nat : n \notin T /\ x = 1..n
  BY <1>2
<1>4. n # 0 /\ n - 1 \in Nat /\ n - 1 \notin T
  BY <1>3
<1>5. 1..(n - 1) \in C
  BY <1>4
<1>6. 1..(n - 1) \subseteq 1..n /\ n \in 1..n /\ n \notin 1..(n - 1) /\ 1..n \in SUBSET Nat
  BY <1>3, <1>4
<1>7. <<1..(n - 1), 1..n>> \in StrictSubsetOrdering(Nat)
  BY <1>6 DEF StrictSubsetOrdering
<1> QED
  BY <1>2, <1>3, <1>5, <1>7

\* The same for the places of a text, from one past its last letter to its first.
LEMMA Backwards ==
    ASSUME NEW N \in Nat, NEW T,
           \A i \in 1..(N + 1) : (\A j \in (i + 1)..(N + 1) : j \in T) => i \in T
    PROVE  \A i \in 1..(N + 1) : i \in T
<1> DEFINE D == {n \in Nat : \A j \in 1..(N + 1) : j + n >= N + 1 => j \in T}
<1>1. 0 \in D
  <2>1. N + 1 \in T
    OBVIOUS
  <2> QED
    BY <2>1
<1>2. ASSUME NEW n \in Nat, n \in D PROVE n + 1 \in D
  <2> SUFFICES ASSUME NEW j \in 1..(N + 1), j + (n + 1) >= N + 1 PROVE j \in T
    OBVIOUS
  <2>1. ASSUME NEW i \in (j + 1)..(N + 1) PROVE i \in T
    <3>1. i \in 1..(N + 1) /\ i + n >= N + 1
      OBVIOUS
    <3> QED
      BY <1>2, <3>1
  <2> QED
    BY <2>1
<1>3. N + 1 \in D
  <2> HIDE DEF D
  <2>1. \A n \in Nat : n \in D
    BY <1>1, <1>2, FromZero
  <2> QED
    BY <2>1
<1> QED
  BY <1>3

\* The equation of Replace at place i, and the function that solves it at each.
Step(f, t, old, new, i) ==
    IF i = Len(t) + 1 THEN <<>>
    ELSE IF Match(t, old, i) THEN new \o f[i + Len(old)]
    ELSE <<t[i]>> \o f[i + 1]

From(t, old, new) ==
    CHOOSE f : f = [i \in 1..(Len(t) + 1) |-> Step(f, t, old, new, i)]

\* From a place Replace only looks at later ones.
LEMMA StepFacts ==
    ASSUME NEW S, NEW t \in Seq(S), NEW old \in Seq(S), old # <<>>, NEW new \in Seq(S),
           NEW i \in 1..(Len(t) + 1)
    PROVE  /\ Len(t) \in Nat /\ Len(old) \in Nat \ {0}
           /\ i # Len(t) + 1 => i + 1 \in 1..(Len(t) + 1) /\ i \in 1..Len(t) /\ <<t[i]>> \in Seq(S)
           /\ Match(t, old, i) => /\ i # Len(t) + 1
                                  /\ i + Len(old) \in 1..(Len(t) + 1)
                                  /\ i + Len(old) > i
<1>1. Len(t) \in Nat
  OBVIOUS
<1>2. Len(old) \in Nat \ {0}
  BY EmptySeq
<1>3. ASSUME i # Len(t) + 1 PROVE i + 1 \in 1..(Len(t) + 1) /\ i \in 1..Len(t)
  BY <1>1, <1>3
<1>4. ASSUME i # Len(t) + 1 PROVE <<t[i]>> \in Seq(S)
  <2>1. t[i] \in S
    BY <1>3, <1>4
  <2> QED
    BY <2>1
<1>5. ASSUME Match(t, old, i)
      PROVE  i # Len(t) + 1 /\ i + Len(old) \in 1..(Len(t) + 1) /\ i + Len(old) > i
  <2>1. i + Len(old) <= Len(t) + 1
    BY <1>5 DEF Match
  <2> QED
    BY <1>1, <1>2, <2>1
<1> QED
  BY <1>1, <1>2, <1>3, <1>4, <1>5

LEMMA StepType ==
    ASSUME NEW S, NEW t \in Seq(S), NEW old \in Seq(S), old # <<>>, NEW new \in Seq(S),
           NEW i \in 1..(Len(t) + 1), NEW f,
           \A j \in (i + 1)..(Len(t) + 1) : f[j] \in Seq(S)
    PROVE  Step(f, t, old, new, i) \in Seq(S)
<1>1. CASE i = Len(t) + 1
  BY <1>1 DEF Step
<1>2. CASE Match(t, old, i)
  <2>1. i # Len(t) + 1 /\ i + Len(old) \in (i + 1)..(Len(t) + 1)
    BY <1>2, StepFacts
  <2>2. f[i + Len(old)] \in Seq(S)
    BY <2>1
  <2>3. new \o f[i + Len(old)] \in Seq(S)
    BY <2>2
  <2> QED
    BY <1>2, <2>1, <2>3 DEF Step
<1>3. CASE i # Len(t) + 1 /\ ~Match(t, old, i)
  <2>1. i + 1 \in (i + 1)..(Len(t) + 1) /\ <<t[i]>> \in Seq(S)
    BY <1>3, StepFacts
  <2>2. <<t[i]>> \o f[i + 1] \in Seq(S)
    BY <2>1
  <2> QED
    BY <1>3, <2>2 DEF Step
<1> QED
  BY <1>1, <1>2, <1>3

LEMMA StepSame ==
    ASSUME NEW S, NEW t \in Seq(S), NEW old \in Seq(S), old # <<>>, NEW new \in Seq(S),
           NEW i \in 1..(Len(t) + 1), NEW f, NEW g,
           \A j \in (i + 1)..(Len(t) + 1) : f[j] = g[j]
    PROVE  Step(f, t, old, new, i) = Step(g, t, old, new, i)
<1>1. ASSUME Match(t, old, i) PROVE f[i + Len(old)] = g[i + Len(old)]
  <2>1. i + Len(old) \in (i + 1)..(Len(t) + 1)
    BY <1>1, StepFacts
  <2> QED
    BY <2>1
<1>2. ASSUME i # Len(t) + 1 PROVE f[i + 1] = g[i + 1]
  <2>1. i + 1 \in (i + 1)..(Len(t) + 1)
    BY <1>2, StepFacts
  <2> QED
    BY <2>1
<1> QED
  BY <1>1, <1>2 DEF Step

LEMMA FromExists ==
    ASSUME NEW S, NEW t \in Seq(S), NEW old \in Seq(S), old # <<>>, NEW new \in Seq(S)
    PROVE  \E f : f = [i \in 1..(Len(t) + 1) |-> Step(f, t, old, new, i)]
<1> DEFINE N == Len(t)
           Part(n) == (N + 1 - n)..(N + 1)
           D == {n \in Nat : n <= N =>
                   \E g : g = [i \in Part(n) |-> Step(g, t, old, new, i)]}
<1>1. N \in Nat
  OBVIOUS
<1>2. 0 \in D
  <2> DEFINE g == [i \in Part(0) |-> <<>>]
  <2>1. Part(0) = {N + 1}
    BY <1>1
  <2>2. \A i \in Part(0) : Step(g, t, old, new, i) = <<>>
    BY <2>1 DEF Step
  <2>3. g = [i \in Part(0) |-> Step(g, t, old, new, i)]
    BY <2>2
  <2> QED
    BY <2>3
<1>3. ASSUME NEW n \in Nat, n \in D PROVE n + 1 \in D
  <2> SUFFICES ASSUME n + 1 <= N
               PROVE  \E h : h = [i \in Part(n + 1) |-> Step(h, t, old, new, i)]
    OBVIOUS
  <2>1. n <= N
    BY <1>1
  <2>2. PICK g : g = [i \in Part(n) |-> Step(g, t, old, new, i)]
    BY <1>3, <2>1
  <2> DEFINE h == [i \in Part(n + 1) |-> Step(g, t, old, new, i)]
  <2>3. \A i \in Part(n) : h[i] = g[i]
    <3>1. ASSUME NEW i \in Part(n) PROVE i \in Part(n + 1)
      BY <1>1
    <3>2. \A i \in Part(n) : g[i] = Step(g, t, old, new, i)
      BY <2>2
    <3> QED
      BY <3>1, <3>2
  <2>4. ASSUME NEW i \in Part(n + 1)
        PROVE  Step(g, t, old, new, i) = Step(h, t, old, new, i)
    <3>1. i \in 1..(Len(t) + 1)
      BY <1>1
    <3>2. ASSUME NEW j \in (i + 1)..(Len(t) + 1) PROVE g[j] = h[j]
      <4>1. j \in Part(n)
        BY <1>1
      <4> QED
        BY <2>3, <4>1
    <3> HIDE DEF h, Part, N
    <3> QED
      BY <3>1, <3>2, StepSame
  <2>5. h = [i \in Part(n + 1) |-> Step(h, t, old, new, i)]
    BY <2>4
  <2> QED
    BY <2>5
<1>4. N \in D
  <2> HIDE DEF D
  <2>1. \A n \in Nat : n \in D
    BY <1>2, <1>3, FromZero
  <2> QED
    BY <1>1, <2>1
<1>5. Part(N) = 1..(N + 1)
  BY <1>1
<1> QED
  BY <1>4, <1>5

\* What Replace gives from each place is the text its equation says, and a text.
LEMMA FromFacts ==
    ASSUME NEW S, NEW t \in Seq(S), NEW old \in Seq(S), old # <<>>, NEW new \in Seq(S)
    PROVE  /\ From(t, old, new) \in [1..(Len(t) + 1) -> Seq(S)]
           /\ \A i \in 1..(Len(t) + 1) :
                 From(t, old, new)[i] = Step(From(t, old, new), t, old, new, i)
           /\ Replace(t, old, new) = From(t, old, new)[1]
           /\ Replace(t, old, new) \in Seq(S)
<1> DEFINE F == From(t, old, new)
           D == {i \in 1..(Len(t) + 1) : F[i] \in Seq(S)}
<1>1. F = [i \in 1..(Len(t) + 1) |-> Step(F, t, old, new, i)]
  <2>1. \E f : f = [i \in 1..(Len(t) + 1) |-> Step(f, t, old, new, i)]
    BY FromExists
  <2> QED
    BY <2>1 DEF From
<1>2. Replace(t, old, new) = F[1]
  BY DEF Replace, From, Step
<1> HIDE DEF F
<1>3. Len(t) \in Nat
  OBVIOUS
<1>4. \A i \in 1..(Len(t) + 1) : F[i] = Step(F, t, old, new, i)
  BY <1>1
<1>5. ASSUME NEW i \in 1..(Len(t) + 1), \A j \in (i + 1)..(Len(t) + 1) : j \in D
      PROVE  i \in D
  <2>1. \A j \in (i + 1)..(Len(t) + 1) : F[j] \in Seq(S)
    BY <1>5
  <2>2. Step(F, t, old, new, i) \in Seq(S)
    BY <2>1, StepType
  <2> QED
    BY <1>4, <2>2
<1>6. \A i \in 1..(Len(t) + 1) : i \in D
  <2> HIDE DEF D
  <2> QED
    BY <1>3, <1>5, Backwards
<1>7. 1 \in 1..(Len(t) + 1)
  BY <1>3
<1> QED
  BY <1>1, <1>2, <1>4, <1>6, <1>7 DEF F

\* A text old is not in stays as it is.
LEMMA NothingToReplace ==
    ASSUME NEW S, NEW t \in Seq(S), NEW old \in Seq(S), old # <<>>, NEW new \in Seq(S),
           \A i \in 1..Len(t) : ~Match(t, old, i)
    PROVE  Replace(t, old, new) = t
<1> DEFINE F == From(t, old, new)
           N == Len(t)
           D == {i \in 1..(N + 1) : /\ Len(F[i]) = N + 1 - i
                                    /\ \A j \in 1..(N + 1 - i) : F[i][j] = t[i + j - 1]}
<1>1. /\ F \in [1..(N + 1) -> Seq(S)] /\ N \in Nat
      /\ \A i \in 1..(N + 1) : F[i] = Step(F, t, old, new, i)
      /\ Replace(t, old, new) = F[1]
  BY FromFacts
<1> HIDE DEF F
<1>2. ASSUME NEW i \in 1..(N + 1), \A j \in (i + 1)..(N + 1) : j \in D
      PROVE  i \in D
  <2>1. CASE i = N + 1
    <3>1. F[i] = <<>>
      BY <1>1, <2>1 DEF Step
    <3> QED
      BY <1>1, <2>1, <3>1
  <2>2. CASE i # N + 1
    <3>1. i \in 1..N /\ i + 1 \in (i + 1)..(N + 1) /\ t[i] \in S
      BY <1>1, <2>2
    <3>2. F[i] = <<t[i]>> \o F[i + 1]
      BY <1>1, <2>2, <3>1 DEF Step
    <3>3. /\ Len(F[i + 1]) = N - i
          /\ \A j \in 1..(N - i) : F[i + 1][j] = t[i + j]
      <4>1. i + 1 \in D
        BY <1>2, <3>1
      <4>2. N + 1 - (i + 1) = N - i /\ \A j \in 1..(N - i) : i + 1 + j - 1 = i + j
        BY <1>1
      <4> QED
        BY <4>1, <4>2
    <3>4. F[i + 1] \in Seq(S) /\ <<t[i]>> \in Seq(S) /\ Len(<<t[i]>>) = 1 /\ <<t[i]>>[1] = t[i]
      BY <1>1, <3>1
    <3>5. /\ Len(F[i]) = 1 + (N - i)
          /\ \A j \in 1..(1 + (N - i)) : F[i][j] = IF j <= 1 THEN <<t[i]>>[j] ELSE F[i + 1][j - 1]
      <4> HIDE DEF N
      <4> QED
        BY <3>2, <3>3, <3>4, ConcatProperties
    <3>6. ASSUME NEW j \in 1..(N + 1 - i) PROVE F[i][j] = t[i + j - 1]
      <4>1. j \in 1..(1 + (N - i))
        BY <1>1
      <4>2. CASE j = 1
        BY <1>1, <3>4, <3>5, <4>1, <4>2
      <4>3. CASE j # 1
        <5>1. j - 1 \in 1..(N - i) /\ i + (j - 1) = i + j - 1 /\ ~(j <= 1)
          BY <1>1, <4>3
        <5> QED
          BY <3>3, <3>5, <4>1, <5>1
      <4> QED
        BY <4>2, <4>3
    <3> QED
      BY <1>1, <3>5, <3>6
  <2> QED
    BY <2>1, <2>2
<1>3. \A i \in 1..(N + 1) : i \in D
  <2> HIDE DEF D
  <2> QED
    BY <1>1, <1>2, Backwards
<1>4. /\ F[1] \in Seq(S) /\ Len(F[1]) = Len(t)
      /\ \A j \in 1..Len(F[1]) : F[1][j] = t[j]
  <2>1. 1 \in 1..(N + 1) /\ N + 1 - 1 = N /\ \A j \in 1..N : 1 + j - 1 = j
    BY <1>1
  <2>2. 1 \in D
    BY <1>3, <2>1
  <2> QED
    BY <1>1, <2>1, <2>2
<1> QED
  BY <1>1, <1>4, SeqEqual

\* A text that is old becomes new.
LEMMA ReplaceWhole ==
    ASSUME NEW S, NEW old \in Seq(S), old # <<>>, NEW new \in Seq(S)
    PROVE  Replace(old, old, new) = new
<1> DEFINE F == From(old, old, new)
<1>1. /\ F \in [1..(Len(old) + 1) -> Seq(S)] /\ Len(old) \in Nat \ {0}
      /\ \A i \in 1..(Len(old) + 1) : F[i] = Step(F, old, old, new, i)
      /\ Replace(old, old, new) = F[1]
  BY FromFacts, EmptySeq
<1> HIDE DEF F
<1>2. Match(old, old, 1)
  BY <1>1 DEF Match
<1>3. F[1 + Len(old)] = <<>>
  <2>1. 1 + Len(old) \in 1..(Len(old) + 1) /\ 1 + Len(old) = Len(old) + 1
    BY <1>1
  <2> QED
    BY <1>1, <2>1 DEF Step
<1>4. F[1] = new \o F[1 + Len(old)]
  <2>1. 1 \in 1..(Len(old) + 1) /\ 1 # Len(old) + 1
    BY <1>1
  <2> QED
    BY <1>1, <1>2, <2>1 DEF Step
<1> QED
  BY <1>1, <1>3, <1>4, ConcatEmptySeq

\* b is the text t after its first d letters.
After(t, d, b) == Len(t) = d + Len(b) /\ \A j \in 1..Len(b) : t[d + j] = b[j]

\* From one past its first d letters on, Replace treats a text as what is left of it.
LEMMA ReplaceLater ==
    ASSUME NEW S, NEW t \in Seq(S), NEW old \in Seq(S), old # <<>>, NEW new \in Seq(S),
           NEW b \in Seq(S), NEW d \in Nat, After(t, d, b)
    PROVE  From(t, old, new)[d + 1] = Replace(b, old, new)
<1> DEFINE F == From(t, old, new)
           G == From(b, old, new)
           N == Len(b)
           D == {i \in 1..(N + 1) : F[d + i] = G[i]}
<1>1. /\ N \in Nat /\ Len(old) \in Nat \ {0} /\ Len(t) = d + N
      /\ \A i \in 1..(Len(t) + 1) : F[i] = Step(F, t, old, new, i)
      /\ \A i \in 1..(N + 1) : G[i] = Step(G, b, old, new, i)
      /\ Replace(b, old, new) = G[1]
  BY FromFacts, EmptySeq DEF After
<1>5. \A j \in 1..N : t[d + j] = b[j]
  BY DEF After
<1> HIDE DEF F, G
<1>2. ASSUME NEW i \in 1..(N + 1), \A j \in (i + 1)..(N + 1) : j \in D
      PROVE  i \in D
  <2>1. d + i \in 1..(Len(t) + 1) /\ (d + i = Len(t) + 1 <=> i = N + 1)
    <3> DEFINE l == Len(t)
    <3>1. N \in Nat /\ l = d + N /\ i \in 1..(N + 1)
      BY <1>1
    <3> HIDE DEF N, l
    <3>2. d + i \in 1..(l + 1) /\ (d + i = l + 1 <=> i = N + 1)
      BY <3>1
    <3> QED
      BY <3>2 DEF l
  <2>2. F[d + i] = Step(F, t, old, new, d + i) /\ G[i] = Step(G, b, old, new, i)
    BY <1>1, <2>1
  <2>3. Match(t, old, d + i) <=> Match(b, old, i)
    <3>1. (d + i) + Len(old) <= Len(t) + 1 <=> i + Len(old) <= N + 1
      <4> DEFINE k == Len(old)
                 l == Len(t)
      <4>1. N \in Nat /\ k \in Nat /\ l = d + N /\ i \in Nat
        BY <1>1
      <4> HIDE DEF N, k, l
      <4>2. (d + i) + k <= l + 1 <=> i + k <= N + 1
        BY <4>1
      <4> QED
        BY <4>2 DEF k, l
    <3>2. ASSUME i + Len(old) <= N + 1, NEW j \in 1..Len(old)
          PROVE  t[d + i + j - 1] = b[i + j - 1]
      <4>1. i + j - 1 \in 1..N /\ d + i + j - 1 = d + (i + j - 1)
        BY <1>1, <3>2
      <4> QED
        BY <1>5, <4>1
    <3> QED
      BY <3>1, <3>2 DEF Match
  <2>4. CASE i = N + 1
    BY <2>1, <2>2, <2>4 DEF Step
  <2>5. CASE i # N + 1 /\ Match(b, old, i)
    <3>1. i + Len(old) \in (i + 1)..(N + 1) /\ d + (i + Len(old)) = d + i + Len(old)
      BY <1>1, <2>5 DEF Match
    <3>2. F[d + (i + Len(old))] = G[i + Len(old)]
      BY <1>2, <3>1
    <3> QED
      BY <2>1, <2>2, <2>3, <2>5, <3>1, <3>2 DEF Step
  <2>6. CASE i # N + 1 /\ ~Match(b, old, i)
    <3>1. i + 1 \in (i + 1)..(N + 1) /\ d + (i + 1) = d + i + 1 /\ i \in 1..N
      BY <1>1, <2>6
    <3>2. F[d + (i + 1)] = G[i + 1] /\ t[d + i] = b[i]
      BY <1>2, <1>5, <3>1
    <3> QED
      BY <2>1, <2>2, <2>3, <2>6, <3>1, <3>2 DEF Step
  <2> QED
    BY <2>4, <2>5, <2>6
<1>3. \A i \in 1..(N + 1) : i \in D
  <2> HIDE DEF D
  <2> QED
    BY <1>1, <1>2, Backwards
<1>4. 1 \in D
  BY <1>1, <1>3
<1> QED
  BY <1>1, <1>4 DEF F

\* Two texts with a letter between them.
Spaced(a, g, b) == a \o <<g>> \o b

\* No occurrence of a text without that letter crosses it.
LEMMA ReplaceAcross ==
    ASSUME NEW S, NEW a \in Seq(S), NEW b \in Seq(S), NEW g \in S,
           NEW old \in Seq(S), old # <<>>, NEW new \in Seq(S),
           ~Has(old, g)
    PROVE  Replace(Spaced(a, g, b), old, new)
             = Spaced(Replace(a, old, new), g, Replace(b, old, new))
<1> DEFINE t == a \o <<g>> \o b
           F == From(t, old, new)
           G == From(a, old, new)
           R == <<g>> \o Replace(b, old, new)
           N == Len(a)
           D == {i \in 1..(N + 1) : F[i] = G[i] \o R}
<1>1. /\ N \in Nat /\ Len(b) \in Nat /\ <<g>> \in Seq(S) /\ Len(<<g>>) = 1
      /\ Len(old) \in Nat \ {0} /\ a \o <<g>> \in Seq(S)
  BY EmptySeq
<1>2. /\ Len(a \o <<g>>) = N + 1
      /\ \A i \in 1..N : (a \o <<g>>)[i] = a[i]
      /\ (a \o <<g>>)[N + 1] = g
  BY <1>1
<1>3. /\ t \in Seq(S) /\ Len(t) = N + 1 + Len(b)
      /\ \A i \in 1..(N + 1) : t[i] = (a \o <<g>>)[i]
      /\ \A i \in 1..Len(b) : t[N + 1 + i] = b[i]
  <2> DEFINE c == a \o <<g>>
  <2>1. c \in Seq(S) /\ Len(c) = N + 1
    BY <1>1, <1>2
  <2> HIDE DEF c, N
  <2>2. /\ c \o b \in Seq(S) /\ Len(c \o b) = Len(c) + Len(b)
        /\ \A i \in 1..(Len(c) + Len(b)) : (c \o b)[i] = IF i <= Len(c) THEN c[i] ELSE b[i - Len(c)]
    BY <2>1, ConcatProperties
  <2>3. ASSUME NEW i \in 1..(N + 1) PROVE (c \o b)[i] = c[i]
    BY <1>1, <2>1, <2>2
  <2>4. ASSUME NEW i \in 1..Len(b) PROVE (c \o b)[N + 1 + i] = b[i]
    <3>1. N + 1 + i \in 1..(N + 1 + Len(b)) /\ ~(N + 1 + i <= N + 1) /\ (N + 1 + i) - (N + 1) = i
      BY <1>1
    <3> QED
      BY <2>1, <2>2, <3>1
  <2> QED
    BY <2>1, <2>2, <2>3, <2>4 DEF c
<1> HIDE DEF t
<1>4. /\ \A i \in 1..N : t[i] = a[i]
      /\ t[N + 1] = g
  <2>1. \A i \in 1..N : i \in 1..(N + 1)
    BY <1>1
  <2>2. N + 1 \in 1..(N + 1)
    BY <1>1
  <2> HIDE DEF N
  <2> QED
    BY <1>2, <1>3, <2>1, <2>2
<1>5. /\ F \in [1..(Len(t) + 1) -> Seq(S)] /\ Replace(t, old, new) = F[1]
      /\ \A i \in 1..(Len(t) + 1) : F[i] = Step(F, t, old, new, i)
  BY <1>3, FromFacts
<1>6. /\ G \in [1..(N + 1) -> Seq(S)] /\ Replace(a, old, new) = G[1]
      /\ \A i \in 1..(N + 1) : G[i] = Step(G, a, old, new, i)
  BY FromFacts
<1>7. Replace(b, old, new) \in Seq(S) /\ R \in Seq(S)
  <2>1. Replace(b, old, new) \in Seq(S)
    BY FromFacts
  <2> QED
    BY <1>1, <2>1
<1>8. F[N + 1] = R
  <2>1. N + 1 \in 1..(Len(t) + 1) /\ N + 1 # Len(t) + 1
    BY <1>1, <1>3
  <2>2. ~Match(t, old, N + 1)
    <3>1. 1 \in 1..Len(old) /\ N + 1 + 1 - 1 = N + 1
      BY <1>1
    <3> QED
      BY <1>4, <3>1 DEF Match, Has
  <2>3. F[N + 1] = <<t[N + 1]>> \o F[(N + 1) + 1]
    BY <1>5, <2>1, <2>2 DEF Step
  <2>4. F[(N + 1) + 1] = Replace(b, old, new)
    <3> DEFINE d == N + 1
    <3>1. d \in Nat /\ After(t, d, b)
      BY <1>1, <1>3 DEF After
    <3> HIDE DEF d
    <3>2. From(t, old, new)[d + 1] = Replace(b, old, new)
      BY <1>3, <3>1, ReplaceLater
    <3> QED
      BY <3>2 DEF d
  <2> QED
    BY <1>4, <2>3, <2>4
<1> HIDE DEF F, G, R
<1>9. ASSUME NEW i \in 1..N PROVE Match(t, old, i) <=> Match(a, old, i)
  <2>1. ASSUME Match(a, old, i) PROVE Match(t, old, i)
    <3>1. i + Len(old) <= N + 1 /\ i + Len(old) <= Len(t) + 1
      BY <1>1, <1>3, <2>1 DEF Match
    <3>2. ASSUME NEW j \in 1..Len(old) PROVE t[i + j - 1] = old[j]
      <4>1. i + j - 1 \in 1..N
        BY <1>1, <3>1
      <4> QED
        BY <1>4, <2>1, <4>1 DEF Match
    <3> QED
      BY <3>1, <3>2 DEF Match
  <2>2. ASSUME Match(t, old, i) PROVE Match(a, old, i)
    <3>1. i + Len(old) <= N + 1
      <4> SUFFICES ASSUME i + Len(old) > N + 1 PROVE FALSE
        BY <1>1
      <4>1. N + 2 - i \in 1..Len(old) /\ i + (N + 2 - i) - 1 = N + 1
        BY <1>1
      <4>2. t[N + 1] = old[N + 2 - i]
        BY <2>2, <4>1 DEF Match
      <4> QED
        BY <1>4, <4>1, <4>2 DEF Has
    <3>2. ASSUME NEW j \in 1..Len(old) PROVE a[i + j - 1] = old[j]
      <4>1. i + j - 1 \in 1..N
        BY <1>1, <3>1
      <4> QED
        BY <1>4, <2>2, <4>1 DEF Match
    <3> QED
      BY <3>1, <3>2 DEF Match
  <2> QED
    BY <2>1, <2>2
<1>10. ASSUME NEW i \in 1..(N + 1), \A j \in (i + 1)..(N + 1) : j \in D
       PROVE  i \in D
  <2>1. CASE i = N + 1
    <3>1. G[i] = <<>>
      BY <1>6, <2>1 DEF Step
    <3>2. <<>> \o R = R
      BY <1>7, ConcatEmptySeq
    <3> QED
      BY <1>8, <2>1, <3>1, <3>2
  <2>2. CASE i # N + 1
    <3>1. i \in 1..N /\ i \in 1..(Len(t) + 1) /\ i # Len(t) + 1
      BY <1>1, <1>3, <2>2
    <3>2. CASE Match(a, old, i)
      <4>1. i + Len(old) \in (i + 1)..(N + 1)
        BY <1>1, <3>2 DEF Match
      <4>2. F[i + Len(old)] = G[i + Len(old)] \o R /\ G[i + Len(old)] \in Seq(S)
        BY <1>6, <1>10, <4>1
      <4>3. F[i] = new \o (G[i + Len(old)] \o R)
        BY <1>5, <1>9, <3>1, <3>2, <4>2 DEF Step
      <4>4. G[i] = new \o G[i + Len(old)]
        BY <1>6, <2>2, <3>2 DEF Step
      <4>5. new \o (G[i + Len(old)] \o R) = (new \o G[i + Len(old)]) \o R
        <5> DEFINE x == G[i + Len(old)]
        <5>1. x \in Seq(S)
          BY <4>2
        <5> HIDE DEF x
        <5>2. new \o (x \o R) = (new \o x) \o R
          BY ONLY <1>7, <5>1, SMTT(60)
        <5> QED
          BY <5>2 DEF x
      <4> QED
        BY <4>3, <4>4, <4>5
    <3>3. CASE ~Match(a, old, i)
      <4>1. i + 1 \in (i + 1)..(N + 1)
        BY <1>1, <3>1
      <4>2. F[i + 1] = G[i + 1] \o R /\ G[i + 1] \in Seq(S)
        BY <1>6, <1>10, <4>1
      <4>3. F[i] = <<a[i]>> \o (G[i + 1] \o R)
        BY <1>4, <1>5, <1>9, <3>1, <3>3, <4>2 DEF Step
      <4>4. G[i] = <<a[i]>> \o G[i + 1]
        BY <1>6, <2>2, <3>3 DEF Step
      <4>5. <<a[i]>> \in Seq(S)
        BY <3>1
      <4>6. <<a[i]>> \o (G[i + 1] \o R) = (<<a[i]>> \o G[i + 1]) \o R
        <5> DEFINE x == G[i + 1]
                   y == <<a[i]>>
        <5>1. x \in Seq(S) /\ y \in Seq(S)
          BY <4>2, <4>5
        <5> HIDE DEF x, y
        <5>2. y \o (x \o R) = (y \o x) \o R
          BY ONLY <1>7, <5>1, SMTT(60)
        <5> QED
          BY <5>2 DEF x, y
      <4> QED
        BY <4>3, <4>4, <4>6
    <3> QED
      BY <3>2, <3>3
  <2> QED
    BY <2>1, <2>2
<1>11. \A i \in 1..(N + 1) : i \in D
  <2> HIDE DEF D
  <2> QED
    BY <1>1, <1>10, Backwards
<1>12. F[1] = G[1] \o R /\ G[1] \in Seq(S)
  <2>1. 1 \in 1..(N + 1)
    BY <1>1
  <2> QED
    BY <1>6, <1>11, <2>1
<1>13. G[1] \o R = (G[1] \o <<g>>) \o Replace(b, old, new)
  <2> DEFINE x == G[1]
             y == <<g>>
             z == Replace(b, old, new)
  <2>1. x \in Seq(S) /\ y \in Seq(S) /\ z \in Seq(S)
    BY <1>1, <1>7, <1>12
  <2> HIDE DEF x, y, z
  <2>2. x \o (y \o z) = (x \o y) \o z
    BY ONLY <2>1
  <2> QED
    BY <2>2 DEF x, y, z, R
<1> QED
  BY <1>5, <1>6, <1>12, <1>13 DEF t, Spaced

-----------------------------------------------------------------------------
(* Words joined into a text.                                               *)

\* The equation of Join for the first n words, and the function that solves it.
Joined(f, ws, n) == IF n = 1 THEN ws[1] ELSE f[n - 1] \o <<Gap>> \o ws[n]

UpTo(ws) == CHOOSE f : f = [n \in DOMAIN ws |-> Joined(f, ws, n)]

LEMMA JoinedType ==
    ASSUME NEW ws \in Seq(Text), NEW n \in 1..Len(ws), NEW f, n = 1 \/ f[n - 1] \in Text
    PROVE  Joined(f, ws, n) \in Text
<1>1. ws[n] \in Text /\ n \in Nat /\ n >= 1
  OBVIOUS
<1>2. CASE n = 1
  BY <1>1, <1>2 DEF Joined
<1>3. CASE n # 1
  <2>1. f[n - 1] \in Text /\ <<Gap>> \in Text
    <3>1. f[n - 1] \in Text
      BY <1>3
    <3>2. Gap \in Letters
      BY TextsAssumption
    <3>3. <<Gap>> \in Seq(Letters)
      <4> DEFINE S == Letters
      <4>1. Gap \in S
        BY <3>2
      <4> HIDE DEF S
      <4>2. <<Gap>> \in Seq(S)
        BY <4>1
      <4> QED
        BY <4>2 DEF S
    <3> QED
      BY <3>1, <3>3 DEF Text
  <2>2. f[n - 1] \o <<Gap>> \in Text
    BY <2>1 DEF Text
  <2>3. f[n - 1] \o <<Gap>> \o ws[n] \in Text
    BY <1>1, <2>2 DEF Text
  <2> QED
    BY <1>3, <2>3 DEF Joined
<1> QED
  BY <1>2, <1>3

LEMMA UpToExists ==
    ASSUME NEW ws \in Seq(Text)
    PROVE  \E f : f = [n \in DOMAIN ws |-> Joined(f, ws, n)]
<1> DEFINE N == Len(ws)
           D == {n \in Nat : n <= N => \E g : g = [i \in 1..n |-> Joined(g, ws, i)]}
<1>1. N \in Nat
  OBVIOUS
<1>2. 0 \in D
  <2> DEFINE g == [i \in 1..0 |-> <<>>]
  <2>1. g = [i \in 1..0 |-> Joined(g, ws, i)]
    OBVIOUS
  <2> QED
    BY <2>1
<1>3. ASSUME NEW n \in Nat, n \in D PROVE n + 1 \in D
  <2> SUFFICES ASSUME n + 1 <= N PROVE \E h : h = [i \in 1..(n + 1) |-> Joined(h, ws, i)]
    OBVIOUS
  <2>1. PICK g : g = [i \in 1..n |-> Joined(g, ws, i)]
    BY <1>1, <1>3
  <2> DEFINE h == [i \in 1..(n + 1) |-> Joined(g, ws, i)]
  <2>2. \A i \in 1..n : h[i] = g[i]
    <3>1. \A i \in 1..n : g[i] = Joined(g, ws, i) /\ i \in 1..(n + 1)
      BY <2>1
    <3> QED
      BY <3>1
  <2>3. ASSUME NEW i \in 1..(n + 1) PROVE Joined(g, ws, i) = Joined(h, ws, i)
    <3>1. i # 1 => i - 1 \in 1..n
      OBVIOUS
    <3>2. i # 1 => h[i - 1] = g[i - 1]
      BY <2>2, <3>1
    <3> HIDE DEF h
    <3> QED
      BY <3>2 DEF Joined
  <2>4. h = [i \in 1..(n + 1) |-> Joined(h, ws, i)]
    BY <2>3
  <2> QED
    BY <2>4
<1>4. N \in D
  <2> HIDE DEF D
  <2>1. \A n \in Nat : n \in D
    BY <1>2, <1>3, FromZero
  <2> QED
    BY <1>1, <2>1
<1> QED
  BY <1>4

LEMMA JoinFacts ==
    ASSUME NEW ws \in Seq(Text), ws # <<>>
    PROVE  /\ Len(ws) \in Nat /\ Len(ws) >= 1
           /\ UpTo(ws) \in [1..Len(ws) -> Text]
           /\ \A n \in 1..Len(ws) : UpTo(ws)[n] = Joined(UpTo(ws), ws, n)
           /\ Join(ws) = UpTo(ws)[Len(ws)]
           /\ Join(ws) \in Text
<1> DEFINE U == UpTo(ws)
           N == Len(ws)
           D == {n \in Nat : n + 1 <= N => U[n + 1] \in Text}
<1>1. U = [n \in DOMAIN ws |-> Joined(U, ws, n)]
  <2>1. \E f : f = [n \in DOMAIN ws |-> Joined(f, ws, n)]
    BY UpToExists
  <2> QED
    BY <2>1 DEF UpTo
<1>2. Join(ws) = U[N]
  BY DEF Join, UpTo, Joined
<1> HIDE DEF U
<1>3. N \in Nat /\ N >= 1 /\ DOMAIN ws = 1..N
  BY EmptySeq
<1>4. U = [n \in 1..N |-> Joined(U, ws, n)] /\ \A n \in 1..N : U[n] = Joined(U, ws, n)
  BY <1>1, <1>3
<1>5. 0 \in D
  <2>1. 0 + 1 \in 1..N /\ 0 + 1 = 1
    BY <1>3
  <2>2. Joined(U, ws, 1) \in Text
    BY <2>1, JoinedType
  <2> QED
    BY <1>4, <2>1, <2>2
<1>6. ASSUME NEW n \in Nat, n \in D PROVE n + 1 \in D
  <2> SUFFICES ASSUME (n + 1) + 1 <= N PROVE U[(n + 1) + 1] \in Text
    OBVIOUS
  <2>1. (n + 1) + 1 \in 1..N /\ ((n + 1) + 1) - 1 = n + 1 /\ n + 1 <= N
    BY <1>3
  <2>2. U[((n + 1) + 1) - 1] \in Text
    BY <1>6, <2>1
  <2>3. Joined(U, ws, (n + 1) + 1) \in Text
    BY <2>1, <2>2, JoinedType
  <2> QED
    BY <1>4, <2>1, <2>3
<1>7. ASSUME NEW n \in 1..N PROVE U[n] \in Text
  <2> HIDE DEF D
  <2>1. \A m \in Nat : m \in D
    BY <1>5, <1>6, FromZero
  <2>2. n - 1 \in Nat /\ (n - 1) + 1 <= N /\ (n - 1) + 1 = n
    BY <1>3
  <2>3. n - 1 \in D
    BY <2>1, <2>2
  <2> QED
    BY <2>2, <2>3 DEF D
<1>8. N \in 1..N
  BY <1>3
<1> QED
  BY <1>2, <1>3, <1>4, <1>7, <1>8 DEF U

\* old is replaced in each word by itself.
LEMMA ReplaceJoin ==
    ASSUME NEW ws \in Seq(Text), ws # <<>>, NEW old \in Text, old # <<>>, NEW new \in Text,
           ~Has(old, Gap)
    PROVE  Replace(Join(ws), old, new) = Join([m \in DOMAIN ws |-> Replace(ws[m], old, new)])
<1> DEFINE vs == [m \in DOMAIN ws |-> Replace(ws[m], old, new)]
           U == UpTo(ws)
           V == UpTo(vs)
           N == Len(ws)
           D == {n \in Nat : n + 1 <= N => Replace(U[n + 1], old, new) = V[n + 1]}
<1>1. /\ N \in Nat /\ N >= 1 /\ U \in [1..N -> Text]
      /\ \A n \in 1..N : U[n] = Joined(U, ws, n)
      /\ Join(ws) = U[N]
  BY JoinFacts
<1>2. ASSUME NEW t \in Text PROVE Replace(t, old, new) \in Text
  BY FromFacts DEF Text
<1>3. DOMAIN ws = 1..N /\ \A m \in 1..N : ws[m] \in Text
  OBVIOUS
<1>4. /\ vs \in Seq(Text) /\ Len(vs) = N /\ vs # <<>>
      /\ \A m \in 1..N : vs[m] = Replace(ws[m], old, new)
  <2>1. vs = [m \in 1..N |-> Replace(ws[m], old, new)]
    BY <1>3
  <2>2. \A m \in 1..N : Replace(ws[m], old, new) \in Text
    BY <1>2, <1>3
  <2>3. vs \in Seq(Text) /\ Len(vs) = N
    BY <1>1, <2>1, <2>2
  <2> QED
    BY <1>1, <2>1, <2>3
<1> HIDE DEF vs
<1>5. /\ V \in [1..N -> Text]
      /\ \A n \in 1..N : V[n] = Joined(V, vs, n)
      /\ Join(vs) = V[N]
  BY <1>4, JoinFacts
<1> HIDE DEF U, V, N
<1>6. 0 \in D
  <2>1. 1 \in 1..N
    BY <1>1
  <2>2. U[1] = ws[1] /\ V[1] = vs[1]
    BY <1>1, <1>5, <2>1 DEF Joined
  <2> QED
    BY <1>4, <2>1, <2>2
<1>7. ASSUME NEW n \in Nat, n \in D PROVE n + 1 \in D
  <2> DEFINE k == (n + 1) + 1
  <2> SUFFICES ASSUME k <= N PROVE Replace(U[k], old, new) = V[k]
    OBVIOUS
  <2>1. k \in 1..N /\ k # 1 /\ k - 1 = n + 1 /\ n + 1 \in 1..N
    BY <1>1
  <2>2. Replace(U[n + 1], old, new) = V[n + 1]
    BY <1>7, <2>1
  <2> HIDE DEF k
  <2>3. U[k] = U[n + 1] \o <<Gap>> \o ws[k]
    BY <1>1, <2>1 DEF Joined
  <2>4. V[k] = V[n + 1] \o <<Gap>> \o vs[k]
    BY <1>5, <2>1 DEF Joined
  <2>5. Replace(U[n + 1] \o <<Gap>> \o ws[k], old, new)
          = Replace(U[n + 1], old, new) \o <<Gap>> \o Replace(ws[k], old, new)
    <3> DEFINE a == U[n + 1]
               b == ws[k]
               S == Letters
    <3>1. a \in Text /\ b \in Text
      BY <1>1, <1>3, <2>1 DEF N
    <3>3. Text = Seq(S) /\ Gap \in S
      BY TextsAssumption DEF Text
    <3> HIDE DEF a, b, S
    <3>4. a \in Seq(S) /\ b \in Seq(S) /\ old \in Seq(S) /\ new \in Seq(S)
      BY <3>1, <3>3
    <3>2. Replace(Spaced(a, Gap, b), old, new)
            = Spaced(Replace(a, old, new), Gap, Replace(b, old, new))
      BY <3>3, <3>4, ReplaceAcross
    <3> QED
      BY <3>2 DEF a, b, Spaced
  <2> QED
    BY <1>4, <2>1, <2>2, <2>3, <2>4, <2>5
<1>8. Replace(U[N], old, new) = V[N]
  <2> HIDE DEF D
  <2>1. \A n \in Nat : n \in D
    BY <1>6, <1>7, FromZero
  <2>2. N - 1 \in Nat /\ (N - 1) + 1 = N
    BY <1>1
  <2>3. N - 1 \in D
    BY <2>1, <2>2
  <2> QED
    BY <2>2, <2>3 DEF D
<1> QED
  BY <1>1, <1>5, <1>8 DEF vs

\* The texts left and right are ws, cut through its m-th word.
CutOf(ws, m, left, right) ==
    /\ left \in Seq(Text) /\ right \in Seq(Text)
    /\ Len(left) = m /\ Len(right) = Len(ws) + 1 - m
    /\ \A i \in 1..(m - 1) : left[i] = ws[i]
    /\ left[m] \o right[1] = ws[m]
    /\ \A i \in 2..(Len(ws) + 1 - m) : right[i] = ws[m + i - 1]

\* Cut and put together, a text is the same.
LEMMA JoinCut ==
    ASSUME NEW ws \in Seq(Text), ws # <<>>, NEW m \in 1..Len(ws), NEW left, NEW right,
           CutOf(ws, m, left, right)
    PROVE  Join(left) \o Join(right) = Join(ws)
<1> DEFINE N == Len(ws)
           U == UpTo(ws)
           L == UpTo(left)
           R == UpTo(right)
           G == <<Gap>>
           D == {n \in Nat : n + 1 < m => L[n + 1] = U[n + 1]}
           W == [n \in 1..(N + 1 - m) |-> L[m] \o R[n]]
           E == {n \in Nat : m + n <= N => U[m + n] = W[n + 1]}
<1>1. /\ N \in Nat /\ N >= 1 /\ m \in Nat /\ U \in [1..N -> Text]
      /\ \A n \in 1..N : U[n] = Joined(U, ws, n)
      /\ Join(ws) = U[N]
  BY JoinFacts
<1>2. /\ left \in Seq(Text) /\ Len(left) = m /\ \A i \in 1..(m - 1) : left[i] = ws[i]
      /\ right \in Seq(Text) /\ Len(right) = N + 1 - m
      /\ \A i \in 2..(N + 1 - m) : right[i] = ws[m + i - 1]
      /\ left[m] \o right[1] = ws[m]
  BY DEF CutOf
<1>3. left # <<>> /\ right # <<>>
  BY <1>1, <1>2
<1>4. /\ L \in [1..m -> Text] /\ \A n \in 1..m : L[n] = Joined(L, left, n)
      /\ Join(left) = L[m]
  BY <1>2, <1>3, JoinFacts
<1>5. /\ R \in [1..(N + 1 - m) -> Text]
      /\ \A n \in 1..(N + 1 - m) : R[n] = Joined(R, right, n)
      /\ Join(right) = R[N + 1 - m]
  BY <1>2, <1>3, JoinFacts
<1>6. G \in Text
  <2> DEFINE S == Letters
  <2>1. Text = Seq(S) /\ Gap \in S
    BY TextsAssumption DEF Text
  <2> HIDE DEF S
  <2> QED
    BY <2>1
<1>7. /\ left[m] \in Text /\ right[1] \in Text
      /\ \A n \in 1..N : ws[n] \in Text
  BY <1>1, <1>2
<1> DEFINE S == Letters
<1>14. Text = Seq(S)
  BY DEF Text
<1>15. \A n \in 1..(N + 1 - m) : W[n] = L[m] \o R[n]
  OBVIOUS
<1> HIDE DEF N, U, L, R, G, S, W
<1>8. 0 \in D
  <2> SUFFICES ASSUME 0 + 1 < m PROVE L[0 + 1] = U[0 + 1]
    OBVIOUS
  <2>1. 1 \in 1..m /\ 1 \in 1..N /\ 1 \in 1..(m - 1) /\ 0 + 1 = 1
    BY <1>1 DEF N
  <2>2. L[1] = left[1] /\ U[1] = ws[1]
    BY <1>1, <1>4, <2>1 DEF Joined
  <2>3. left[1] = ws[1]
    BY <1>2, <2>1
  <2> QED
    BY <2>1, <2>2, <2>3
<1>9. ASSUME NEW n \in Nat, n \in D PROVE n + 1 \in D
  <2> DEFINE k == (n + 1) + 1
  <2> SUFFICES ASSUME k < m PROVE L[k] = U[k]
    OBVIOUS
  <2>1. k \in 1..m /\ k \in 1..N /\ k \in 1..(m - 1) /\ k # 1 /\ k - 1 = n + 1 /\ n + 1 < m
    BY <1>1 DEF N
  <2>2. L[n + 1] = U[n + 1]
    BY <1>9, <2>1
  <2> HIDE DEF k
  <2>3. L[k] = L[n + 1] \o <<Gap>> \o left[k]
    BY <1>4, <2>1 DEF Joined
  <2>4. U[k] = U[n + 1] \o <<Gap>> \o ws[k]
    BY <1>1, <2>1 DEF Joined
  <2>5. left[k] = ws[k]
    BY <1>2, <2>1
  <2> QED
    BY <2>2, <2>3, <2>4, <2>5
<1>10. U[m] = L[m] \o right[1]
  <2>1. m \in 1..m /\ m \in 1..N
    BY <1>1 DEF N
  <2>2. CASE m = 1
    <3>1. L[m] = left[m] /\ U[m] = ws[m]
      BY <1>1, <1>4, <2>1, <2>2 DEF Joined
    <3> QED
      BY <1>2, <3>1
  <2>3. CASE m # 1
    <3>1. L[m] = L[m - 1] \o G \o left[m] /\ U[m] = U[m - 1] \o G \o ws[m]
      BY <1>1, <1>4, <2>1, <2>3 DEF Joined, G
    <3>2. m - 1 \in 1..N /\ m - 2 \in Nat /\ m - 1 = (m - 2) + 1 /\ (m - 2) + 1 < m
      BY <1>1, <2>3 DEF N
    <3>3. \A n \in Nat : n \in D
      <4> HIDE DEF D
      <4> QED
        BY <1>8, <1>9, FromZero
    <3>4. m - 2 \in D
      BY <3>2, <3>3
    <3>5. L[m - 1] = U[m - 1]
      BY <3>2, <3>4
    <3> DEFINE x == U[m - 1]
               y == left[m]
               z == right[1]
    <3>6. x \in Text /\ y \in Text /\ z \in Text
      BY <1>1, <1>7, <3>2
    <3>7. L[m] = x \o G \o y /\ U[m] = x \o G \o (y \o z)
      BY <1>2, <3>1, <3>5
    <3> HIDE DEF x, y, z
    <3>9. ((x \o G) \o y) \o z = (x \o G) \o (y \o z)
      BY ONLY <1>6, <1>14, <3>6
    <3> QED
      BY <3>7, <3>9 DEF z
  <2> QED
    BY <2>2, <2>3
<1>11. 0 \in E
  <2>1. 1 \in 1..(N + 1 - m)
    BY <1>1 DEF N
  <2>2. R[1] = right[1]
    BY <1>5, <2>1 DEF Joined
  <2>3. m + 0 = m /\ 0 + 1 = 1
    BY <1>1
  <2>4. W[1] = L[m] \o right[1]
    BY <1>15, <2>1, <2>2
  <2> QED
    BY <1>10, <2>3, <2>4
<1>12. ASSUME NEW n \in Nat, n \in E PROVE n + 1 \in E
  <2> DEFINE k == m + (n + 1)
             l == (n + 1) + 1
  <2> SUFFICES ASSUME k <= N PROVE U[k] = W[l]
    OBVIOUS
  <2>1. k \in 1..N /\ k # 1 /\ k - 1 = m + n /\ m + n \in 1..N
    BY <1>1
  <2>2. l \in 2..(N + 1 - m) /\ l \in 1..(N + 1 - m) /\ l # 1 /\ l - 1 = n + 1
        /\ n + 1 \in 1..(N + 1 - m) /\ m + l - 1 = k
    BY <1>1
  <2>3. U[m + n] = W[n + 1] /\ W[n + 1] = L[m] \o R[n + 1] /\ W[l] = L[m] \o R[l]
    <3>1. m + n <= N
      BY <1>1, <2>1 DEF N
    <3>2. U[m + n] = W[n + 1]
      BY <1>12, <3>1
    <3>3. W[n + 1] = L[m] \o R[n + 1] /\ W[l] = L[m] \o R[l]
      BY <1>15, <2>2
    <3> QED
      BY <3>2, <3>3
  <2> HIDE DEF k, l
  <2>4. U[k] = U[m + n] \o G \o ws[k]
    BY <1>1, <2>1 DEF Joined, G
  <2>5. R[l] = R[n + 1] \o G \o ws[k]
    <3>1. R[l] = R[n + 1] \o G \o right[l]
      BY <1>5, <2>2 DEF Joined, G
    <3>2. right[l] = ws[k]
      BY <1>2, <2>2
    <3> QED
      BY <3>1, <3>2
  <2> DEFINE x == L[m]
             y == R[n + 1]
             z == ws[k]
  <2>6. x \in Text /\ y \in Text /\ z \in Text
    <3>1. m \in 1..m
      BY <1>1 DEF N
    <3> QED
      BY <1>4, <1>5, <1>7, <2>1, <2>2, <3>1
  <2>7. U[k] = ((x \o y) \o G) \o z /\ R[l] = (y \o G) \o z /\ W[l] = x \o R[l]
    BY <2>3, <2>4, <2>5
  <2> HIDE DEF x, y, z
  <2>8. ((x \o y) \o G) \o z = x \o ((y \o G) \o z)
    BY ONLY <1>6, <1>14, <2>6
  <2> QED
    BY <2>7, <2>8
<1>13. U[N] = L[m] \o R[N + 1 - m]
  <2>1. \A n \in Nat : n \in E
    <3> HIDE DEF E
    <3> QED
      BY <1>11, <1>12, FromZero
  <2>2. N - m \in Nat /\ m + (N - m) = N /\ (N - m) + 1 = N + 1 - m
    BY <1>1 DEF N
  <2>3. N - m \in E
    BY <2>1, <2>2
  <2>4. U[N] = W[N + 1 - m]
    BY <2>2, <2>3
  <2>5. N + 1 - m \in 1..(N + 1 - m)
    BY <1>1 DEF N
  <2> QED
    BY <1>15, <2>4, <2>5
<1> QED
  BY <1>1, <1>4, <1>5, <1>13

-----------------------------------------------------------------------------
(* Words: values, and the pseudonyms of the engine.                        *)

Word == Text \ {<<>>}

LEMMA PseudonymsAreWords == Pseudonym \subseteq Word
<1> SUFFICES ASSUME NEW t \in Types, NEW v \in Values, NEW n \in Number
             PROVE  Generate(t, v, n) \in Word
  BY DEF Pseudonym
<1>1. t \in Letters /\ "ENTITY" \in Letters /\ "x" \in Letters
  BY ValuesAssumption
<1>2. ASSUME NEW s \in Letters PROVE <<s>> \o Numeral[n] \in Word
  <2> DEFINE d == Numeral[n]
  <2>1. d \in Seq(Letters)
    BY NumeralAssumption DEF Number, Text
  <2> HIDE DEF d
  <2>2. <<s>> \in Seq(Letters) /\ Len(<<s>>) = 1 /\ Len(d) \in Nat
    BY <2>1
  <2>3. Len(<<s>> \o d) = 1 + Len(d) /\ <<s>> \o d \in Seq(Letters)
    BY <2>1, <2>2, ConcatProperties
  <2>4. <<s>> \o d # <<>>
    BY <2>2, <2>3, EmptySeq
  <2> QED
    BY <2>3, <2>4 DEF d, Word, Text
<1>3. <<Head(v), "x">> \in Word
  <2>1. v \in Seq(Letters) /\ v # <<>>
    BY ValuesAssumption DEF Text
  <2>2. Head(v) \in Letters
    BY <2>1, HeadTailProperties
  <2>3. <<Head(v), "x">> \in Seq(Letters) /\ <<Head(v), "x">> # <<>>
    BY <1>1, <2>2
  <2> QED
    BY <2>3 DEF Word, Text
<1>4. CASE t \in Prefixed
  <2>1. Generate(t, v, n) = <<t>> \o Numeral[n]
    BY <1>4, ValuesAssumption DEF Generate
  <2> QED
    BY <1>1, <1>2, <2>1
<1>5. CASE t \notin Prefixed /\ t \in Preserving
  BY <1>3, <1>5 DEF Generate
<1>6. CASE t \notin Prefixed /\ t \notin Preserving
  <2>1. Generate(t, v, n) = <<"ENTITY">> \o Numeral[n]
    BY <1>6 DEF Generate
  <2> QED
    BY <1>1, <1>2, <2>1
<1> QED
  BY <1>4, <1>5, <1>6

\* A set of numbers that is not empty has a first one.
LEMMA FirstOfIn ==
    ASSUME NEW S, S \subseteq Nat, S # {}
    PROVE  FirstOf(S) \in S /\ \A j \in S : FirstOf(S) <= j
<1> DEFINE D == {n \in Nat : \A j \in S : n <= j}
<1>1. \E i \in S : \A j \in S : i <= j
  <2> SUFFICES ASSUME \A i \in S : \E j \in S : ~(i <= j) PROVE FALSE
    OBVIOUS
  <2>1. 0 \in D
    OBVIOUS
  <2>2. ASSUME NEW n \in Nat, n \in D PROVE n + 1 \in D
    <3>1. n \notin S
      BY <2>2
    <3> SUFFICES ASSUME NEW j \in S PROVE n + 1 <= j
      OBVIOUS
    <3>2. n <= j /\ n # j /\ j \in Nat
      BY <2>2, <3>1
    <3> QED
      BY <3>2
  <2>3. \A n \in Nat : n \in D
    <3> HIDE DEF D
    <3> QED
      BY <2>1, <2>2, FromZero
  <2>4. PICK j \in S : TRUE
    OBVIOUS
  <2>5. j + 1 \in D
    BY <2>3
  <2> QED
    BY <2>4, <2>5
<1> QED
  BY <1>1 DEF FirstOf

-----------------------------------------------------------------------------
(* A reviewed batch.                                                       *)

Reviewed == found \in Seq(Finding) /\ verdicts \in [DOMAIN found -> Verdict]

LEMMA KeptFacts ==
    ASSUME Reviewed
    PROVE  /\ Kept \subseteq DOMAIN found /\ Kept \subseteq Nat
           /\ KeptValues \subseteq Values /\ KeptValues \subseteq Word
           /\ \A i \in Kept : found[i].value \in KeptValues /\ Final[i] \in Word
<1>1. /\ Kept \subseteq DOMAIN found /\ DOMAIN found = 1..Len(found) /\ Len(found) \in Nat
      /\ \A i \in DOMAIN found : found[i] \in Finding
  BY DEF Reviewed, Kept
<1>2. Values \subseteq Word
  BY ValuesAssumption DEF Word
<1>3. ASSUME NEW i \in Kept PROVE found[i].value \in Values /\ Final[i] \in Word
  <2>1. found[i].value \in Values /\ found[i].proposed \in Word
    BY <1>1, PseudonymsAreWords DEF Finding
  <2>2. Custom \in Word
    BY TextsAssumption DEF Word
  <2> QED
    BY <1>1, <2>1, <2>2 DEF Final
<1> QED
  BY <1>1, <1>2, <1>3 DEF KeptValues

LEMMA SubstitutionFacts ==
    ASSUME Reviewed
    PROVE  /\ DOMAIN SubstitutionMap = KeptValues
           /\ \A v \in KeptValues :
                \E i \in Kept : found[i].value = v /\ SubstitutionMap[v] = Final[i]
           /\ \A v \in KeptValues : SubstitutionMap[v] \in Word
<1>1. DOMAIN SubstitutionMap = KeptValues
  BY DEF SubstitutionMap
<1>2. ASSUME NEW v \in KeptValues
      PROVE  \E i \in Kept : found[i].value = v /\ SubstitutionMap[v] = Final[i]
  <2> DEFINE S == {i \in Kept : found[i].value = v}
  <2>1. SubstitutionMap[v] = Final[FirstOf(S)]
    BY DEF SubstitutionMap
  <2>2. S \subseteq Nat /\ S # {}
    BY KeptFacts DEF KeptValues
  <2>3. FirstOf(S) \in S
    <3> HIDE DEF S
    <3> QED
      BY <2>2, FirstOfIn
  <2> QED
    BY <2>1, <2>3
<1> QED
  BY <1>1, <1>2, KeptFacts

LEMMA MappingFacts ==
    ASSUME Reviewed
    PROVE  /\ DOMAIN MappingOf = {Final[i] : i \in Kept}
           /\ \A p \in DOMAIN MappingOf :
                /\ p \in Word
                /\ \E i \in Kept : Final[i] = p /\ MappingOf[p] = Canonical[found[i].value]
<1>1. DOMAIN MappingOf = {Final[i] : i \in Kept}
  BY DEF MappingOf
<1>2. ASSUME NEW p \in DOMAIN MappingOf
      PROVE  \E i \in Kept : Final[i] = p /\ MappingOf[p] = Canonical[found[i].value]
  <2> DEFINE S == {i \in Kept : Final[i] = p}
  <2>1. MappingOf[p] = Canonical[found[FirstOf(S)].value]
    BY <1>1 DEF MappingOf
  <2>2. S \subseteq Nat /\ S # {}
    BY <1>1, KeptFacts
  <2>3. FirstOf(S) \in S
    <3> HIDE DEF S
    <3> QED
      BY <2>2, FirstOfIn
  <2> QED
    BY <2>1, <2>3
<1> QED
  BY <1>1, <1>2, KeptFacts

-----------------------------------------------------------------------------
(* A word of a text that is pseudonymized.                                 *)

\* A word when the keys in rest are not replaced yet.
Shown(w, rest) == IF w \in KeptValues \ rest THEN SubstitutionMap[w] ELSE w

Eligible == {w \in Text : w \in KeptValues \/ \A v \in KeptValues : ~Occurs(v, w)}

\* Replace, for a word by itself.
LEMMA ReplaceIn ==
    ASSUME NEW t \in Text, NEW old \in Word, NEW new \in Text
    PROVE  /\ Replace(t, old, new) \in Text
           /\ ~Occurs(old, t) => Replace(t, old, new) = t
           /\ t = old => Replace(t, old, new) = new
<1> DEFINE S == Letters
<1>1. Text = Seq(S)
  BY DEF Text
<1> HIDE DEF S
<1>2. t \in Seq(S) /\ old \in Seq(S) /\ new \in Seq(S) /\ old # <<>>
  BY <1>1 DEF Word
<1>3. Replace(t, old, new) \in Seq(S)
  BY <1>2, FromFacts
<1>4. ASSUME ~Occurs(old, t) PROVE Replace(t, old, new) = t
  <2>1. \A i \in 1..Len(t) : ~Match(t, old, i)
    BY <1>4 DEF Occurs
  <2> QED
    BY <1>2, <2>1, NothingToReplace
<1>5. Replace(old, old, new) = new
  BY <1>2, ReplaceWhole
<1> QED
  BY <1>1, <1>3, <1>4, <1>5

LEMMA LongerDoesNotOccur ==
    ASSUME NEW v \in Text, NEW w \in Text, Len(w) <= Len(v), v # w
    PROVE  ~Occurs(v, w)
<1> DEFINE S == Letters
<1>1. Text = Seq(S)
  BY DEF Text
<1> HIDE DEF S
<1>2. v \in Seq(S) /\ w \in Seq(S) /\ Len(v) \in Nat /\ Len(w) \in Nat
  BY <1>1
<1> SUFFICES ASSUME NEW i \in 1..Len(w), Match(w, v, i) PROVE FALSE
  BY DEF Occurs
<1>3. i + Len(v) <= Len(w) + 1 /\ \A j \in 1..Len(v) : w[i + j - 1] = v[j]
  BY DEF Match
<1>4. i = 1 /\ Len(v) = Len(w)
  BY <1>2, <1>3
<1>5. ASSUME NEW j \in 1..Len(v) PROVE w[j] = v[j]
  <2>1. i + j - 1 = j
    BY <1>4
  <2> QED
    BY <1>3, <2>1
<1> QED
  BY <1>2, <1>4, <1>5, SeqEqual

\* The keys in rest are the shortest of keys.
AreShortest(rest, keys) ==
    rest \subseteq keys /\ \A k \in rest : \A l \in keys \ rest : Len(k) <= Len(l)

LEMMA LongestIsNext ==
    ASSUME NEW keys, NEW rest, AreShortest(rest, keys), NEW key \in Longest(rest)
    PROVE  key \in keys /\ AreShortest(rest \ {key}, keys)
<1>1. key \in rest /\ \A k \in rest : Len(k) <= Len(key)
  BY DEF Longest
<1> QED
  BY <1>1 DEF AreShortest

\* One more key replaced in a word: no part of a longer word that waits for another
\* key, or of the pseudonym of a word that was not shorter.
LEMMA ShownStep ==
    ASSUME Reviewed, Apart, NEW rest, AreShortest(rest, KeptValues), NEW key \in Longest(rest),
           NEW w \in Eligible
    PROVE  /\ Shown(w, rest) \in Text
           /\ Replace(Shown(w, rest), key, SubstitutionMap[key]) = Shown(w, rest \ {key})
<1>1. key \in KeptValues /\ key \in rest /\ \A v \in rest : Len(v) <= Len(key)
  BY DEF Longest, AreShortest
<1>2. key \in Word /\ key \in Text /\ SubstitutionMap[key] \in Text
  BY <1>1, KeptFacts, SubstitutionFacts DEF Word
<1>3. w \in Text
  BY DEF Eligible
<1>4. CASE w \in KeptValues \ rest
  <2>1. key # w /\ Len(key) <= Len(w)
    BY <1>1, <1>4 DEF AreShortest
  <2>2. ~Occurs(key, SubstitutionMap[w])
    BY <1>1, <1>4, <2>1 DEF Apart
  <2>3. SubstitutionMap[w] \in Text
    BY <1>4, SubstitutionFacts DEF Word
  <2>4. Replace(SubstitutionMap[w], key, SubstitutionMap[key]) = SubstitutionMap[w]
    BY <1>2, <2>2, <2>3, ReplaceIn
  <2> QED
    BY <1>4, <2>3, <2>4 DEF Shown
<1>5. CASE w \in rest
  <2>1. CASE w = key
    <3>1. Replace(w, key, SubstitutionMap[key]) = SubstitutionMap[key]
      BY <1>2, <2>1, ReplaceIn
    <3> QED
      BY <1>1, <1>3, <1>5, <2>1, <3>1 DEF Shown
  <2>2. CASE w # key
    <3>1. ~Occurs(key, w)
      BY <1>1, <1>2, <1>3, <1>5, <2>2, LongerDoesNotOccur
    <3>2. Replace(w, key, SubstitutionMap[key]) = w
      BY <1>2, <1>3, <3>1, ReplaceIn
    <3> QED
      BY <1>3, <1>5, <2>2, <3>2 DEF Shown
  <2> QED
    BY <2>1, <2>2
<1>6. CASE w \notin KeptValues
  <2>1. ~Occurs(key, w)
    BY <1>1, <1>6 DEF Eligible
  <2>2. Replace(w, key, SubstitutionMap[key]) = w
    BY <1>2, <1>3, <2>1, ReplaceIn
  <2> QED
    BY <1>3, <1>6, <2>2 DEF Shown
<1> QED
  BY <1>4, <1>5, <1>6

-----------------------------------------------------------------------------
(* The words cut in two.                                                   *)

First(w, c) == SubSeq(w, 1, c)

Second(w, c) == SubSeq(w, c + 1, Len(w))

\* The parts of a word that is cut after c letters.
LEMMA CutWord ==
    ASSUME NEW w \in Text, NEW c \in 0..Len(w)
    PROVE  /\ First(w, c) \in Text /\ Second(w, c) \in Text
           /\ First(w, c) \o Second(w, c) = w
           /\ c = 0 => First(w, c) = <<>> /\ Second(w, c) = w
           /\ c = Len(w) => First(w, c) = w /\ Second(w, c) = <<>>
           /\ Len(First(w, c)) = c /\ \A i \in 1..c : First(w, c)[i] = w[i]
           /\ Len(Second(w, c)) = Len(w) - c
           /\ \A i \in 1..(Len(w) - c) : Second(w, c)[i] = w[c + i]
<1> DEFINE n == Len(w)
           a == First(w, c)
           b == Second(w, c)
<1>1. w \in Seq(Letters) /\ n \in Nat /\ c \in Nat /\ c <= n
  BY DEF Text
<1>2. /\ a \in Seq(Letters) /\ Len(a) = c
      /\ \A i \in 1..c : a[i] = w[i]
  <2>1. 1 \in 1..(n + 1) /\ \A i \in 1..c : i \in 1..n
    BY <1>1
  <2>2. SubSeq(w, 1, c) \in Seq(Letters)
    BY <1>1, <2>1, SubSeqProperties
  <2>3. Len(SubSeq(w, 1, c)) = c /\ \A i \in 1..c : SubSeq(w, 1, c)[i] = w[i]
    BY <1>1, <2>1
  <2> QED
    BY <2>2, <2>3 DEF First
<1>3. /\ b \in Seq(Letters) /\ Len(b) = n - c
      /\ \A i \in 1..(n - c) : b[i] = w[c + i]
  <2>1. c + 1 \in 1..(n + 1) /\ \A i \in 1..(n - c) : c + i \in 1..n
    BY <1>1
  <2>2. SubSeq(w, c + 1, n) \in Seq(Letters)
    BY <1>1, <2>1, SubSeqProperties
  <2>3. Len(SubSeq(w, c + 1, n)) = n - c
        /\ \A i \in 1..(n - c) : SubSeq(w, c + 1, n)[i] = w[c + i]
    BY <1>1, <2>1
  <2> QED
    BY <2>2, <2>3 DEF Second
<1> HIDE DEF a, b
<1>4. a \o b \in Seq(Letters) /\ Len(a \o b) = n
      /\ \A i \in 1..n : (a \o b)[i] = w[i]
  <2> HIDE DEF n
  <2>1. /\ a \o b \in Seq(Letters) /\ Len(a \o b) = Len(a) + Len(b)
        /\ \A i \in 1..(Len(a) + Len(b)) :
             (a \o b)[i] = IF i <= Len(a) THEN a[i] ELSE b[i - Len(a)]
    BY <1>2, <1>3, ConcatProperties
  <2>2. Len(a) + Len(b) = n /\ Len(a) = c
    BY <1>1, <1>2, <1>3
  <2>3. ASSUME NEW i \in 1..n PROVE (a \o b)[i] = w[i]
    <3>1. CASE i <= c
      BY <1>1, <1>2, <2>1, <2>2, <3>1
    <3>2. CASE ~(i <= c)
      <4>1. i - c \in 1..(n - c) /\ c + (i - c) = i
        BY <1>1, <3>2
      <4> QED
        BY <1>3, <2>1, <2>2, <3>2, <4>1
    <3> QED
      BY <3>1, <3>2
  <2> QED
    BY <2>1, <2>2, <2>3
<1>5. a \o b = w
  BY <1>1, <1>4, SeqEqual
<1>6. CASE c = 0
  <2>1. a = <<>>
    BY <1>2, <1>6, EmptySeq
  <2>2. b = w
    BY <1>1, <1>3, <1>6, SeqEqual
  <2>3. c = n => w = <<>>
    BY <1>1, <1>6, EmptySeq
  <2> QED
    BY <1>2, <1>3, <1>5, <2>1, <2>2, <2>3 DEF a, b, Text
<1>7. CASE c # 0
  <2>1. c = n => b = <<>>
    BY <1>1, <1>3, EmptySeq
  <2>2. c = n => a = w
    BY <1>1, <1>2, SeqEqual
  <2> QED
    BY <1>2, <1>3, <1>5, <1>7, <2>1, <2>2 DEF a, b, Text
<1> QED
  BY <1>6, <1>7

LEMMA EmptyText == <<>> \in Text
  BY DEF Text

LEMMA OccursInItself ==
    ASSUME NEW v \in Word
    PROVE  Occurs(v, v)
<1>1. Len(v) \in Nat \ {0}
  BY EmptySeq DEF Word, Text
<1>2. Match(v, v, 1) /\ 1 \in 1..Len(v)
  BY <1>1 DEF Match
<1> QED
  BY <1>2 DEF Occurs

LEMMA OccursInAPart ==
    ASSUME NEW w \in Text, NEW c \in 0..Len(w), NEW v \in Word,
           Occurs(v, First(w, c)) \/ Occurs(v, Second(w, c))
    PROVE  Occurs(v, w)
<1> DEFINE n == Len(w)
           k == Len(v)
           a == First(w, c)
           b == Second(w, c)
<1>1. n \in Nat /\ c \in Nat /\ c <= n /\ k \in Nat /\ k # 0
  BY EmptySeq DEF Text, Word
<1>2. /\ Len(a) = c /\ \A i \in 1..c : a[i] = w[i]
      /\ Len(b) = n - c /\ \A i \in 1..(n - c) : b[i] = w[c + i]
  BY CutWord
<1> HIDE DEF n, k, a, b
<1>3. ASSUME NEW i \in 1..Len(a), Match(a, v, i) PROVE Occurs(v, w)
  <2>1. i + k <= c + 1 /\ \A j \in 1..k : a[i + j - 1] = v[j]
    BY <1>2, <1>3 DEF Match, k
  <2>2. i \in 1..n /\ i + k <= n + 1
    BY <1>1, <1>2, <2>1
  <2>3. ASSUME NEW j \in 1..k PROVE w[i + j - 1] = v[j]
    <3>1. i + j - 1 \in 1..c
      BY <1>1, <1>2, <2>1
    <3> QED
      BY <1>2, <2>1, <3>1
  <2> QED
    BY <2>2, <2>3 DEF Occurs, Match, n, k
<1>4. ASSUME NEW i \in 1..Len(b), Match(b, v, i) PROVE Occurs(v, w)
  <2>1. i + k <= n - c + 1 /\ \A j \in 1..k : b[i + j - 1] = v[j]
    BY <1>2, <1>4 DEF Match, k
  <2>2. c + i \in 1..n /\ (c + i) + k <= n + 1
    BY <1>1, <1>2, <2>1
  <2>3. ASSUME NEW j \in 1..k PROVE w[(c + i) + j - 1] = v[j]
    <3>1. i + j - 1 \in 1..(n - c) /\ c + (i + j - 1) = (c + i) + j - 1
      BY <1>1, <1>2, <2>1
    <3> QED
      BY <1>2, <2>1, <3>1
  <2> QED
    BY <2>2, <2>3 DEF Occurs, Match, n, k
<1>5. \/ \E i \in 1..Len(a) : Match(a, v, i)
      \/ \E i \in 1..Len(b) : Match(b, v, i)
  BY DEF Occurs, a, b
<1> QED
  BY <1>3, <1>4, <1>5

\* What words may have become: those without a value are as they were.
Image == {f \in [Eligible -> Text] : \A w \in Eligible \ KeptValues : f[w] = w}

\* A cut that does not go through a word that is replaced.
LEMMA Halves ==
    ASSUME Reviewed, NEW w \in Eligible, NEW c \in 0..Len(w), NEW f \in Image,
           w \in KeptValues => c \notin 1..(Len(w) - 1)
    PROVE  /\ First(w, c) \in Eligible /\ Second(w, c) \in Eligible
           /\ f[First(w, c)] \o f[Second(w, c)] = f[w]
<1>1. w \in Text /\ Len(w) \in Nat
  BY DEF Eligible, Text
<1>2. KeptValues \subseteq Word
  BY KeptFacts
<1>3. <<>> \in Eligible /\ <<>> \notin KeptValues
  <2>1. \A v \in KeptValues : ~Occurs(v, <<>>)
    BY DEF Occurs
  <2> QED
    BY <1>2, <2>1, EmptyText DEF Eligible, Word
<1>4. CASE w \in KeptValues
  <2>1. c = 0 \/ c = Len(w)
    BY <1>1, <1>4
  <2>2. \/ First(w, c) = <<>> /\ Second(w, c) = w
        \/ First(w, c) = w /\ Second(w, c) = <<>>
    BY <1>1, <2>1, CutWord
  <2>3. f[<<>>] = <<>>
    BY <1>3 DEF Image
  <2>4. f[w] \in Seq(Letters)
    BY DEF Image, Text
  <2>5. <<>> \o f[w] = f[w] /\ f[w] \o <<>> = f[w]
    BY <2>4, ConcatEmptySeq
  <2> QED
    BY <1>3, <2>2, <2>3, <2>5
<1>5. CASE w \notin KeptValues
  <2>1. \A v \in KeptValues : ~Occurs(v, w)
    BY <1>5 DEF Eligible
  <2>2. /\ First(w, c) \in Text /\ Second(w, c) \in Text
        /\ First(w, c) \o Second(w, c) = w
    BY <1>1, CutWord
  <2>3. \A v \in KeptValues : ~Occurs(v, First(w, c)) /\ ~Occurs(v, Second(w, c))
    BY <1>1, <1>2, <2>1, OccursInAPart
  <2>4. First(w, c) \notin KeptValues /\ Second(w, c) \notin KeptValues
    BY <1>2, <2>3, OccursInItself
  <2>5. First(w, c) \in Eligible /\ Second(w, c) \in Eligible
    BY <2>2, <2>3 DEF Eligible
  <2>6. f[First(w, c)] = First(w, c) /\ f[Second(w, c)] = Second(w, c) /\ f[w] = w
    BY <1>5, <2>4, <2>5 DEF Image
  <2> QED
    BY <2>2, <2>5, <2>6
<1> QED
  BY <1>4, <1>5

-----------------------------------------------------------------------------
(* A text of words that is pseudonymized.                                  *)

Each(f, ws) == [m \in DOMAIN ws |-> f[ws[m]]]

\* The words a text may have.
Phrase == Seq(Eligible) \ {<<>>}

LEMMA PhraseFacts ==
    ASSUME NEW ws \in Phrase
    PROVE  /\ ws \in Seq(Text) /\ Len(ws) \in Nat /\ Len(ws) >= 1 /\ DOMAIN ws = 1..Len(ws)
           /\ \A m \in DOMAIN ws : ws[m] \in Eligible
<1>1. Eligible \subseteq Text
  BY DEF Eligible
<1>2. ws \in Seq(Eligible) /\ ws # <<>>
  BY DEF Phrase
<1> HIDE DEF Eligible
<1>3. Len(ws) \in Nat /\ Len(ws) # 0 /\ DOMAIN ws = 1..Len(ws)
      /\ \A m \in DOMAIN ws : ws[m] \in Eligible
  BY <1>2, EmptySeq
<1>4. ws \in Seq(Text)
  BY <1>1, <1>2, <1>3
<1> QED
  BY <1>3, <1>4

\* What replaces key in each word by itself does so in the text.
LEMMA ReplaceWords ==
    ASSUME NEW us \in Seq(Text), us # <<>>, NEW vs, DOMAIN vs = DOMAIN us,
           NEW old \in Word, ~Has(old, Gap), NEW new \in Text,
           \A m \in DOMAIN us : Replace(us[m], old, new) = vs[m],
           vs = [m \in DOMAIN vs |-> vs[m]]
    PROVE  Replace(Join(us), old, new) = Join(vs)
<1>1. vs = [m \in DOMAIN us |-> Replace(us[m], old, new)]
  OBVIOUS
<1>2. Replace(Join(us), old, new) = Join([m \in DOMAIN us |-> Replace(us[m], old, new)])
  BY ReplaceJoin DEF Word
<1> QED
  BY <1>1, <1>2

LEMMA EachFacts ==
    ASSUME NEW f \in Image, NEW ws \in Phrase
    PROVE  /\ Each(f, ws) \in Seq(Text) /\ Each(f, ws) # <<>>
           /\ Len(Each(f, ws)) = Len(ws)
           /\ \A m \in DOMAIN ws : Each(f, ws)[m] = f[ws[m]]
<1>1. Len(ws) \in Nat /\ Len(ws) >= 1 /\ DOMAIN ws = 1..Len(ws)
      /\ \A m \in DOMAIN ws : ws[m] \in Eligible
  BY PhraseFacts
<1>2. \A w \in Eligible : f[w] \in Text
  BY DEF Image
<1>3. Each(f, ws) = [m \in 1..Len(ws) |-> f[ws[m]]]
  BY <1>1 DEF Each
<1>4. \A m \in 1..Len(ws) : f[ws[m]] \in Text
  BY <1>1, <1>2
<1>5. Each(f, ws) \in Seq(Text) /\ Len(Each(f, ws)) = Len(ws)
  BY <1>1, <1>3, <1>4
<1> QED
  BY <1>1, <1>3, <1>5, EmptySeq

\* One more key replaced, in words, and so in the texts they make.
Replaced(f, key) == [w \in Eligible |-> Replace(f[w], key, SubstitutionMap[key])]

LEMMA ImageStep ==
    ASSUME Reviewed, NEW f \in Image, NEW key \in KeptValues
    PROVE  Replaced(f, key) \in Image
<1>1. key \in Word /\ SubstitutionMap[key] \in Text
  BY KeptFacts, SubstitutionFacts DEF Word
<1>2. ASSUME NEW w \in Eligible PROVE Replace(f[w], key, SubstitutionMap[key]) \in Text
  <2>1. f[w] \in Text
    BY DEF Image
  <2> QED
    BY <1>1, <2>1, ReplaceIn
<1>3. ASSUME NEW w \in Eligible \ KeptValues
      PROVE  Replace(f[w], key, SubstitutionMap[key]) = w
  <2>1. f[w] = w /\ w \in Text /\ ~Occurs(key, w)
    BY <1>3 DEF Image, Eligible
  <2> QED
    BY <1>1, <2>1, ReplaceIn
<1> HIDE DEF Eligible
<1> QED
  BY <1>2, <1>3 DEF Image, Replaced

LEMMA EachStep ==
    ASSUME Reviewed, NEW f \in Image, NEW key \in KeptValues, NEW ws \in Phrase
    PROVE  Replace(Join(Each(f, ws)), key, SubstitutionMap[key]) = Join(Each(Replaced(f, key), ws))
<1> DEFINE us == Each(f, ws)
           vs == Each(Replaced(f, key), ws)
<1>1. key \in Word /\ ~Has(key, Gap) /\ SubstitutionMap[key] \in Text
  BY KeptFacts, SubstitutionFacts, TextsAssumption DEF Word
<1>2. us \in Seq(Text) /\ us # <<>> /\ DOMAIN us = DOMAIN ws
      /\ \A m \in DOMAIN ws : us[m] = f[ws[m]]
  BY EachFacts DEF Each
<1>3. DOMAIN vs = DOMAIN ws /\ vs = [m \in DOMAIN vs |-> vs[m]]
      /\ \A m \in DOMAIN ws : vs[m] = Replaced(f, key)[ws[m]]
  BY DEF Each
<1>4. ASSUME NEW m \in DOMAIN ws
      PROVE  Replaced(f, key)[ws[m]] = Replace(f[ws[m]], key, SubstitutionMap[key])
  BY PhraseFacts DEF Replaced
<1> HIDE DEF us, vs
<1>5. \A m \in DOMAIN us : Replace(us[m], key, SubstitutionMap[key]) = vs[m]
  BY <1>2, <1>3, <1>4
<1>6. Replace(Join(us), key, SubstitutionMap[key]) = Join(vs)
  BY <1>1, <1>2, <1>3, <1>5, ReplaceWords
<1> QED
  BY <1>6 DEF us, vs

\* Words when the keys in rest are not replaced yet, if values and pseudonyms do not mix.
ShownBy(rest) == [w \in Eligible |-> Shown(w, rest)]

LEMMA NothingShown ==
    ASSUME NEW ws \in Phrase
    PROVE  ShownBy(KeptValues) \in Image /\ Each(ShownBy(KeptValues), ws) = ws
<1>1. \A w \in Eligible : ShownBy(KeptValues)[w] = w
  BY DEF ShownBy, Shown
<1>2. ShownBy(KeptValues) \in Image
  <2>1. Eligible \subseteq Text
    BY DEF Eligible
  <2> HIDE DEF Eligible
  <2> QED
    BY <1>1, <2>1 DEF Image, ShownBy
<1>3. ws = [m \in DOMAIN ws |-> ws[m]]
  BY PhraseFacts
<1> QED
  BY <1>1, <1>2, <1>3, PhraseFacts DEF Each

LEMMA ShownByStep ==
    ASSUME Reviewed, Apart, NEW rest, AreShortest(rest, KeptValues), NEW key \in Longest(rest)
    PROVE  Replaced(ShownBy(rest), key) = ShownBy(rest \ {key})
<1>1. \A w \in Eligible :
         Replace(ShownBy(rest)[w], key, SubstitutionMap[key]) = Shown(w, rest \ {key})
  BY ShownStep DEF ShownBy
<1> QED
  BY <1>1 DEF Replaced, ShownBy

-----------------------------------------------------------------------------
(* The runs of a document.                                                 *)

Left(ws, m, c) == [i \in 1..m |-> IF i = m THEN First(ws[m], c) ELSE ws[i]]

Right(ws, m, c) ==
    [i \in 1..(Len(ws) + 1 - m) |-> IF i = 1 THEN Second(ws[m], c) ELSE ws[m + i - 1]]

\* The cut is not through a word that is replaced.
Harmless(ws, m, c) == ws[m] \in KeptValues => c \notin 1..(Len(ws[m]) - 1)

LEMMA RunsAreHalves ==
    ASSUME NEW ws, NEW m, NEW c
    PROVE  Runs(ws, m, c) = <<Join(Left(ws, m, c)), Join(Right(ws, m, c))>>
BY DEF Runs, Left, Right, First, Second

LEMMA HalvesAreWords ==
    ASSUME Reviewed, NEW ws \in Phrase, NEW m \in DOMAIN ws, NEW c \in 0..Len(ws[m]),
           Harmless(ws, m, c)
    PROVE  /\ Left(ws, m, c) \in Phrase /\ Len(Left(ws, m, c)) = m
           /\ Right(ws, m, c) \in Phrase /\ Len(Right(ws, m, c)) = Len(ws) + 1 - m
           /\ \A i \in 1..(m - 1) : Left(ws, m, c)[i] = ws[i]
           /\ Left(ws, m, c)[m] = First(ws[m], c)
           /\ Right(ws, m, c)[1] = Second(ws[m], c)
           /\ \A i \in 2..(Len(ws) + 1 - m) : Right(ws, m, c)[i] = ws[m + i - 1]
<1> DEFINE a == First(ws[m], c)
           b == Second(ws[m], c)
           n == Len(ws)
           k == n + 1 - m
           left == [i \in 1..m |-> IF i = m THEN a ELSE ws[i]]
           right == [i \in 1..k |-> IF i = 1 THEN b ELSE ws[m + i - 1]]
<1>1. n \in Nat /\ n >= 1 /\ m \in 1..n /\ \A i \in 1..n : ws[i] \in Eligible
  BY PhraseFacts
<1>2. a \in Eligible /\ b \in Eligible
  BY <1>1, NothingShown, Halves DEF Harmless
<1>3. k \in Nat /\ k >= 1 /\ m \in Nat /\ m >= 1
  BY <1>1
<1>4. Left(ws, m, c) = left /\ Right(ws, m, c) = right
  BY DEF Left, Right
<1> HIDE DEF a, b
<1>5. /\ left \in Phrase /\ Len(left) = m
      /\ \A i \in 1..(m - 1) : left[i] = ws[i]
      /\ left[m] = a
  <2> HIDE DEF n, k, Eligible
  <2>1. \A i \in 1..m : i \in 1..n
    BY <1>1
  <2>2. \A i \in 1..m : (IF i = m THEN a ELSE ws[i]) \in Eligible
    BY <1>1, <1>2, <2>1
  <2>3. left \in Seq(Eligible) /\ Len(left) = m
    BY <1>3, <2>2
  <2>4. left # <<>>
    BY <1>3, <2>3, EmptySeq
  <2>5. m \in 1..m /\ \A i \in 1..(m - 1) : i \in 1..m /\ i # m
    BY <1>3
  <2> QED
    BY <2>3, <2>4, <2>5 DEF Phrase
<1>6. /\ right \in Phrase /\ Len(right) = k
      /\ right[1] = b
      /\ \A i \in 2..k : right[i] = ws[m + i - 1]
  <2>1. \A i \in 2..k : m + i - 1 \in 1..n /\ i \in 1..k /\ i # 1
    BY <1>1, <1>3
  <2>2. \A i \in 1..k : i = 1 \/ i \in 2..k
    BY <1>3
  <2> HIDE DEF n, k, Eligible
  <2>3. \A i \in 1..k : (IF i = 1 THEN b ELSE ws[m + i - 1]) \in Eligible
    BY <1>1, <1>2, <2>1, <2>2
  <2>4. right \in Seq(Eligible) /\ Len(right) = k
    BY <1>3, <2>3
  <2>5. right # <<>>
    BY <1>3, <2>4, EmptySeq
  <2>6. 1 \in 1..k
    BY <1>3
  <2> QED
    BY <2>1, <2>4, <2>5, <2>6 DEF Phrase
<1> HIDE DEF left, right
<1> QED
  BY <1>4, <1>5, <1>6 DEF a, b, k, n

\* The runs, joined, are the text, however many keys are replaced in each.
LEMMA HalvesJoin ==
    ASSUME Reviewed, NEW ws \in Phrase, NEW m \in DOMAIN ws, NEW c \in 0..Len(ws[m]),
           Harmless(ws, m, c), NEW f \in Image
    PROVE  Join(Each(f, Left(ws, m, c))) \o Join(Each(f, Right(ws, m, c)))
             = Join(Each(f, ws))
<1> DEFINE left == Left(ws, m, c)
           right == Right(ws, m, c)
           us == Each(f, ws)
           ls == Each(f, left)
           rs == Each(f, right)
           n == Len(ws)
<1>1. n \in Nat /\ n >= 1 /\ m \in 1..n /\ DOMAIN ws = 1..n /\ \A i \in 1..n : ws[i] \in Eligible
  BY PhraseFacts
<1>2. /\ left \in Phrase /\ Len(left) = m
      /\ right \in Phrase /\ Len(right) = n + 1 - m
      /\ \A i \in 1..(m - 1) : left[i] = ws[i]
      /\ left[m] = First(ws[m], c)
      /\ right[1] = Second(ws[m], c)
      /\ \A i \in 2..(n + 1 - m) : right[i] = ws[m + i - 1]
  BY HalvesAreWords
<1> HIDE DEF left, right
<1>3. DOMAIN left = 1..m /\ DOMAIN right = 1..(n + 1 - m)
  BY <1>2, PhraseFacts
<1>4. /\ us \in Seq(Text) /\ us # <<>> /\ Len(us) = n
      /\ \A i \in 1..n : us[i] = f[ws[i]]
  BY <1>1, EachFacts
<1>5. /\ ls \in Seq(Text) /\ Len(ls) = m
      /\ \A i \in 1..m : ls[i] = f[left[i]]
  BY <1>2, <1>3, EachFacts
<1>6. /\ rs \in Seq(Text) /\ Len(rs) = n + 1 - m
      /\ \A i \in 1..(n + 1 - m) : rs[i] = f[right[i]]
  BY <1>2, <1>3, EachFacts
<1>7. f[First(ws[m], c)] \o f[Second(ws[m], c)] = f[ws[m]]
  BY <1>1, Halves DEF Harmless
<1> HIDE DEF us, ls, rs
<1>8. CutOf(us, m, ls, rs)
  <2>1. \A i \in 1..(m - 1) : i \in 1..m /\ i \in 1..n
    BY <1>1
  <2>2. \A i \in 2..(n + 1 - m) : i \in 1..(n + 1 - m) /\ m + i - 1 \in 1..n
    BY <1>1
  <2>3. m \in 1..m /\ 1 \in 1..(n + 1 - m)
    BY <1>1
  <2>4. \A i \in 1..(m - 1) : ls[i] = us[i]
    BY <1>2, <1>4, <1>5, <2>1
  <2>5. \A i \in 2..(n + 1 - m) : rs[i] = us[m + i - 1]
    BY <1>2, <1>4, <1>6, <2>2
  <2>6. ls[m] = f[First(ws[m], c)] /\ rs[1] = f[Second(ws[m], c)]
    BY <1>2, <1>5, <1>6, <2>3
  <2>7. us[m] = f[ws[m]]
    BY <1>1, <1>4
  <2> HIDE DEF n
  <2> QED
    BY <1>4, <1>5, <1>6, <1>7, <2>4, <2>5, <2>6, <2>7 DEF CutOf
<1>9. m \in 1..Len(us)
  BY <1>1, <1>4
<1>10. Join(ls) \o Join(rs) = Join(us)
  BY <1>4, <1>8, <1>9, JoinCut
<1> QED
  BY <1>10 DEF us, ls, rs, left, right

-----------------------------------------------------------------------------
(* A text that is reverted, word by word.                                  *)

\* A word when the pseudonyms in rest are not reverted yet.
Back(w, rest) ==
    IF w \notin KeptValues THEN w
    ELSE IF SubstitutionMap[w] \in rest THEN SubstitutionMap[w]
    ELSE Canonical[w]

BackAll(ws, rest) == [m \in DOMAIN ws |-> Back(ws[m], rest)]

\* One more pseudonym reverted in a word.
LEMMA BackStep ==
    ASSUME Reviewed, Distinct, NEW rest, AreShortest(rest, DOMAIN MappingOf),
           NEW key \in Longest(rest), NEW w \in Text,
           \A i, j \in Kept : Final[i] # Final[j] /\ Len(Final[i]) <= Len(Final[j])
                               => ~Occurs(Final[i], Canonical[found[j].value]),
           \A i \in Kept : w \in KeptValues \/ ~Occurs(Final[i], w)
    PROVE  /\ Back(w, rest) \in Text
           /\ Replace(Back(w, rest), key, MappingOf[key]) = Back(w, rest \ {key})
<1>1. key \in rest /\ key \in DOMAIN MappingOf /\ \A p \in rest : Len(p) <= Len(key)
  BY DEF Longest, AreShortest
<1>2. PICK j \in Kept : Final[j] = key /\ MappingOf[key] = Canonical[found[j].value]
  BY <1>1, MappingFacts
<1>3. \A v \in KeptValues : v \in Values /\ Canonical[v] \in Text
  BY KeptFacts, ValuesAssumption
<1>4. key \in Word /\ key \in Text /\ MappingOf[key] \in Text
  BY <1>1, <1>2, <1>3, KeptFacts, MappingFacts DEF Word
<1>5. CASE w \notin KeptValues
  <2>1. ~Occurs(key, w)
    BY <1>2, <1>5
  <2>2. Replace(w, key, MappingOf[key]) = w
    BY <1>4, <2>1, ReplaceIn
  <2> QED
    BY <1>5, <2>2 DEF Back
<1>6. CASE w \in KeptValues
  <2> DEFINE p == SubstitutionMap[w]
  <2>1. PICK i \in Kept : found[i].value = w /\ p = Final[i]
    BY <1>6, SubstitutionFacts
  <2>2. p \in Text
    BY <1>6, SubstitutionFacts DEF Word
  <2>3. CASE p = key
    <3>1. MappingOf[key] = Canonical[w]
      BY <1>2, <2>1, <2>3 DEF Distinct
    <3>2. Replace(p, key, MappingOf[key]) = MappingOf[key]
      BY <1>4, <2>2, <2>3, ReplaceIn
    <3> QED
      BY <1>1, <1>6, <2>2, <2>3, <3>1, <3>2 DEF Back
  <2>4. CASE p # key /\ p \in rest
    <3>1. ~Occurs(key, p)
      BY <1>1, <1>4, <2>2, <2>4, LongerDoesNotOccur
    <3>2. Replace(p, key, MappingOf[key]) = p
      BY <1>4, <2>2, <3>1, ReplaceIn
    <3> QED
      BY <1>6, <2>2, <2>4, <3>2 DEF Back
  <2>5. CASE p \notin rest
    <3>1. p \in DOMAIN MappingOf
      BY <2>1, MappingFacts
    <3>3. Len(key) <= Len(p)
      BY <1>1, <2>5, <3>1 DEF AreShortest
    <3>4. ~Occurs(key, Canonical[w])
      BY <1>1, <1>2, <2>1, <2>5, <3>3
    <3>2. Replace(Canonical[w], key, MappingOf[key]) = Canonical[w]
      BY <1>3, <1>4, <1>6, <3>4, ReplaceIn
    <3> QED
      BY <1>3, <1>6, <2>5, <3>2 DEF Back
  <2> QED
    BY <2>3, <2>4, <2>5
<1> QED
  BY <1>5, <1>6

LEMMA BackAllStep ==
    ASSUME Reviewed, Distinct, Fresh, words \in Phrase,
           NEW rest, AreShortest(rest, DOMAIN MappingOf), NEW key \in Longest(rest)
    PROVE  Replace(Join(BackAll(words, rest)), key, MappingOf[key])
             = Join(BackAll(words, rest \ {key}))
<1> DEFINE ws == words
           us == BackAll(ws, rest)
           vs == BackAll(ws, rest \ {key})
           n == Len(ws)
<1>1. key \in DOMAIN MappingOf
  BY DEF Longest, AreShortest
<1>2. PICK q \in Kept : Final[q] = key /\ MappingOf[key] = Canonical[found[q].value]
  BY <1>1, MappingFacts
<1>3. key \in Word /\ ~Has(key, Gap)
  BY <1>1, <1>2, MappingFacts DEF Fresh
<1>4. MappingOf[key] \in Text
  BY <1>2, KeptFacts, ValuesAssumption
<1>5. n \in Nat /\ n >= 1 /\ DOMAIN ws = 1..n /\ \A m \in 1..n : ws[m] \in Text
  BY PhraseFacts DEF Eligible
<1>6. ASSUME NEW m \in 1..n
      PROVE  /\ Back(ws[m], rest) \in Text
             /\ Replace(Back(ws[m], rest), key, MappingOf[key]) = Back(ws[m], rest \ {key})
  <2>1. \A i, j \in Kept : Final[i] # Final[j] /\ Len(Final[i]) <= Len(Final[j])
                            => ~Occurs(Final[i], Canonical[found[j].value])
    BY DEF Fresh
  <2>2. \A i \in Kept : ws[m] \in KeptValues \/ ~Occurs(Final[i], ws[m])
    BY <1>5 DEF Fresh
  <2>3. ws[m] \in Text
    BY <1>5
  <2> DEFINE w == ws[m]
  <2> HIDE DEF w
  <2>4. /\ Back(w, rest) \in Text
        /\ Replace(Back(w, rest), key, MappingOf[key]) = Back(w, rest \ {key})
    BY <2>1, <2>2, <2>3, BackStep DEF w
  <2> QED
    BY <2>4 DEF w
<1>7. us = [m \in 1..n |-> Back(ws[m], rest)] /\ vs = [m \in 1..n |-> Back(ws[m], rest \ {key})]
  BY <1>5 DEF BackAll
<1> HIDE DEF us, vs, n, ws
<1>8. us \in Seq(Text) /\ Len(us) = n
  BY <1>5, <1>6, <1>7
<1>9. us # <<>> /\ DOMAIN us = 1..n /\ DOMAIN vs = DOMAIN us /\ vs = [m \in DOMAIN vs |-> vs[m]]
  BY <1>5, <1>7, <1>8, EmptySeq
<1>10. \A m \in DOMAIN us : Replace(us[m], key, MappingOf[key]) = vs[m]
  BY <1>6, <1>7, <1>9
<1>11. Replace(Join(us), key, MappingOf[key]) = Join(vs)
  BY <1>3, <1>4, <1>8, <1>9, <1>10, ReplaceWords
<1> QED
  BY <1>11 DEF us, vs, ws

-----------------------------------------------------------------------------
(* The invariant of a text.  While it is pseudonymized each word has become*)
(* something, the same in the text and in each run of a document: its      *)
(* pseudonym if its key is done and values and pseudonyms do not mix.      *)
(* While it is reverted the pseudonyms that are done are values.  What is  *)
(* done is never shorter than what is to come.                             *)

Became(f) ==
    /\ Apart => f = ShownBy(todo)
    /\ text = Join(Each(f, words))
    /\ \A m \in DOMAIN words : \A c \in 0..Len(words[m]) :
          Harmless(words, m, c)
            => documents[<<m, c>>] = << Join(Each(f, Left(words, m, c))),
                                        Join(Each(f, Right(words, m, c))) >>

Applied ==
    /\ AreShortest(todo, KeptValues) /\ DOMAIN documents = Cuts(words)
    /\ \E f \in Image : Became(f)

Reverted ==
    /\ AreShortest(todo, DOMAIN MappingOf)
    /\ Apart /\ Distinct /\ Fresh => text = Join(BackAll(words, todo))

TextInv ==
    /\ stage # "scan" => Reviewed
    /\ stage \in {"apply", "revert"} => words \in Phrase
    /\ stage = "apply" => Applied
    /\ stage = "revert" => Reverted

\* What is decided in a review stays while its texts are pseudonymized and reverted.
LEMMA SameBatch ==
    ASSUME found' = found, verdicts' = verdicts
    PROVE  /\ Kept' = Kept /\ KeptValues' = KeptValues /\ Final' = Final
           /\ SubstitutionMap' = SubstitutionMap /\ MappingOf' = MappingOf
           /\ Reviewed' = Reviewed /\ Eligible' = Eligible /\ Phrase' = Phrase /\ Image' = Image
           /\ Apart' = Apart /\ Distinct' = Distinct
<1>1. Kept' = Kept
  BY DEF Kept
<1>2. KeptValues' = KeptValues
  BY <1>1 DEF KeptValues
<1>3. Final' = Final
  BY DEF Final
<1>4. SubstitutionMap' = SubstitutionMap
  BY <1>1, <1>2, <1>3 DEF SubstitutionMap, FirstOf
<1>5. MappingOf' = MappingOf
  BY <1>1, <1>3 DEF MappingOf, FirstOf
<1>6. Reviewed' = Reviewed
  BY DEF Reviewed, Finding, Pseudonym, Generate
<1>7. Eligible' = Eligible
  BY <1>2 DEF Eligible, Occurs, Match
<1>8. Phrase' = Phrase /\ Image' = Image
  BY <1>2, <1>7 DEF Phrase, Image
<1>9. Apart' = Apart /\ Distinct' = Distinct
  BY <1>1, <1>2, <1>3, <1>4 DEF Apart, Distinct, Occurs, Match
<1> QED
  BY <1>1, <1>2, <1>3, <1>4, <1>5, <1>6, <1>7, <1>8, <1>9

LEMMA SameShown ==
    ASSUME found' = found, verdicts' = verdicts
    PROVE  ShownBy(todo)' = ShownBy(todo')
<1>1. KeptValues' = KeptValues /\ SubstitutionMap' = SubstitutionMap /\ Eligible' = Eligible
  BY SameBatch
<1> QED
  BY <1>1 DEF ShownBy, Shown

\* How a text and its documents are told to have become what they are.
LEMMA NowApplied ==
    ASSUME found' = found, verdicts' = verdicts, NEW ws, words' = ws,
           AreShortest(todo', KeptValues), DOMAIN documents' = Cuts(ws), NEW f \in Image,
           Apart => f = ShownBy(todo'), text' = Join(Each(f, ws)),
           \A m \in DOMAIN ws : \A c \in 0..Len(ws[m]) :
               Harmless(ws, m, c)
                 => documents'[<<m, c>>] = << Join(Each(f, Left(ws, m, c))),
                                              Join(Each(f, Right(ws, m, c))) >>
    PROVE  Applied'
<1>1. KeptValues' = KeptValues /\ Image' = Image /\ Apart' = Apart
  BY SameBatch
<1>2. (AreShortest(todo, KeptValues) /\ DOMAIN documents = Cuts(words))'
  BY <1>1 DEF AreShortest, Cuts
<1>3. (Apart => f = ShownBy(todo))'
  BY <1>1, SameShown
<1>4. (text = Join(Each(f, words)))'
  BY DEF Each, Join
<1>5. ASSUME NEW m \in DOMAIN words', NEW c \in 0..Len(words'[m]), Harmless(words, m, c)'
      PROVE  (documents[<<m, c>>] = << Join(Each(f, Left(words, m, c))),
                                       Join(Each(f, Right(words, m, c))) >>)'
  <2>1. Harmless(ws, m, c)
    BY <1>1, <1>5 DEF Harmless
  <2>2. Join(Each(f, Left(words, m, c)))' = Join(Each(f, Left(ws, m, c)))
    BY DEF Each, Join, Left, First
  <2>3. Join(Each(f, Right(words, m, c)))' = Join(Each(f, Right(ws, m, c)))
    BY DEF Each, Join, Right, Second
  <2> QED
    BY <1>5, <2>1, <2>2, <2>3
<1>6. Became(f)'
  BY <1>3, <1>4, <1>5 DEF Became
<1> QED
  BY <1>1, <1>2, <1>6 DEF Applied

LEMMA BeginApplyKeeps ==
    ASSUME TextInv, BeginApply
    PROVE  TextInv'
<1> DEFINE f == ShownBy(KeptValues)
           ws == words'
<1>1. /\ stage = "reviewed" /\ stage' = "apply" /\ ws \in Texts[Words]
      /\ text' = Join(ws)
      /\ documents' = [cut \in Cuts(ws) |-> Runs(ws, cut[1], cut[2])]
      /\ todo' = DOMAIN SubstitutionMap
      /\ found' = found /\ verdicts' = verdicts
  BY DEF BeginApply
<1>2. Reviewed
  BY <1>1 DEF TextInv
<1>3. Reviewed' /\ Phrase' = Phrase
  BY <1>1, <1>2, SameBatch
<1>4. ws \in Phrase
  <2>1. Words \in SUBSET (Values \cup Free)
    BY DEF Words
  <2>2. Words \subseteq Eligible
    BY <2>1, ValuesAssumption, TextsAssumption DEF Words, Eligible
  <2>3. ws \in Seq(Words) \ {<<>>}
    BY <1>1, <2>1, TextsAssumption
  <2> HIDE DEF Eligible, Words
  <2> QED
    BY <2>2, <2>3 DEF Phrase
<1>5. todo' = KeptValues /\ AreShortest(todo', KeptValues)
  BY <1>1, <1>2, SubstitutionFacts DEF AreShortest
<1>6. f \in Image /\ \A us \in Phrase : Each(f, us) = us
  BY <1>4, NothingShown
<1> HIDE DEF f
<1>7. ASSUME NEW m \in DOMAIN ws, NEW c \in 0..Len(ws[m]), Harmless(ws, m, c)
      PROVE  documents'[<<m, c>>] = << Join(Each(f, Left(ws, m, c))),
                                       Join(Each(f, Right(ws, m, c))) >>
  <2>1. <<m, c>> \in Cuts(ws)
    BY DEF Cuts
  <2>2. documents'[<<m, c>>] = Runs(ws, m, c)
    <3> HIDE DEF Runs
    <3> QED
      BY <1>1, <2>1
  <2>3. Left(ws, m, c) \in Phrase /\ Right(ws, m, c) \in Phrase
    BY <1>2, <1>4, <1>7, HalvesAreWords
  <2> QED
    BY <1>6, <2>2, <2>3, RunsAreHalves
<1>8. DOMAIN documents' = Cuts(ws) /\ text' = Join(Each(f, ws))
  BY <1>1, <1>4, <1>6
<1>9. f = ShownBy(todo')
  BY <1>5 DEF f
<1> HIDE DEF ws
<1>10. Applied'
  BY <1>1, <1>5, <1>6, <1>7, <1>8, <1>9, NowApplied DEF ws
<1> QED
  BY <1>1, <1>3, <1>4, <1>10 DEF TextInv, ws

LEMMA ApplyKeeps ==
    ASSUME TextInv, NEW key, Apply(key)
    PROVE  TextInv'
<1> DEFINE new == SubstitutionMap[key]
<1>1. /\ stage = "apply" /\ stage' = "apply" /\ key \in Longest(todo)
      /\ text' = Replace(text, key, new)
      /\ documents' = [cut \in DOMAIN documents |-> TransformRuns(documents[cut], key, new)]
      /\ todo' = todo \ {key} /\ found' = found /\ verdicts' = verdicts /\ words' = words
  BY DEF Apply
<1>2. Reviewed /\ words \in Phrase /\ Applied
  BY <1>1 DEF TextInv
<1>3. Reviewed' /\ Phrase' = Phrase
  BY <1>1, <1>2, SameBatch
<1>4. AreShortest(todo, KeptValues) /\ DOMAIN documents = Cuts(words)
  BY <1>2 DEF Applied
<1>5. PICK f \in Image : Became(f)
  BY <1>2 DEF Applied
<1>6. key \in KeptValues /\ AreShortest(todo', KeptValues)
  BY <1>1, <1>4, LongestIsNext
<1> DEFINE g == Replaced(f, key)
<1>7. /\ g \in Image
      /\ \A ws \in Phrase : Replace(Join(Each(f, ws)), key, new) = Join(Each(g, ws))
  BY <1>2, <1>6, ImageStep, EachStep
<1>8. ASSUME Apart PROVE g = ShownBy(todo')
  BY <1>1, <1>2, <1>4, <1>5, <1>8, ShownByStep DEF Became
<1> HIDE DEF g, new
<1>9. text' = Join(Each(g, words))
  BY <1>1, <1>2, <1>5, <1>7 DEF Became
<1>10. ASSUME NEW m \in DOMAIN words, NEW c \in 0..Len(words[m]), Harmless(words, m, c)
       PROVE  documents'[<<m, c>>] = << Join(Each(g, Left(words, m, c))),
                                        Join(Each(g, Right(words, m, c))) >>
  <2> DEFINE left == Join(Each(f, Left(words, m, c)))
             right == Join(Each(f, Right(words, m, c)))
  <2>1. <<m, c>> \in DOMAIN documents
    BY <1>4 DEF Cuts
  <2>2. documents[<<m, c>>] = <<left, right>>
    BY <1>5, <1>10 DEF Became
  <2>3. Left(words, m, c) \in Phrase /\ Right(words, m, c) \in Phrase
    BY <1>2, <1>10, HalvesAreWords
  <2>4. /\ Replace(left, key, new) = Join(Each(g, Left(words, m, c)))
        /\ Replace(right, key, new) = Join(Each(g, Right(words, m, c)))
    BY <1>7, <2>3
  <2> HIDE DEF left, right
  <2>5. documents'[<<m, c>>] = TransformRuns(documents[<<m, c>>], key, new)
    BY <1>1, <2>1
  <2>6. TransformRuns(<<left, right>>, key, new)
          = <<Replace(left, key, new), Replace(right, key, new)>>
    BY DEF TransformRuns
  <2> QED
    BY <2>2, <2>4, <2>5, <2>6
<1>11. DOMAIN documents' = Cuts(words)
  BY <1>1, <1>4
<1>12. Applied'
  BY <1>1, <1>6, <1>7, <1>8, <1>9, <1>10, <1>11, NowApplied
<1> QED
  BY <1>1, <1>2, <1>3, <1>12 DEF TextInv

\* What a text is when its keys are all done is what the revert begins with.
LEMMA ShownIsBack ==
    ASSUME Reviewed, NEW ws \in Phrase
    PROVE  Each(ShownBy({}), ws) = BackAll(ws, DOMAIN MappingOf)
<1>1. ASSUME NEW w \in KeptValues PROVE SubstitutionMap[w] \in DOMAIN MappingOf
  BY SubstitutionFacts, MappingFacts
<1>2. \A w : Shown(w, {}) = Back(w, DOMAIN MappingOf)
  BY <1>1 DEF Shown, Back
<1>3. \A m \in DOMAIN ws : ShownBy({})[ws[m]] = Back(ws[m], DOMAIN MappingOf)
  BY <1>2, PhraseFacts DEF ShownBy
<1> QED
  BY <1>3 DEF Each, BackAll

LEMMA SameBack ==
    ASSUME found' = found, verdicts' = verdicts, words' = words
    PROVE  BackAll(words, todo)' = BackAll(words, todo') /\ Fresh' = Fresh
<1>1. /\ Kept' = Kept /\ KeptValues' = KeptValues /\ Final' = Final
      /\ SubstitutionMap' = SubstitutionMap
  BY SameBatch
<1>2. BackAll(words, todo)' = BackAll(words, todo')
  BY <1>1 DEF BackAll, Back
<1>3. Fresh' = Fresh
  BY <1>1 DEF Fresh, Occurs, Match, Has
<1> QED
  BY <1>2, <1>3

LEMMA BeginRevertKeeps ==
    ASSUME TextInv, BeginRevert
    PROVE  TextInv'
<1>1. /\ stage = "apply" /\ todo = {} /\ stage' = "revert" /\ todo' = DOMAIN MappingOf
      /\ found' = found /\ verdicts' = verdicts /\ words' = words /\ text' = text
  BY DEF BeginRevert
<1>2. Reviewed /\ words \in Phrase /\ Applied
  BY <1>1 DEF TextInv
<1>3. /\ MappingOf' = MappingOf /\ Reviewed' /\ Phrase' = Phrase
      /\ Apart' = Apart /\ Distinct' = Distinct
  BY <1>1, <1>2, SameBatch
<1>4. Apart => text = Join(BackAll(words, DOMAIN MappingOf))
  BY <1>1, <1>2, ShownIsBack DEF Applied, Became
<1>5. BackAll(words, todo)' = BackAll(words, todo') /\ Fresh' = Fresh
  BY <1>1, SameBack
<1>6. Reverted'
  <2>1. ASSUME Apart' PROVE (text = Join(BackAll(words, todo)))'
    <3>1. Join(BackAll(words, todo))' = Join(BackAll(words, todo'))
      BY <1>5 DEF Join
    <3> QED
      BY <1>1, <1>3, <1>4, <1>5, <2>1, <3>1
  <2>2. AreShortest(todo, DOMAIN MappingOf)'
    BY <1>1, <1>3 DEF AreShortest
  <2> QED
    BY <2>1, <2>2 DEF Reverted
<1> QED
  BY <1>1, <1>2, <1>3, <1>6 DEF TextInv

LEMMA RevertKeeps ==
    ASSUME TextInv, NEW key, Revert(key)
    PROVE  TextInv'
<1>1. /\ stage = "revert" /\ stage' = "revert" /\ key \in Longest(todo)
      /\ text' = Replace(text, key, MappingOf[key]) /\ todo' = todo \ {key}
      /\ found' = found /\ verdicts' = verdicts /\ words' = words
  BY DEF Revert
<1>2. Reviewed /\ words \in Phrase /\ Reverted
  BY <1>1 DEF TextInv
<1>3. /\ MappingOf' = MappingOf /\ Reviewed' /\ Phrase' = Phrase
      /\ Apart' = Apart /\ Distinct' = Distinct
  BY <1>1, <1>2, SameBatch
<1>4. AreShortest(todo, DOMAIN MappingOf) /\ AreShortest(todo', DOMAIN MappingOf)
  BY <1>1, <1>2, LongestIsNext DEF Reverted
<1>5. ASSUME Apart, Distinct, Fresh
      PROVE  text' = Join(BackAll(words, todo \ {key}))
  BY <1>1, <1>2, <1>4, <1>5, BackAllStep DEF Reverted
<1>6. BackAll(words, todo)' = BackAll(words, todo') /\ Fresh' = Fresh
  BY <1>1, SameBack
<1>7. Reverted'
  <2>1. ASSUME Apart', Distinct', Fresh' PROVE (text = Join(BackAll(words, todo)))'
    <3>1. Join(BackAll(words, todo))' = Join(BackAll(words, todo'))
      BY <1>6 DEF Join
    <3> QED
      BY <1>1, <1>3, <1>5, <1>6, <2>1, <3>1
  <2>2. AreShortest(todo, DOMAIN MappingOf)'
    BY <1>3, <1>4 DEF AreShortest
  <2> QED
    BY <2>1, <2>2 DEF Reverted
<1> QED
  BY <1>1, <1>2, <1>3, <1>7 DEF TextInv

LEMMA TextStep == EngineInv /\ TextInv /\ [PseudonymsNext]_scanned => TextInv'
<1> SUFFICES ASSUME EngineInv, TextInv, [PseudonymsNext]_scanned PROVE TextInv'
  OBVIOUS
<1>1. ASSUME stage' = "scan" PROVE TextInv'
  BY <1>1 DEF TextInv
<1>2. ASSUME NEW type \in Types, NEW value \in Values,
             FindAgain(type, value) \/ FindNew(type, value)
      PROVE  TextInv'
  BY <1>1, <1>2 DEF FindAgain, FindNew, Scanning
<1>3. CASE Review
  <2>1. stage' = "reviewed" /\ found' = found /\ verdicts' \in [DOMAIN found -> Verdict]
    BY <1>3 DEF Review
  <2>2. found \in Seq(Finding)
    BY DEF EngineInv, EngineType
  <2>3. Reviewed'
    BY <2>1, <2>2 DEF Reviewed, Finding, Pseudonym, Generate
  <2> QED
    BY <2>1, <2>3 DEF TextInv
<1>4. CASE BeginApply
  BY <1>4, BeginApplyKeeps
<1>5. ASSUME NEW key \in todo, Apply(key) \/ Revert(key) PROVE TextInv'
  BY <1>5, ApplyKeeps, RevertKeeps
<1>6. CASE BeginRevert
  BY <1>6, BeginRevertKeeps
<1>7. CASE EndBatch
  BY <1>1, <1>7 DEF EndBatch
<1>8. CASE UNCHANGED scanned
  <2>1. /\ found' = found /\ verdicts' = verdicts /\ stage' = stage /\ words' = words
        /\ text' = text /\ documents' = documents /\ todo' = todo
    BY <1>8 DEF scanned, texts
  <2>2. /\ KeptValues' = KeptValues /\ SubstitutionMap' = SubstitutionMap
        /\ MappingOf' = MappingOf /\ Reviewed' = Reviewed /\ Phrase' = Phrase
        /\ Apart' = Apart /\ Distinct' = Distinct
    BY <2>1, SameBatch
  <2>3. BackAll(words, todo)' = BackAll(words, todo) /\ Fresh' = Fresh
    BY <2>1, SameBack
  <2>4. Reverted' = Reverted
    BY <2>1, <2>2, <2>3 DEF Reverted, Join
  <2>5. Applied => Applied'
    BY <2>1, <2>2, NowApplied DEF Applied, Became
  <2> QED
    BY <2>1, <2>2, <2>4, <2>5 DEF TextInv
<1> QED
  BY <1>2, <1>3, <1>4, <1>5, <1>6, <1>7, <1>8 DEF PseudonymsNext

LEMMA NoTextYet == PseudonymsInit => TextInv
BY DEF PseudonymsInit, TextInv

LEMMA TextInvariant == PseudonymsSpec => []TextInv
<1> QED
  BY NoTextYet, TextStep, EngineInvariant, PTL DEF PseudonymsSpec

-----------------------------------------------------------------------------
(* What holds of every batch.                                              *)

\* For any values, findings, review and text of words, a text that is pseudonymized is
\* the text with each value replaced as a whole by the pseudonym of its first finding
\* that was kept (transformer.py), if no value occurs in a pseudonym that may have
\* been inserted before it is replaced.
THEOREM ValuesReplacedAsWholes == PseudonymsSpec => []ReplacedAsWholes
<1>1. TextInv => ReplacedAsWholes
  <2> DEFINE Finds(v) == {i \in Kept : found[i].value = v}
             first == [v \in KeptValues |->
                          Final[CHOOSE i \in Finds(v) : \A j \in Finds(v) : i <= j]]
  <2> SUFFICES ASSUME TextInv, stage = "apply", todo = {}, Apart
               PROVE  text = Reading(first)
    BY DEF ReplacedAsWholes
  <2>1. text = Join(Each(ShownBy({}), words)) /\ words \in Phrase
    BY DEF TextInv, Applied, Became
  <2>2. first = SubstitutionMap
    BY DEF SubstitutionMap, FirstOf
  <2>3. Each(ShownBy({}), words)
          = [m \in DOMAIN words |->
                IF words[m] \in KeptValues THEN SubstitutionMap[words[m]] ELSE words[m]]
    BY <2>1, PhraseFacts DEF Each, ShownBy, Shown
  <2> HIDE DEF first
  <2> QED
    BY <2>1, <2>2, <2>3 DEF Reading
<1> QED
  BY <1>1, TextInvariant, PTL

\* For any values, findings, review and text of words, the revert (core/revert.py) gives
\* the text back, with values as the detectors normalise them, if no value occurs in an
\* earlier pseudonym, different values have different pseudonyms, and no pseudonym
\* looks like a part of the rest of the text.
THEOREM TextsRevert == PseudonymsSpec => []RevertRestores
<1>1. TextInv => RevertRestores
  <2> SUFFICES ASSUME TextInv, stage = "revert", todo = {}, Apart, Distinct, Fresh
               PROVE  text = Reading(Canonical)
    BY DEF RevertRestores
  <2>1. text = Join(BackAll(words, {}))
    BY DEF TextInv, Reverted
  <2>2. BackAll(words, {})
          = [m \in DOMAIN words |->
                IF words[m] \in KeptValues THEN Canonical[words[m]] ELSE words[m]]
    BY DEF BackAll, Back
  <2> QED
    BY <2>1, <2>2 DEF Reading
<1> QED
  BY <1>1, TextInvariant, PTL

\* For any values, findings, review and text of words, a document cut into two runs
\* anywhere but through a word that is replaced hides what the text hides, after each
\* key (transformer.py).
THEOREM DocumentsHideTheSame == PseudonymsSpec => []RunsHideTheSame
<1>1. TextInv => RunsHideTheSame
  <2> SUFFICES ASSUME TextInv, stage = "apply",
                      NEW m \in DOMAIN words, NEW c \in 0..Len(words[m]),
                      ~(words[m] \in KeptValues /\ c \in 1..(Len(words[m]) - 1))
               PROVE  documents[<<m, c>>][1] \o documents[<<m, c>>][2] = text
    BY DEF RunsHideTheSame
  <2>1. Harmless(words, m, c)
    BY DEF Harmless
  <2>2. Reviewed /\ words \in Phrase /\ Applied
    BY DEF TextInv
  <2>3. PICK f \in Image : Became(f)
    BY <2>2 DEF Applied
  <2> DEFINE left == Join(Each(f, Left(words, m, c)))
             right == Join(Each(f, Right(words, m, c)))
  <2>4. documents[<<m, c>>] = <<left, right>> /\ text = Join(Each(f, words))
    BY <2>1, <2>3 DEF Became
  <2>5. left \o right = Join(Each(f, words))
    BY <2>1, <2>2, HalvesJoin
  <2> HIDE DEF left, right
  <2>6. documents[<<m, c>>][1] = left /\ documents[<<m, c>>][2] = right
    BY <2>4
  <2> QED
    BY <2>4, <2>5, <2>6
<1> QED
  BY <1>1, TextInvariant, PTL

=============================================================================
