-------------------------- MODULE Detection_proofs --------------------------
(* Detection for any number of scans, configurations, directory versions,    *)
(* dictionary files and reloads, and the choice between findings that         *)
(* overlap for any text, priorities and findings.                             *)
EXTENDS Detection, Overlaps, TLAPS

-----------------------------------------------------------------------------
(* Every reachable state is well typed. *)

LEMMA Bounds ==
    /\ Configs \in Nat /\ Enabled \subseteq 1..Configs
    /\ Versions \in Nat /\ Versions >= 1 /\ Files \in Nat /\ Files >= 1
    /\ Reloads \in Nat /\ Threshold \in Nat /\ Threshold >= 1 /\ MaxFaults \in Nat
BY BoundsAssumption

\* The directory's side: what the routes and the refreshing thread work on.
Place == {"none", "wait", "check", "client", "query", "swap", "names", "post", "fill"}

DirectoryType ==
    /\ directory \in 1..Versions
    /\ posted \in 0..Configs /\ config \in 0..Configs /\ cached \in 0..Configs
    /\ at \in [Refreshers -> Place]
    /\ used \in [Refreshers -> 0..Configs]
    /\ answer \in [Refreshers -> Answer]
    /\ lock \in Refreshers \cup {Nobody}
    /\ accounts \in Answer /\ names \in Answer
    /\ terms \in 0..Reloads
    /\ lists \in [0..Reloads -> [loaded : 0..Files, failed : 0..Files]]
    /\ \A l \in 0..Reloads : Seen(l) <= Files
    /\ \A l \in 0..Reloads : l > terms => Seen(l) = 0
    /\ at["route"] = "fill" => Seen(terms) < Files

\* The scans' side.
Chunk == [at : {"chunk", "listed", "terms", "ldap", "lookup", "match"}, cfg : 0..Configs,
          accounts : Answer, names : Answer, list : 0..Reloads, early : BOOLEAN]

ScanType ==
    /\ breaker \in [state : {"CLOSED", "OPEN", "HALF-OPEN"},
                    failures : 0..MaxFaults, elapsed : BOOLEAN]
    /\ breaker.failures <= faults
    /\ scan \in [Scans -> Chunk]
    /\ faults \in 0..MaxFaults

TypeInv == DirectoryType /\ ScanType

LEMMA TypeInvCarries == TypeInv => TypeOK
BY DEF TypeInv, DirectoryType, ScanType, TypeOK, Place, Chunk

LEMMA EmptyTyped == Empty \in Answer
BY Bounds DEF Empty, Answer

LEMMA ChunkTyped == ASSUME NEW c \in 0..Configs PROVE NextChunk(c) \in Chunk
BY Bounds, EmptyTyped DEF NextChunk, Chunk

LEMMA TypeInit == Init => TypeInv
<1> SUFFICES ASSUME Init PROVE TypeInv
  OBVIOUS
<1>1. at \in [Refreshers -> Place] /\ at["route"] = "wait"
  BY DEF Init, Refreshers, Place
<1>2. /\ lists \in [0..Reloads -> [loaded : 0..Files, failed : 0..Files]]
      /\ \A l \in 0..Reloads : Seen(l) <= Files /\ (l > 0 => Seen(l) = 0)
  BY Bounds DEF Init, Seen
<1>4. DirectoryType
  BY <1>1, <1>2, Bounds, EmptyTyped DEF Init, DirectoryType
<1>3. ScanType
  BY Bounds, ChunkTyped DEF Init, ScanType
<1> QED
  BY <1>3, <1>4 DEF TypeInv

\* Steps of the scans: they read what the others write.
ScanSteps(t) ==
    \/ BeginScan(t) \/ BeginTerms(t) \/ WalkTerms(t) \/ EndTerms(t) \/ Admit(t) \/ Skip(t)
    \/ Lookup(t) \/ MatchSucceeds(t) \/ MatchFails(t)

LEMMA NextSplits ==
    Next => \/ PostConfig \/ Configure \/ DirectoryChanges \/ Reload \/ LoadFile
            \/ \E x \in Refreshers : Refresh(x)
            \/ \E t \in Scans : ScanSteps(t)
            \/ Elapse
BY DEF Next, ScanSteps

LEMMA TypeScans ==
    ASSUME TypeInv, NEW t \in Scans, ScanSteps(t) PROVE ScanType' /\ UNCHANGED <<ldap, accounts, names, terms, lists>>
<1> USE DEF TypeInv, ScanType, DirectoryType, ScanStep
<1>0. scan[t] \in Chunk /\ scan[t].cfg \in 0..Configs /\ NextChunk(scan[t].cfg) \in Chunk
  BY ChunkTyped DEF Chunk
<1>1. CASE BeginScan(t)
  BY <1>0, <1>1 DEF BeginScan, Chunk
<1>a. ASSUME AfterTerms(t) PROVE scan' \in [Scans -> Chunk]
  <2>1. \A c \in Chunk, p \in {"ldap", "chunk"} : [c EXCEPT !.at = p] \in Chunk
    BY DEF Chunk
  <2>2. PICK p \in {"ldap", "chunk"} :
           scan' = [scan EXCEPT ![t] = [NextChunk(scan[t].cfg) EXCEPT !.at = p]]
    BY <1>a, <1>0 DEF AfterTerms
  <2> QED
    BY <1>0, <2>1, <2>2
<1>2. CASE BeginTerms(t)
  <2>1. CASE AfterTerms(t)
    BY <1>2, <1>a, <2>1 DEF BeginTerms
  <2>2. CASE scan' = [scan EXCEPT ![t].at = "listed", ![t].early = (at["route"] = "fill")]
    BY <1>0, <1>2, <2>2 DEF BeginTerms, Chunk
  <2> QED
    BY <1>2, <2>1, <2>2 DEF BeginTerms
<1>9. CASE WalkTerms(t)
  BY <1>0, <1>9 DEF WalkTerms, Chunk
<1>3. CASE EndTerms(t)
  BY <1>0, <1>3, <1>a DEF EndTerms, Chunk
<1>4. CASE Admit(t)
  BY <1>0, <1>4 DEF Admit, Chunk
<1>5. CASE Skip(t)
  BY <1>0, <1>5 DEF Skip, EndChunk
<1>6. CASE Lookup(t)
  BY <1>0, <1>6 DEF Lookup, Chunk
<1>7. CASE MatchSucceeds(t)
  <2>1. breaker' \in [state : {"CLOSED", "OPEN", "HALF-OPEN"},
                      failures : 0..MaxFaults, elapsed : BOOLEAN]
        /\ breaker'.failures = 0
    <3>1. breaker' = [state |-> "CLOSED", failures |-> 0, elapsed |-> FALSE]
      BY <1>7 DEF MatchSucceeds
    <3>2. 0 \in 0..MaxFaults
      BY Bounds
    <3> QED
      BY <3>1, <3>2
  <2>2. faults' \in 0..MaxFaults /\ breaker'.failures <= faults'
    BY <1>7, <2>1, Bounds DEF MatchSucceeds
  <2> QED
    BY <1>0, <1>7, <2>1, <2>2 DEF MatchSucceeds, EndChunk
<1>8. CASE MatchFails(t)
  BY <1>0, <1>8, Bounds DEF MatchFails, EndChunk
<1> QED
  BY <1>1, <1>2, <1>3, <1>4, <1>5, <1>6, <1>7, <1>8, <1>9 DEF ScanSteps

LEMMA SeenSoFar ==
    ASSUME TypeInv, NEW l \in 0..Reloads
    PROVE  /\ terms \in Nat /\ l \in Nat /\ Files \in Nat
           /\ Seen(l) \in Nat /\ Seen(l) <= Files
           /\ l > terms => Seen(l) = 0
<1>1. lists[l] \in [loaded : 0..Files, failed : 0..Files]
  BY DEF TypeInv, DirectoryType
<1>2. Seen(l) \in Nat
  BY <1>1, Bounds DEF Seen
<1>a. /\ terms \in 0..Reloads
      /\ \A k \in 0..Reloads : Seen(k) <= Files
      /\ \A k \in 0..Reloads : k > terms => Seen(k) = 0
  BY DEF TypeInv, DirectoryType
<1>3. Seen(l) <= Files /\ (l > terms => Seen(l) = 0)
  BY <1>a
<1> QED
  BY <1>a, <1>2, <1>3, Bounds

LEMMA LoadedFile ==
    ASSUME TypeInv, LoadFile
    PROVE  /\ lists' \in [0..Reloads -> [loaded : 0..Files, failed : 0..Files]]
           /\ Seen(terms)' = Seen(terms) + 1
           /\ \A l \in 0..Reloads : l # terms => Seen(l)' = Seen(l)
           /\ terms' = terms
<1>0. /\ terms \in 0..Reloads /\ lists[terms] \in [loaded : 0..Files, failed : 0..Files]
      /\ lists \in [0..Reloads -> [loaded : 0..Files, failed : 0..Files]]
      /\ Seen(terms) < Files /\ terms' = terms
  BY DEF LoadFile, TypeInv, DirectoryType
<1>1. lists[terms].loaded + lists[terms].failed < Files
  BY <1>0 DEF Seen
<1>4. lists[terms].loaded \in Nat /\ lists[terms].failed \in Nat /\ Files \in Nat
  BY <1>0, Bounds
<1>2. CASE lists' = [lists EXCEPT ![terms].loaded = @ + 1]
  <2>1. /\ lists'[terms] = [lists[terms] EXCEPT !.loaded = @ + 1]
        /\ \A l \in 0..Reloads : l # terms => lists'[l] = lists[l]
    BY <1>0, <1>2
  <2>2. [lists[terms] EXCEPT !.loaded = @ + 1] \in [loaded : 0..Files, failed : 0..Files]
    BY <1>0, <1>1, <1>4
  <2> QED
    BY <1>0, <1>4, <1>2, <2>1, <2>2 DEF Seen
<1>3. CASE lists' = [lists EXCEPT ![terms].failed = @ + 1]
  <2>1. /\ lists'[terms] = [lists[terms] EXCEPT !.failed = @ + 1]
        /\ \A l \in 0..Reloads : l # terms => lists'[l] = lists[l]
    BY <1>0, <1>3
  <2>2. [lists[terms] EXCEPT !.failed = @ + 1] \in [loaded : 0..Files, failed : 0..Files]
    BY <1>0, <1>1, <1>4
  <2> QED
    BY <1>0, <1>4, <1>3, <2>1, <2>2 DEF Seen
<1> QED
  BY <1>2, <1>3 DEF LoadFile

LEMMA TypeDirectory ==
    ASSUME TypeInv,
           \/ PostConfig \/ Configure \/ DirectoryChanges \/ Reload \/ LoadFile
           \/ \E x \in Refreshers : Refresh(x)
    PROVE  DirectoryType' /\ UNCHANGED <<breaker, scan, faults>>
<1> USE Bounds DEF TypeInv, DirectoryType, Goto
<1>0. "route" \in Refreshers /\ "loop" \in Refreshers
  BY DEF Refreshers
<1>l. ASSUME UNCHANGED lists PROVE \A l : Seen(l)' = Seen(l)
  BY <1>l DEF Seen
<1>1. CASE PostConfig
  BY <1>0, <1>1, <1>l DEF PostConfig, Place
<1>2. CASE Configure
  BY <1>0, <1>2, <1>l DEF Configure, Place
<1>3. CASE DirectoryChanges
  BY <1>0, <1>3, <1>l DEF DirectoryChanges
<1>4. CASE Reload
  <2>1. terms' = terms + 1 /\ terms + 1 \in 0..Reloads /\ UNCHANGED lists
    BY <1>4 DEF Reload
  <2>2. Seen(terms + 1) = 0
    <3> HIDE DEF TypeInv, DirectoryType
    <3> DEFINE l == terms + 1
    <3>1. l \in 0..Reloads
      BY <2>1
    <3>2. l > terms => Seen(l) = 0
      BY <3>1, SeenSoFar
    <3>3. terms \in Nat
      BY <3>1, SeenSoFar
    <3> QED
      BY <3>2, <3>3
  <2>3. Seen(terms)' = 0
    BY <2>1, <2>2 DEF Seen
  <2> QED
    BY <1>0, <1>4, <1>l, <2>1, <2>3 DEF Reload, Place
<1>5. CASE LoadFile
  <2>1. Seen(terms) < Files /\ terms \in 0..Reloads /\ lists[terms] \in [loaded : 0..Files, failed : 0..Files]
    BY <1>5 DEF LoadFile
  <2>2. /\ lists' \in [0..Reloads -> [loaded : 0..Files, failed : 0..Files]]
        /\ Seen(terms)' = Seen(terms) + 1
        /\ \A l \in 0..Reloads : l # terms => Seen(l)' = Seen(l)
    BY <1>5, LoadedFile
  <2>3. Seen(terms) \in Nat
    BY <2>1 DEF Seen
  <2>4. /\ at' \in [Refreshers -> Place]
        /\ at'["route"] = "fill" => Seen(terms) + 1 # Files
    BY <1>0, <1>5 DEF LoadFile, Place
  <2>5. (at["route"] = "fill" => Seen(terms) < Files)'
    <3>1. Seen(terms)' = Seen(terms) + 1 /\ (at'["route"] = "fill" => Seen(terms) + 1 # Files)
      BY ONLY <2>2, <2>4
    <3> QED
      BY ONLY <2>1, <2>3, <3>1, Bounds
  <2>7. UNCHANGED <<directory, posted, config, cached, used, answer, lock, accounts, names,
                    breaker, scan, terms, faults>>
    BY <1>5 DEF LoadFile
  <2>6. \A l \in 0..Reloads : /\ Seen(l)' <= Files
                              /\ l > terms => Seen(l)' = 0
    <3> SUFFICES ASSUME NEW l \in 0..Reloads
                 PROVE  Seen(l)' <= Files /\ (l > terms => Seen(l)' = 0)
      OBVIOUS
    <3> HIDE DEF TypeInv, DirectoryType
    <3>0. /\ terms \in Nat /\ l \in Nat /\ Files \in Nat /\ Seen(l) \in Nat
          /\ Seen(l) <= Files /\ (l > terms => Seen(l) = 0)
      BY SeenSoFar
    <3>1. CASE l = terms
      <4>1. Seen(terms)' = Seen(terms) + 1 /\ Seen(terms) < Files
        BY <2>1, <2>2
      <4>2. Seen(terms) + 1 <= Files /\ ~(terms > terms)
        BY <3>0, <3>1, <4>1
      <4>3. l = terms /\ Seen(l)' = Seen(terms)'
        BY <3>1, <2>7
      <4> QED
        BY <4>1, <4>2, <4>3
    <3>2. CASE l # terms
      <4>1. Seen(l)' = Seen(l)
        BY <2>2, <3>2
      <4> QED
        BY <3>0, <4>1
    <3> QED
      BY <3>1, <3>2
  <2> QED
    BY <2>2, <2>4, <2>5, <2>6, <2>7
<1>6. ASSUME NEW x \in Refreshers, Refresh(x)
      PROVE  DirectoryType' /\ UNCHANGED <<breaker, scan, faults>>
  <2>1. CASE StartRefresh(x)
    BY <1>0, <2>1, <1>l DEF StartRefresh, Place
  <2>2. CASE CheckEnabled(x)
    BY <1>0, <2>2, <1>l DEF CheckEnabled, Place
  <2>3. CASE NewClient(x)
    BY <1>0, <2>3, <1>l DEF NewClient, Place
  <2>4. CASE Query(x)
    <3>1. Found(used[x]) \subseteq Answer
      <4>1. used[x] \in 0..Configs /\ directory \in 0..Versions
        BY <1>0
      <4>2. \A c \in BOOLEAN : [version |-> directory, by |-> used[x], cut |-> c] \in Answer
        BY <4>1 DEF Answer
      <4>3. [Empty EXCEPT !.cut = TRUE] \in Answer
        BY EmptyTyped DEF Answer
      <4> QED
        BY <4>2, <4>3 DEF Found
    <3> QED
      BY <1>0, <2>4, <3>1, <1>l, EmptyTyped DEF Query, Place
  <2>5. CASE QueryFails(x)
    BY <1>0, <2>5, <1>l DEF QueryFails, Place
  <2>6. CASE SwapAccounts(x)
    BY <1>0, <2>6, <1>l DEF SwapAccounts, Place
  <2>7. CASE SwapNames(x)
    BY <1>0, <2>7, <1>l, EmptyTyped DEF SwapNames, Place
  <2> QED
    BY <1>6, <2>1, <2>2, <2>3, <2>4, <2>5, <2>6, <2>7 DEF Refresh
<1> QED
  BY <1>1, <1>2, <1>3, <1>4, <1>5, <1>6

LEMMA TypeNext == TypeInv /\ [Next]_vars => TypeInv'
<1> SUFFICES ASSUME TypeInv, [Next]_vars PROVE TypeInv'
  OBVIOUS
<1>1. CASE Elapse
  BY <1>1 DEF Elapse, ldap, TypeInv, DirectoryType, ScanType, Seen
<1>2. ASSUME NEW t \in Scans, ScanSteps(t) PROVE TypeInv'
  BY <1>2, TypeScans DEF ldap, TypeInv, DirectoryType, Seen
<1>3. CASE UNCHANGED vars
  BY <1>3 DEF vars, ldap, TypeInv, DirectoryType, ScanType, Seen
<1> QED
  BY <1>1, <1>2, <1>3, NextSplits, TypeDirectory DEF TypeInv, ScanType

\* For any bounds every reachable state of the cache, the breaker, the dictionaries
\* and the scans is well typed: a reload never adds more files than there are
\* (detectors/ldap_detector.py, dictionary_detector.py).
THEOREM DetectionTypeCorrect == Spec => []TypeOK
BY TypeInit, TypeNext, TypeInvCarries, PTL DEF Spec

-----------------------------------------------------------------------------
(* The breaker counts. *)

LEMMA BreakerNext == TypeInv /\ BreakerCounts /\ [Next]_vars => BreakerCounts'
<1> SUFFICES ASSUME TypeInv, BreakerCounts, [Next]_vars PROVE BreakerCounts'
  OBVIOUS
<1> USE Bounds DEF BreakerCounts, TypeInv, ScanType
<1>1. ASSUME NEW t \in Scans, ScanSteps(t) PROVE BreakerCounts'
  <2>1. CASE Admit(t)
    BY <2>1 DEF Admit
  <2>2. CASE MatchSucceeds(t)
    BY <2>2 DEF MatchSucceeds
  <2>3. CASE MatchFails(t)
    BY <2>3 DEF MatchFails
  <2>4. CASE BeginScan(t) \/ BeginTerms(t) \/ WalkTerms(t) \/ EndTerms(t) \/ Skip(t) \/ Lookup(t)
    BY <2>4 DEF BeginScan, BeginTerms, WalkTerms, EndTerms, Skip, Lookup
  <2> QED
    BY <1>1, <2>1, <2>2, <2>3, <2>4 DEF ScanSteps
<1>2. CASE Elapse
  BY <1>2 DEF Elapse
<1>3. CASE UNCHANGED vars
  BY <1>3 DEF vars
<1> QED
  BY <1>1, <1>2, <1>3, NextSplits, TypeDirectory

\* For any number of callers and any threshold the breaker is closed exactly while
\* fewer failures than the threshold have gone by since the last success, although
\* every caller passes while it is half open (circuit_breaker.py).
THEOREM BreakerIsExact == Spec => []BreakerCounts
<1>1. Init => BreakerCounts
  BY Bounds DEF Init, BreakerCounts
<1> QED
  BY <1>1, TypeInit, TypeNext, BreakerNext, PTL DEF Spec

-----------------------------------------------------------------------------
(* The people: what a refresh holds on its way. *)

\* Its configuration was posted; an answer without people was asked for with one
\* that disables LDAP, or was cut short; and while it holds the lock it has written
\* one half.
Underway(x) ==
    /\ at[x] \in {"client", "query", "swap", "names"} => cached >= 1
    /\ at[x] \in {"query", "swap", "names"} => used[x] \in 1..posted
    /\ at[x] \in {"swap", "names"} =>
          (answer[x].version = 0 => used[x] \notin Enabled \/ answer[x].cut)
    /\ at[x] = "names" <=> lock = x
    /\ at[x] = "names" => accounts = answer[x]

DirectoryInv ==
    /\ cached <= posted
    /\ at["route"] = "post" => posted >= 1
    /\ \A x \in Refreshers : Underway(x)
    /\ lock = Nobody => accounts = names

LEMMA NamesApart == Nobody \notin Refreshers /\ "route" \in Refreshers /\ "loop" \in Refreshers
BY DEF Nobody, Refreshers

LEMMA DirectoryInit == Init => DirectoryInv
BY NamesApart DEF Init, DirectoryInv, Underway

\* An enabled client's answer without people was cut short.
LEMMA AnswerIsThere ==
    ASSUME TypeInv, NEW c, NEW a \in Found(c) PROVE a.version = 0 => a.cut
BY Bounds DEF TypeInv, DirectoryType, Found, Empty

LEMMA DirectoryNext == TypeInv /\ DirectoryInv /\ [Next]_vars => DirectoryInv'
<1> SUFFICES ASSUME TypeInv, DirectoryInv, [Next]_vars PROVE DirectoryInv'
  OBVIOUS
<1> USE Bounds, NamesApart DEF TypeInv, DirectoryType, DirectoryInv, Underway, Goto
<1>1. CASE PostConfig
  BY <1>1 DEF PostConfig
<1>2. CASE Configure
  BY <1>2 DEF Configure
<1>3. CASE DirectoryChanges
  BY <1>3 DEF DirectoryChanges
<1>4. CASE Reload
  BY <1>4 DEF Reload
<1>5. CASE LoadFile
  BY <1>5 DEF LoadFile
<1>6. ASSUME NEW x \in Refreshers, Refresh(x) PROVE DirectoryInv'
  <2>1. CASE StartRefresh(x)
    BY <2>1 DEF StartRefresh, Asleep
  <2>2. CASE CheckEnabled(x)
    BY <2>2 DEF CheckEnabled
  <2>3. CASE NewClient(x)
    BY <2>3 DEF NewClient
  <2>4. CASE Query(x)
    BY <2>4, AnswerIsThere DEF Query
  <2>5. CASE QueryFails(x)
    BY <2>5 DEF QueryFails
  <2>6. CASE SwapAccounts(x)
    BY <2>6 DEF SwapAccounts
  <2>7. CASE SwapNames(x)
    BY <2>7 DEF SwapNames
  <2> QED
    BY <1>6, <2>1, <2>2, <2>3, <2>4, <2>5, <2>6, <2>7 DEF Refresh
<1>7. ASSUME UNCHANGED <<ldap, accounts, names>> PROVE DirectoryInv'
  BY <1>7 DEF ldap
<1> QED
  BY <1>1, <1>2, <1>3, <1>4, <1>5, <1>6, <1>7, NextSplits, TypeScans DEF Elapse, vars

LEMMA SetsNext ==
    TypeInv /\ DirectoryInv /\ SetsFromOneAnswer /\ [Next]_vars => SetsFromOneAnswer'
<1> SUFFICES ASSUME TypeInv, DirectoryInv, SetsFromOneAnswer, [Next]_vars
             PROVE  SetsFromOneAnswer'
  OBVIOUS
<1> USE DEF SetsFromOneAnswer, TypeInv, ScanType
<1>1. ASSUME NEW t \in Scans, ScanSteps(t) PROVE SetsFromOneAnswer'
  <2>1. \A u \in Scans \ {t} : scan'[u] = scan[u]
    BY <1>1 DEF ScanSteps, BeginScan, BeginTerms, WalkTerms, EndTerms, Admit, Skip, Lookup,
                MatchSucceeds, MatchFails, EndChunk, AfterTerms
  <2>2. scan'[t].at = "match" => scan'[t].accounts = scan'[t].names
    <3>1. CASE Lookup(t)
      BY <3>1 DEF Lookup, DirectoryInv
    <3>5. CASE AfterTerms(t)
      BY <3>5 DEF AfterTerms, NextChunk
    <3>2. CASE BeginScan(t) \/ BeginTerms(t) \/ WalkTerms(t) \/ Admit(t)
      BY <3>2, <3>5 DEF BeginScan, BeginTerms, WalkTerms, Admit, Chunk
    <3>3. CASE EndChunk(t)
      BY <3>3 DEF EndChunk, NextChunk
    <3>4. CASE EndTerms(t)
      BY <3>4, <3>5 DEF EndTerms
    <3> QED
      BY <1>1, <3>1, <3>2, <3>3, <3>4 DEF ScanSteps, Skip, MatchSucceeds, MatchFails
  <2> QED
    BY <2>1, <2>2
<1>2. CASE UNCHANGED scan
  BY <1>2
<1> QED
  BY <1>1, <1>2, NextSplits, TypeDirectory DEF Elapse, vars

\* For any number of scans and configurations a chunk is matched against accounts and
\* names of one and the same answer of the directory (ldap_detector.py, LdapCache).
THEOREM SetsAreConsistent == Spec => []SetsFromOneAnswer
<1>1. Init => SetsFromOneAnswer
  BY DEF Init, SetsFromOneAnswer, NextChunk
<1> QED
  BY <1>1, TypeInit, TypeNext, DirectoryInit, DirectoryNext, SetsNext, PTL DEF Spec

\* For any configurations and directory versions people once known are forgotten only
\* after a configuration that disables LDAP or by an answer that was cut short
\* (ldap_detector.py, refresh).
THEOREM PeopleAreKept == Spec => PeopleKept
<1>1. TypeInv /\ DirectoryInv /\ [Next]_vars => [Forgotten => Disabled \/ CutShort]_vars
  <2> SUFFICES ASSUME TypeInv, DirectoryInv, [Next]_vars, Forgotten PROVE Disabled \/ CutShort
    OBVIOUS
  <2>1. PICK x \in Refreshers : SwapAccounts(x)
    <3>1. ASSUME UNCHANGED accounts PROVE FALSE
      BY <3>1 DEF Forgotten
    <3> QED
      BY <3>1, NextSplits, TypeScans DEF PostConfig, Configure, DirectoryChanges, Reload,
         LoadFile, Refresh, StartRefresh, CheckEnabled, NewClient, Query, QueryFails,
         SwapNames, Elapse, vars
  <2>2. at[x] = "swap" /\ answer[x].version = 0
    BY <2>1 DEF SwapAccounts, Forgotten
  <2>3. at'[x] = "names"
    BY <2>1 DEF SwapAccounts, Goto, TypeInv, DirectoryType
  <2> QED
    BY <2>2, <2>3 DEF DirectoryInv, Underway, Disabled, CutShort
<1>2. Spec => [](TypeInv /\ DirectoryInv)
  BY TypeInit, TypeNext, DirectoryInit, DirectoryNext, PTL DEF Spec
<1> QED
  BY <1>1, <1>2, PTL DEF Spec, PeopleKept

-----------------------------------------------------------------------------
(* The terms. *)

\* Outside a reload the list is finished, and so is every list that has been
\* replaced, and the one of every search that read it outside a reload.
TermsInv ==
    /\ at["route"] # "fill" => Seen(terms) = Files
    /\ \A l \in 0..Reloads : l < terms => Seen(l) = Files
    /\ \A t \in Scans : /\ scan[t].list <= terms
                        /\ scan[t].at = "terms" /\ ~scan[t].early
                           => Seen(scan[t].list) = Files

LEMMA TermsNext == TypeInv /\ TermsInv /\ [Next]_vars => TermsInv'
<1> SUFFICES ASSUME TypeInv, TermsInv, [Next]_vars PROVE TermsInv'
  OBVIOUS
<1> USE Bounds, NamesApart DEF TermsInv, TypeInv, DirectoryType, ScanType, Goto
<1>0. \A t \in Scans : scan[t].list \in 0..Reloads /\ scan[t] \in Chunk
  BY DEF Chunk
<1>s. ASSUME UNCHANGED lists PROVE \A l : Seen(l)' = Seen(l)
  BY <1>s DEF Seen
<1>1. ASSUME NEW t \in Scans, ScanSteps(t) PROVE TermsInv'
  <2>1. \A u \in Scans \ {t} : scan'[u] = scan[u]
    BY <1>1 DEF ScanSteps, BeginScan, BeginTerms, WalkTerms, EndTerms, Admit, Skip, Lookup,
                MatchSucceeds, MatchFails, EndChunk, AfterTerms
  <2>0. UNCHANGED <<terms, lists, at>>
    BY <1>1, TypeScans DEF ldap
  <2>2. /\ scan'[t].list <= terms
        /\ scan'[t].at = "terms" /\ ~scan'[t].early => Seen(scan'[t].list) = Files
    <3>5. CASE AfterTerms(t)
      <4>1. scan'[t].list = 0 /\ scan'[t].at # "terms"
        BY <3>5 DEF AfterTerms, NextChunk
      <4> QED
        BY <4>1
    <3>1. CASE BeginTerms(t)
      <4>1. CASE ~AfterTerms(t)
        <5>0. scan \in [Scans -> Chunk]
          OBVIOUS
        <5>a. scan' = [scan EXCEPT ![t].at = "listed", ![t].early = at["route"] = "fill"]
          BY ONLY <3>1, <4>1 DEF BeginTerms
        <5>1. scan'[t].list = scan[t].list /\ scan'[t].at # "terms"
          BY ONLY <1>1, <5>0, <5>a DEF Chunk
        <5> QED
          BY <5>1
      <4> QED
        BY <3>5, <4>1
    <3>6. CASE WalkTerms(t)
      <4>1. scan'[t].list = terms /\ (at["route"] = "fill" => scan'[t].early)
        BY <1>0, <3>6 DEF WalkTerms, Chunk
      <4>2. terms \in Nat
        BY Bounds
      <4> QED
        BY <4>1, <4>2
    <3>2. CASE BeginScan(t) \/ Admit(t) \/ Lookup(t)
      <4>1. scan'[t].list = scan[t].list /\ scan'[t].at # "terms"
        <5>1. CASE BeginScan(t)
          BY <1>0, <5>1 DEF BeginScan, Chunk
        <5>2. CASE Admit(t) \/ Lookup(t)
          BY <1>0, <5>2 DEF Admit, Lookup, Chunk
        <5> QED
          BY <3>2, <5>1, <5>2
      <4> QED
        BY <4>1
    <3>3. CASE EndChunk(t)
      <4>1. scan'[t] = NextChunk(scan[t].cfg)
        BY <3>3 DEF EndChunk
      <4> QED
        BY <4>1 DEF NextChunk
    <3> QED
      BY <1>1, <3>1, <3>2, <3>3, <3>5, <3>6 DEF ScanSteps, EndTerms, Skip, MatchSucceeds, MatchFails
  <2> QED
    BY <1>s, <2>0, <2>1, <2>2
<1>2. CASE Reload
  <2>1. /\ terms' = terms + 1 /\ UNCHANGED <<lists, scan>> /\ at'["route"] = "fill"
        /\ Seen(terms) = Files
    BY <1>2 DEF Reload
  <2>2. \A l \in 0..Reloads : l < terms' => Seen(l)' = Files
    <3> SUFFICES ASSUME NEW l \in 0..Reloads, l < terms + 1 PROVE Seen(l) = Files
      BY <1>s, <2>1
    <3> HIDE DEF TypeInv
    <3>0. terms \in Nat /\ l \in Nat
      BY SeenSoFar
    <3>1. l = terms \/ l < terms
      BY <3>0
    <3> QED
      BY <2>1, <3>1
  <2>3. \A t \in Scans : scan[t].list <= terms + 1
    BY <1>0
  <2>4. (\A t \in Scans : scan[t].at = "terms" /\ ~scan[t].early => Seen(scan[t].list) = Files)'
    BY <2>1 DEF Seen
  <2> QED
    BY <2>1, <2>2, <2>3, <2>4
<1>3. CASE LoadFile
  <2>1. /\ UNCHANGED <<terms, scan>> /\ at["route"] = "fill"
        /\ at'["route"] # "fill" => Seen(terms) + 1 = Files
        /\ Seen(terms)' = Seen(terms) + 1
        /\ \A l \in 0..Reloads : l # terms => Seen(l)' = Seen(l)
    BY <1>3, LoadedFile DEF LoadFile
  <2>2. Seen(terms) # Files
    BY <2>1
  <2> QED
    BY <1>0, <2>1, <2>2
<1>4. CASE UNCHANGED <<terms, lists, scan>> /\ (at'["route"] = "fill" <=> at["route"] = "fill")
  BY <1>s, <1>4
<1>5. CASE PostConfig \/ Configure \/ DirectoryChanges
  BY <1>4, <1>5 DEF PostConfig, Configure, DirectoryChanges
<1>6. ASSUME NEW x \in Refreshers, Refresh(x) PROVE TermsInv'
  BY <1>4, <1>6 DEF Refresh, StartRefresh, Asleep, CheckEnabled, NewClient, Query, QueryFails,
     SwapAccounts, SwapNames
<1>7. CASE Elapse \/ UNCHANGED vars
  BY <1>4, <1>7 DEF Elapse, vars, ldap
<1> QED
  BY <1>1, <1>2, <1>3, <1>5, <1>6, <1>7, NextSplits

\* For any number of scans, files and reloads a search for terms that reads the list
\* outside a reload, both times, finds the terms of every file that could be read
\* (dictionary_detector.py, settings_routes.py).
THEOREM TermsAreKnown == Spec => []TermsKnown
<1>1. Init => TermsInv
  BY Bounds DEF Init, TermsInv, NextChunk, Seen
<1>2. TermsInv => TermsKnown
  BY DEF TermsInv, TermsKnown
<1> QED
  BY <1>1, <1>2, TypeInit, TypeNext, TermsNext, PTL DEF Spec

-----------------------------------------------------------------------------
(* Findings that overlap: what the loop has kept, for any text, priorities    *)
(* and number of findings.                                                    *)

LEMMA FindingTyped ==
    ASSUME NEW f \in RawFinding
    PROVE  /\ f.start \in Nat /\ f.end \in Nat /\ f.start < f.end
           /\ f.priority \in Nat /\ Width(f) \in Int
<1>1. /\ f \in [start : 0..Length, end : 0..Length, priority : Priorities]
      /\ f.start < f.end
  BY DEF RawFinding
<1>2. f.start \in 0..Length /\ f.end \in 0..Length /\ f.priority \in Priorities
  BY <1>1
<1>3. f.start \in Nat /\ f.end \in Nat
  BY <1>2
<1>5. f.start < f.end /\ f.priority \in Nat
  BY <1>1, <1>2, SizesAssumption
<1>4. Width(f) \in Int
  BY <1>3 DEF Width
<1> QED
  BY <1>3, <1>4, <1>5

ChunkType ==
    /\ found \subseteq RawFinding
    /\ rest \subseteq found
    /\ kept \in Seq(found \ rest)

\* What is kept is in order, and nothing that is still to come begins before it.
InOrder ==
    /\ KeptAreDisjoint
    /\ \A i \in DOMAIN kept : \A f \in rest : kept[i].start <= f.start

OverlapsInv == ChunkType /\ InOrder /\ StrongestAreKept /\ DroppedForAStronger

LEMMA OverlapsInitial == OverlapsInit => OverlapsInv
BY DEF OverlapsInit, OverlapsInv, ChunkType, InOrder, KeptAreDisjoint,
   StrongestAreKept, DroppedForAStronger

\* The last one kept, and one that comes after it.
LEMMA LastOne ==
    ASSUME OverlapsInv, kept # <<>>, NEW f \in rest
    PROVE  /\ Len(kept) \in 1..Len(kept) /\ DOMAIN kept = 1..Len(kept) /\ Len(kept) \in Nat
           /\ LastKept \in found \ rest /\ LastKept \in RawFinding /\ LastKept # f
           /\ IsKept(LastKept) /\ LastKept.start <= f.start
           /\ \A i \in 1..Len(kept) :
                 /\ kept[i] \in RawFinding
                 /\ i # Len(kept) => kept[i].end <= LastKept.start
<1>1. kept \in Seq(found \ rest) /\ found \subseteq RawFinding
  BY DEF OverlapsInv, ChunkType
<1>2. Len(kept) \in Nat /\ DOMAIN kept = 1..Len(kept) /\ Len(kept) # 0
      /\ \A i \in 1..Len(kept) : kept[i] \in found \ rest
  BY <1>1
<1>3. /\ Len(kept) \in 1..Len(kept) /\ LastKept \in found \ rest
      /\ LastKept = kept[Len(kept)]
  BY <1>2 DEF LastKept
<1>4. LastKept \in RawFinding /\ LastKept # f /\ IsKept(LastKept)
  BY <1>1, <1>2, <1>3 DEF IsKept
<1>5. LastKept.start <= f.start
  BY <1>2, <1>3 DEF OverlapsInv, InOrder
<1>6. ASSUME NEW i \in 1..Len(kept)
      PROVE  /\ kept[i] \in RawFinding
             /\ i # Len(kept) => kept[i].end <= LastKept.start
  <2>1. kept[i] \in RawFinding
    BY <1>1, <1>2
  <2>2. i # Len(kept) => i < Len(kept)
    <3>1. Len(kept) \in Nat
      BY <1>2
    <3> QED
      BY <3>1
  <2> QED
    BY <1>2, <1>3, <2>1, <2>2 DEF OverlapsInv, InOrder, KeptAreDisjoint
<1> QED
  BY <1>2, <1>3, <1>4, <1>5, <1>6

\* What the step makes of the sequence.
LEMMA TakeCases ==
    ASSUME OverlapsInv, NEW f \in rest, kept' = Take(f), rest' = rest \ {f}, UNCHANGED found
    PROVE  \/ /\ kept = <<>> \/ f.start >= LastKept.end
              /\ kept' = Append(kept, f)
           \/ /\ kept # <<>> /\ ~(f.start >= LastKept.end) /\ Stronger(f, LastKept)
              /\ kept' = [kept EXCEPT ![Len(kept)] = f]
           \/ /\ kept # <<>> /\ ~(f.start >= LastKept.end) /\ ~Stronger(f, LastKept)
              /\ kept' = kept
BY DEF Take

LEMMA TakeKeeps ==
    ASSUME OverlapsInv, NEW f \in rest, First(f), kept' = Take(f), rest' = rest \ {f},
           UNCHANGED found
    PROVE  OverlapsInv'
<1>t. /\ found \subseteq RawFinding /\ rest \subseteq found
      /\ kept \in Seq(found \ rest) /\ f \in RawFinding /\ f \in found
      /\ f.start \in Nat /\ f.end \in Nat /\ f.start < f.end /\ f.priority \in Nat
  BY FindingTyped DEF OverlapsInv, ChunkType
<1>s. \A g \in rest' : g # f /\ f.start <= g.start /\ g \in RawFinding
  BY <1>t, FindingTyped DEF First, Before
<1>n. Len(kept) \in Nat /\ DOMAIN kept = 1..Len(kept)
      /\ \A i \in 1..Len(kept) : kept[i] \in found \ rest /\ kept[i] # f
  BY <1>t
<1>w. \A g \in RawFinding : /\ g.start \in Nat /\ g.end \in Nat /\ g.start < g.end
                            /\ g.priority \in Nat /\ Width(g) \in Int
  BY FindingTyped
<1>r. found' \ rest' = (found \ rest) \cup {f}
  BY <1>t
<1>1. CASE (kept = <<>> \/ f.start >= LastKept.end) /\ kept' = Append(kept, f)
  <2>1. /\ DOMAIN kept' = 1..(Len(kept) + 1) /\ kept'[Len(kept) + 1] = f
        /\ \A i \in 1..Len(kept) : kept'[i] = kept[i]
        /\ kept' \in Seq(found' \ rest')
    BY <1>1, <1>t, <1>n, <1>r
  <2>2. ChunkType'
    BY <1>t, <2>1 DEF ChunkType
  <2>3. ASSUME NEW i \in 1..Len(kept)
        PROVE  kept[i].end <= f.start /\ kept[i].start <= f.start
    <3>1. kept # <<>>
      BY <1>n
    <3>2. f.start >= LastKept.end
      BY <1>1, <3>1
    <3>3. /\ kept[i] \in RawFinding /\ LastKept \in RawFinding
          /\ LastKept.start <= f.start /\ LastKept = kept[Len(kept)]
          /\ i # Len(kept) => kept[i].end <= LastKept.start
      BY <3>1, LastOne DEF LastKept
    <3> QED
      BY <1>t, <1>w, <3>2, <3>3
  <2>4. InOrder'
    <3>1. \A i, j \in 1..Len(kept) : i < j => kept[i].end <= kept[j].start
      BY <1>n DEF OverlapsInv, InOrder, KeptAreDisjoint
    <3>2. KeptAreDisjoint'
      BY <1>n, <2>1, <2>3, <3>1 DEF KeptAreDisjoint
    <3>3. \A i \in DOMAIN kept' : \A g \in rest' : kept'[i].start <= g.start
      BY <1>s, <1>n, <1>t, <2>1, <2>3 DEF OverlapsInv, InOrder
    <3> QED
      BY <3>2, <3>3 DEF InOrder
  <2>5. IsKept(f)' /\ \A g : IsKept(g) => IsKept(g)'
    BY <1>n, <2>1 DEF IsKept
  <2>6. StrongestAreKept' /\ DroppedForAStronger'
    BY <1>r, <2>5 DEF OverlapsInv, StrongestAreKept, DroppedForAStronger
  <2> QED
    BY <2>2, <2>4, <2>6 DEF OverlapsInv
<1>2. CASE kept # <<>> /\ ~(f.start >= LastKept.end) /\ Stronger(f, LastKept)
           /\ kept' = [kept EXCEPT ![Len(kept)] = f]
  <2>1. /\ DOMAIN kept' = 1..Len(kept) /\ kept'[Len(kept)] = f
        /\ \A i \in 1..Len(kept) : i # Len(kept) => kept'[i] = kept[i]
        /\ kept' \in Seq(found' \ rest') /\ Len(kept) \in 1..Len(kept)
    <3>1. kept # <<>> /\ kept' = [kept EXCEPT ![Len(kept)] = f]
      BY <1>2
    <3>2. Len(kept) \in 1..Len(kept)
      BY <3>1, LastOne
    <3>3. /\ DOMAIN kept' = 1..Len(kept) /\ kept'[Len(kept)] = f
          /\ \A i \in 1..Len(kept) : i # Len(kept) => kept'[i] = kept[i]
      BY <1>n, <3>1, <3>2
    <3>4. kept' \in Seq(found' \ rest')
      <4>1. kept \in Seq(found' \ rest') /\ f \in found' \ rest'
        BY <1>t, <1>r
      <4> QED
        BY <3>1, <3>2, <4>1
    <3> QED
      BY <3>2, <3>3, <3>4
  <2>2. ChunkType'
    BY <1>t, <2>1 DEF ChunkType
  <2>3. ASSUME NEW i \in 1..Len(kept), i # Len(kept)
        PROVE  kept[i].end <= f.start /\ kept[i].start <= f.start
    <3>1. /\ kept[i] \in RawFinding /\ LastKept \in RawFinding
          /\ LastKept.start <= f.start /\ kept[i].end <= LastKept.start
      BY <1>2, <2>3, LastOne
    <3> QED
      BY <1>t, <1>w, <3>1
  <2>4. InOrder'
    <3>1. \A i, j \in 1..Len(kept) : i < j => kept[i].end <= kept[j].start
      BY <1>n DEF OverlapsInv, InOrder, KeptAreDisjoint
    <3>2. ASSUME NEW i \in DOMAIN kept', NEW j \in DOMAIN kept', i < j
          PROVE  kept'[i].end <= kept'[j].start
      <4>1. i \in 1..Len(kept) /\ j \in 1..Len(kept) /\ i # Len(kept)
        <5>1. Len(kept) \in Nat /\ DOMAIN kept' = 1..Len(kept)
          BY <1>n, <2>1
        <5> QED
          BY <3>2, <5>1
      <4>2. CASE j = Len(kept)
        BY <2>1, <2>3, <4>1, <4>2
      <4>3. CASE j # Len(kept)
        BY <2>1, <3>1, <3>2, <4>1, <4>3
      <4> QED
        BY <4>2, <4>3
    <3>4. KeptAreDisjoint'
      BY <3>2 DEF KeptAreDisjoint
    <3>3. ASSUME NEW i \in DOMAIN kept', NEW g \in rest'
          PROVE  kept'[i].start <= g.start
      <4>1. CASE i = Len(kept)
        BY <1>s, <2>1, <4>1
      <4>2. CASE i # Len(kept)
        BY <1>n, <1>t, <2>1, <4>2 DEF OverlapsInv, InOrder
      <4> QED
        BY <4>1, <4>2
    <3> QED
      BY <3>3, <3>4 DEF InOrder
  <2>l. /\ LastKept \in found \ rest /\ LastKept \in RawFinding /\ LastKept # f
        /\ Overlap(f, LastKept) /\ Overlap(LastKept, f) /\ ~Stronger(LastKept, f)
        /\ f.priority >= LastKept.priority
    BY <1>2, <1>t, <1>w, LastOne DEF Overlap, Stronger
  <2>5. IsKept(f)' /\ \A g : IsKept(g) /\ g # LastKept => IsKept(g)'
    BY <1>n, <2>1 DEF IsKept, LastKept
  <2>6. ASSUME NEW g \in found' \ rest', ~IsKept(g)' PROVE g = LastKept \/ ~IsKept(g)
    BY <2>5, <2>6
  <2>7. StrongestAreKept'
    <3> SUFFICES ASSUME NEW g \in found' \ rest',
                        \A h \in found' \ {g} : Overlap(g, h) => g.priority > h.priority
                 PROVE  IsKept(g)'
      BY DEF StrongestAreKept
    <3>1. g # LastKept
      BY <1>t, <1>w, <2>l
    <3>2. CASE g = f
      BY <2>5, <3>2
    <3>3. CASE g # f
      BY <1>r, <2>5, <3>1, <3>3 DEF OverlapsInv, StrongestAreKept
    <3> QED
      BY <3>2, <3>3
  <2>8. DroppedForAStronger'
    <3> SUFFICES ASSUME NEW g \in found' \ rest', ~IsKept(g)'
                 PROVE  \E h \in found' \ {g} : Overlap(g, h) /\ ~Stronger(g, h)
      BY DEF DroppedForAStronger
    <3>1. CASE g = LastKept
      BY <1>t, <2>l, <3>1
    <3>2. CASE g # LastKept
      BY <1>r, <2>5, <3>2 DEF OverlapsInv, DroppedForAStronger
    <3> QED
      BY <3>1, <3>2
  <2> QED
    BY <2>2, <2>4, <2>7, <2>8 DEF OverlapsInv
<1>3. CASE kept # <<>> /\ ~(f.start >= LastKept.end) /\ ~Stronger(f, LastKept) /\ kept' = kept
  <2>1. kept' \in Seq(found' \ rest')
    BY <1>3, <1>t, <1>r
  <2>2. ChunkType'
    BY <1>t, <2>1 DEF ChunkType
  <2>3. InOrder'
    BY <1>3 DEF OverlapsInv, InOrder, KeptAreDisjoint
  <2>4. \A g : IsKept(g) => IsKept(g)'
    BY <1>3 DEF IsKept
  <2>l. /\ LastKept \in found \ {f} /\ LastKept \in RawFinding
        /\ Overlap(f, LastKept) /\ f.priority <= LastKept.priority
    BY <1>3, <1>t, <1>w, LastOne DEF Overlap, Stronger
  <2>5. StrongestAreKept'
    <3> SUFFICES ASSUME NEW g \in found' \ rest',
                        \A h \in found' \ {g} : Overlap(g, h) => g.priority > h.priority
                 PROVE  IsKept(g)'
      BY DEF StrongestAreKept
    <3>1. g # f
      BY <1>t, <1>w, <2>l
    <3> QED
      BY <1>r, <2>4, <3>1 DEF OverlapsInv, StrongestAreKept
  <2>6. DroppedForAStronger'
    <3> SUFFICES ASSUME NEW g \in found' \ rest', ~IsKept(g)'
                 PROVE  \E h \in found' \ {g} : Overlap(g, h) /\ ~Stronger(g, h)
      BY DEF DroppedForAStronger
    <3>1. CASE g = f
      BY <1>3, <2>l, <3>1
    <3>2. CASE g # f
      BY <1>r, <2>4, <3>2 DEF OverlapsInv, DroppedForAStronger
    <3> QED
      BY <3>1, <3>2
  <2> QED
    BY <2>2, <2>3, <2>5, <2>6 DEF OverlapsInv
<1> QED
  BY <1>1, <1>2, <1>3, TakeCases

LEMMA ChunksTyped ==
    ASSUME NEW S \in Chunks PROVE S \subseteq RawFinding
<1>1. PICK n \in 0..MaxFindings : S \in kSubset(n, RawFinding)
  BY DEF Chunks
<1> QED
  BY <1>1 DEF kSubset

LEMMA OverlapsStep == OverlapsInv /\ [OverlapsNext]_chunk => OverlapsInv'
<1> SUFFICES ASSUME OverlapsInv, [OverlapsNext]_chunk PROVE OverlapsInv'
  OBVIOUS
<1>1. CASE Collect
  <2>1. found' \subseteq RawFinding /\ rest' = found' /\ kept' = <<>>
    BY <1>1, ChunksTyped DEF Collect
  <2> QED
    BY <2>1 DEF OverlapsInv, ChunkType, InOrder, KeptAreDisjoint, StrongestAreKept,
                DroppedForAStronger
<1>2. CASE TakeFirst
  BY <1>2, TakeKeeps DEF TakeFirst
<1>3. CASE HandOn
  BY <1>3 DEF HandOn, OverlapsInv, ChunkType, InOrder, KeptAreDisjoint,
     StrongestAreKept, DroppedForAStronger
<1>4. CASE UNCHANGED chunk
  BY <1>4 DEF chunk, OverlapsInv, ChunkType, InOrder, KeptAreDisjoint, StrongestAreKept,
     DroppedForAStronger, IsKept
<1> QED
  BY <1>1, <1>2, <1>3, <1>4 DEF OverlapsNext

\* For any text, priorities and findings, what is kept never overlaps and is in the
\* order of the text (engine.py, _resolve_overlaps).
THEOREM NoOverlapIsKept == OverlapsSpec => []KeptAreDisjoint
<1>1. OverlapsInv => KeptAreDisjoint
  BY DEF OverlapsInv, InOrder
<1> QED
  BY <1>1, OverlapsInitial, OverlapsStep, PTL DEF OverlapsSpec

\* For any text, priorities and findings, one that outranks all it overlaps is kept
\* (engine.py, _resolve_overlaps).
THEOREM StrongestFindingsAreKept == OverlapsSpec => []StrongestAreKept
<1>1. OverlapsInv => StrongestAreKept
  BY DEF OverlapsInv
<1> QED
  BY <1>1, OverlapsInitial, OverlapsStep, PTL DEF OverlapsSpec

\* For any text, priorities and findings, one is dropped only for another that overlaps
\* it and is not weaker (engine.py, _resolve_overlaps).
THEOREM DroppedWithReason == OverlapsSpec => []DroppedForAStronger
<1>1. OverlapsInv => DroppedForAStronger
  BY DEF OverlapsInv
<1> QED
  BY <1>1, OverlapsInitial, OverlapsStep, PTL DEF OverlapsSpec

=============================================================================
