------------------------ MODULE TieredStore_proofs ------------------------
(***************************************************************************)
(* Proofs about TieredStore, for every set of workers and every bound: the *)
(* type invariant, that the disk is never behind what was acknowledged,    *)
(* and that no load is, before a writer goes without Redis.                *)
(***************************************************************************)
EXTENDS TieredStore, TLAPS

-----------------------------------------------------------------------------
(* Types *)

LEMMA NothingStored ==
    /\ Nothing \in Contents
    /\ Empty \in [Records -> Contents]
    /\ NoneOf \in [Records -> SUBSET Contents]
    /\ Idle \in Operation
BY BoundAssumption
   DEF Empty, NoneOf, Idle, Operation, Records, Nothing, Contents

LEMMA InitTypes == Init => Types
<1> SUFFICES ASSUME Init PROVE Types
  OBVIOUS
<1>1. 0 \in 0 .. MaxOutages /\ 0 \in 0 .. MaxRemovals
  BY BoundAssumption
<1>2. /\ client \in [Process -> {"unknown", "held", "avoided"}]
      /\ op \in [Process -> Operation]
  BY NothingStored DEF Init
<1> QED BY <1>1, <1>2, NothingStored DEF Init, Types

(* What the ends of an operation leave.                                    *)
LEMMA CloseTypes ==
    ASSUME Types, NEW p \in Process, Close(p)
    PROVE  /\ op' \in [Process -> Operation]
           /\ ended' \in [Records -> SUBSET Contents]
<1>1. op' \in [Process -> Operation]
  BY NothingStored DEF Types, Close
<1>2. op[p].rec \in Records /\ op[p].ver \in Contents
  BY DEF Types, Operation
<1>3. ended' \in [Records -> SUBSET Contents]
  BY <1>2 DEF Types, Close
<1> QED BY <1>1, <1>3

LEMMA AcknowledgeTypes ==
    ASSUME Types, NEW p \in Process, Acknowledge(p)
    PROVE  /\ op' \in [Process -> Operation]
           /\ ended' \in [Records -> SUBSET Contents]
           /\ over' \in [Records -> SUBSET Contents]
<1>1. op[p].before \in [Records -> SUBSET Contents]
  BY DEF Types, Operation
<1>2. over' \in [Records -> SUBSET Contents]
  BY <1>1 DEF Types, Acknowledge
<1> QED BY <1>2, CloseTypes DEF Acknowledge

LEMMA GotoTypes ==
    ASSUME Types, NEW p \in Process, NEW pc \in {"file", "redis", "end"},
           Goto(p, pc)
    PROVE  op' \in [Process -> Operation]
<1>1. [op[p] EXCEPT !.pc = pc] \in Operation
  BY DEF Types, Operation
<1> QED BY <1>1 DEF Types, Goto

LEMMA PastRedisTypes ==
    ASSUME Types, NEW p \in Process, PastRedis(p)
    PROVE  /\ op' \in [Process -> Operation]
           /\ ended' \in [Records -> SUBSET Contents]
           /\ over' \in [Records -> SUBSET Contents]
<1>1. CASE Goto(p, "file") /\ UNCHANGED <<ended, over>>
  BY <1>1, GotoTypes DEF Types
<1>2. CASE Acknowledge(p)
  BY <1>2, AcknowledgeTypes
<1> QED BY <1>1, <1>2 DEF PastRedis

LEMMA StoredTypes ==
    ASSUME Types, NEW p \in Process
    PROVE  Stored(p) \in [Records -> Contents]
<1>1. op[p].rec \in Records /\ op[p].ver \in Contents
  BY DEF Types, Operation
<1> QED BY <1>1, NothingStored DEF Types, Stored

LEMMA SaveTypes ==
    ASSUME Types, NEW p \in Process, NEW r \in Records, Save(p, r)
    PROVE  Types'
<1>1. issued["meta"] \in Nat /\ issued["passphrase"] \in Nat
  BY BoundAssumption DEF Types, Records, Contents
<1>2. issued[r] + 1 \in Contents
  BY <1>1, BoundAssumption DEF Save, Records, Contents
<1>3. FirstTier(r) \in {"file", "redis"}
  BY DEF FirstTier
<1>4. [NoneOf EXCEPT ![r] =
           ended[r] \union (IF Removing THEN {} ELSE {Nothing})]
      \in [Records -> SUBSET Contents]
  BY NothingStored DEF Types
<1>5. op'[p] \in Operation
  BY <1>2, <1>3, <1>4 DEF Save, Operation, Types
<1>6. op' \in [Process -> Operation]
  BY <1>5 DEF Save, Types
<1>7. issued' \in [Records -> Contents]
  BY <1>2 DEF Save, Types
<1> QED BY <1>6, <1>7 DEF Save, Types, tiers

LEMMA LoadTypes ==
    ASSUME Types, NEW p \in Process, NEW r \in Records, Load(p, r)
    PROVE  Types'
<1>1. [NoneOf EXCEPT ![r] = over[r]] \in [Records -> SUBSET Contents]
  BY NothingStored DEF Types
<1>2. op'[p] \in Operation
  BY <1>1, NothingStored DEF Load, Operation, Types
<1>3. op' \in [Process -> Operation]
  BY <1>2 DEF Load, Types
<1> QED BY <1>3 DEF Load, Types, tiers, history

LEMMA RemoveTypes ==
    ASSUME Types, Remove
    PROVE  Types'
<1>1. ASSUME NEW p \in Process
      PROVE  op'[p] \in Operation
  <2>1. CASE p = Api
    BY <2>1, NothingStored DEF Remove, Operation, Types, Records
  <2>2. CASE p # Api
    <3>1. op[p] \in Operation
      BY DEF Types
    <3>2. [r \in Records |-> op[p].before[r] \ {Nothing}]
          \in [Records -> SUBSET Contents]
      BY <3>1 DEF Operation
    <3>3. op'[p] = [op[p] EXCEPT !.before =
                       [r \in Records |-> op[p].before[r] \ {Nothing}]]
      BY <2>2, <3>1 DEF Remove, Operation
    <3> QED BY <3>1, <3>2, <3>3 DEF Operation
  <2> QED BY <2>1, <2>2
<1>2. op' \in [Process -> Operation]
  BY <1>1 DEF Remove
<1>3. over' \in [Records -> SUBSET Contents]
  BY DEF Remove, Types
<1>4. removals' \in 0 .. MaxRemovals
  BY BoundAssumption DEF Remove, Types
<1> QED BY <1>2, <1>3, <1>4 DEF Remove, Types, tiers

LEMMA FileTypes ==
    ASSUME Types, NEW p \in Process,
           WriteFile(p) \/ WriteFileFails(p) \/ ReadFile(p)
    PROVE  Types'
<1>1. op[p].rec \in Records /\ op[p].ver \in Contents
  BY DEF Types, Operation
<1>2. CASE WriteFile(p)
  <2>1. file' \in [Records -> Contents]
    BY <1>1, <1>2 DEF WriteFile, Types
  <2>2. /\ op' \in [Process -> Operation]
        /\ ended' \in [Records -> SUBSET Contents]
        /\ over' \in [Records -> SUBSET Contents]
    BY <1>2, GotoTypes, AcknowledgeTypes DEF WriteFile, Types
  <2> QED BY <1>2, <2>1, <2>2 DEF WriteFile, Types
<1>3. CASE WriteFileFails(p)
  BY <1>3, CloseTypes DEF WriteFileFails, Leave, Types, tiers
<1>4. CASE ReadFile(p)
  BY <1>4, CloseTypes DEF ReadFile, Leave, Types, tiers
<1> QED BY <1>2, <1>3, <1>4

LEMMA RemoveFilesTypes ==
    ASSUME Types, RemoveFiles \/ RemoveFilesFails
    PROVE  Types'
<1>1. Api \in Process
  BY DEF Process
<1>2. CASE RemoveFiles
  <2>1. op' \in [Process -> Operation]
    BY <1>1, <1>2, GotoTypes DEF RemoveFiles
  <2> QED BY <1>2, <2>1, NothingStored DEF RemoveFiles, Types, history
<1>3. CASE RemoveFilesFails
  <2>1. [op[Api] EXCEPT !.pc = "redis", !.before = NoneOf] \in Operation
    BY <1>1, NothingStored DEF Types, Operation
  <2>2. op' = [op EXCEPT ![Api] =
                  [op[Api] EXCEPT !.pc = "redis", !.before = NoneOf]]
    BY <1>1, <1>3 DEF RemoveFilesFails, Types
  <2>3. op' \in [Process -> Operation]
    BY <2>1, <2>2 DEF Types
  <2>4. file' \in [Records -> Contents]
    BY <1>3, NothingStored DEF RemoveFilesFails, Types
  <2> QED BY <1>3, <2>3, <2>4 DEF RemoveFilesFails, Types, history
<1> QED BY <1>2, <1>3

LEMMA RedisTypes ==
    ASSUME Types, NEW p \in Process,
           \/ Connect(p) \/ RetryDue(p) \/ WriteRedis(p) \/ ReadRedis(p)
           \/ SkipRedis(p) \/ RedisRaises(p)
    PROVE  Types'
<1>1. CASE Connect(p)
  BY <1>1 DEF Connect, Types, tiers, history
<1>2. CASE RetryDue(p)
  BY <1>2 DEF RetryDue, Types, tiers, history
<1>3. CASE WriteRedis(p)
  BY <1>3, PastRedisTypes, StoredTypes DEF WriteRedis, Types
<1>4. CASE ReadRedis(p)
  <2>1. /\ op' \in [Process -> Operation]
        /\ ended' \in [Records -> SUBSET Contents]
        /\ over' \in [Records -> SUBSET Contents]
    BY <1>4, PastRedisTypes, CloseTypes DEF ReadRedis, Leave, Types
  <2> QED BY <1>4, <2>1 DEF ReadRedis, Types, tiers
<1>5. CASE SkipRedis(p)
  BY <1>5, PastRedisTypes DEF SkipRedis, Types, tiers
<1>6. CASE RedisRaises(p)
  BY <1>6, CloseTypes, StoredTypes DEF RedisRaises, Leave, Types
<1> QED BY <1>1, <1>2, <1>3, <1>4, <1>5, <1>6

LEMMA FaultTypes ==
    ASSUME Types,
           \/ RedisDumps \/ RedisStops \/ RedisReturns
           \/ \E p \in Process : ProcessRestarts(p)
    PROVE  Types'
<1>1. CASE RedisDumps
  BY <1>1 DEF RedisDumps, Types, history
<1>2. CASE RedisStops
  <2>1. outages' \in 0 .. MaxOutages
    BY <1>2, BoundAssumption DEF RedisStops, Types
  <2> QED BY <1>2, <2>1 DEF RedisStops, Types, history
<1>3. CASE RedisReturns
  BY <1>3 DEF RedisReturns, Types
<1>4. ASSUME NEW p \in Process, ProcessRestarts(p)
      PROVE  Types'
  BY <1>4, CloseTypes DEF ProcessRestarts, Leave, Types, tiers
<1> QED BY <1>1, <1>2, <1>3, <1>4

LEMMA TypesStep ==
    ASSUME Types, [Next]_vars
    PROVE  Types'
<1>1. CASE Next
  BY <1>1, SaveTypes, LoadTypes, RemoveTypes, FileTypes, RemoveFilesTypes,
     RedisTypes, FaultTypes DEF Next
<1>2. CASE UNCHANGED vars
  BY <1>2 DEF vars, Types
<1> QED BY <1>1, <1>2

-----------------------------------------------------------------------------
(* The invariant *)

Saving(p, r) == op[p].kind = "save" /\ op[p].rec = r

(* Contents no running save of r may be about to write: its saves that are *)
(* over, and what somebody holds as superseded.                            *)
Past(r) ==
    ended[r] \union over[r] \union UNION {op[q].before[r] : q \in Process}

PastBounded == \A r \in Records : \A v \in Past(r) : v <= issued[r]

SaversAreNew ==
    \A p \in Process, r \in Records : Saving(p, r) =>
        /\ op[p].ver # Nothing
        /\ op[p].ver <= issued[r]
        /\ op[p].ver \notin Past(r)

SaversDiffer ==
    \A p, q \in Process, r \in Records :
        p # q /\ Saving(p, r) /\ Saving(q, r) => op[p].ver # op[q].ver

SavesOneRecord ==
    \A p \in Process, r \in Records :
        op[p].kind = "none" \/ (op[p].kind = "save" /\ op[p].rec # r)
            => op[p].before[r] = {}

(* While a removal runs nobody takes an absent record for an old one.      *)
AbsenceIsFresh ==
    /\ \A r \in Records : Nothing \notin ended[r]
    /\ Removing => \A r \in Records :
          /\ Nothing \notin over[r]
          /\ \A q \in Process : Nothing \notin op[q].before[r]

BookInv ==
    /\ PastBounded
    /\ SaversAreNew
    /\ SaversDiffer
    /\ SavesOneRecord
    /\ AbsenceIsFresh

(* Past its file step, an operation has on disk what it may acknowledge.   *)
FileDone(p, r) ==
    /\ op[p].pc = "redis"
    /\ op[p].kind = "remove" \/ (Saving(p, r) /\ r = "meta")

OnDisk(r) == r = "passphrase" => AuthSecret

DiskInv ==
    \A r \in Records : OnDisk(r) =>
        /\ file[r] \notin over[r]
        /\ \A p \in Process : FileDone(p, r) => file[r] \notin op[p].before[r]

StoreInv == Types /\ BookInv /\ DiskInv

-----------------------------------------------------------------------------
(* The bookkeeping *)

(* A step by which a process goes on with its operation or ends it.        *)
Move(p) ==
    /\ issued' = issued
    /\ \A q \in Process \ {p} : op'[q] = op[q]
    /\ \/ op'[p] = Idle
       \/ /\ op'[p].kind = op[p].kind
          /\ op'[p].rec = op[p].rec
          /\ op'[p].ver = op[p].ver
          /\ op'[p].before = op[p].before \/ op'[p].before = NoneOf
          /\ ended' = ended
    /\ \A r \in Records :
          /\ ended'[r] \subseteq ended[r] \union
                               (IF Saving(p, r) THEN {op[p].ver} ELSE {})
          /\ over'[r] \subseteq over[r] \union op[p].before[r]

LEMMA GotoMoves ==
    ASSUME Types, NEW p \in Process, NEW pc, Goto(p, pc),
           UNCHANGED <<issued, ended, over>>
    PROVE  Move(p)
<1>1. op[p] \in Operation
  BY DEF Types
<1>2. op'[p] = [op[p] EXCEPT !.pc = pc]
  BY DEF Goto, Types
<1>3. \A q \in Process \ {p} : op'[q] = op[q]
  BY DEF Goto, Types
<1> QED BY <1>1, <1>2, <1>3 DEF Move, Operation

LEMMA CloseMoves ==
    ASSUME Types, NEW p \in Process, Leave(p) \/ Acknowledge(p),
           UNCHANGED issued
    PROVE  Move(p)
<1>1. Close(p)
  BY DEF Leave, Acknowledge
<1>2. op'[p] = Idle /\ \A q \in Process \ {p} : op'[q] = op[q]
  BY <1>1 DEF Close, Types
<1>3. ASSUME NEW r \in Records
      PROVE  /\ ended'[r] \subseteq ended[r] \union
                                  (IF Saving(p, r) THEN {op[p].ver} ELSE {})
             /\ over'[r] \subseteq over[r] \union op[p].before[r]
  <2>1. ended'[r] \subseteq ended[r] \union
                         (IF Saving(p, r) THEN {op[p].ver} ELSE {})
    BY <1>1 DEF Close, Saving, Types
  <2>2. over'[r] \subseteq over[r] \union op[p].before[r]
    BY DEF Leave, Acknowledge
  <2> QED BY <2>1, <2>2
<1> QED BY <1>2, <1>3 DEF Move

LEMMA PastRedisMoves ==
    ASSUME Types, NEW p \in Process, PastRedis(p), UNCHANGED issued
    PROVE  Move(p)
BY GotoMoves, CloseMoves DEF PastRedis

(* Idle takes part in nothing.                                             *)
LEMMA IdleFacts ==
    ASSUME NEW r \in Records
    PROVE  Idle.kind = "none" /\ Idle.pc = "end" /\ Idle.before[r] = {}
BY DEF Idle, NoneOf

LEMMA MoveKeepsBook ==
    ASSUME Types, BookInv, NEW p \in Process, Move(p)
    PROVE  BookInv'
<1>1. ASSUME NEW r \in Records
      PROVE  Past(r)' \subseteq Past(r) \union
                                (IF Saving(p, r) THEN {op[p].ver} ELSE {})
  <2>1. \A q \in Process : op'[q].before[r] \subseteq op[q].before[r]
    BY IdleFacts DEF Move, NoneOf
  <2> QED BY <2>1 DEF Move, Past
<1>2. ASSUME NEW q \in Process, NEW r \in Records, Saving(q, r)'
      PROVE  /\ Saving(q, r) /\ op'[q].ver = op[q].ver
             /\ q = p => ended' = ended
  BY <1>2, IdleFacts DEF Move, Saving
<1>3. PastBounded'
  BY <1>1 DEF BookInv, PastBounded, SaversAreNew, Move
<1>4. SaversAreNew'
  <2> SUFFICES ASSUME NEW q \in Process, NEW r \in Records, Saving(q, r)'
               PROVE  /\ op'[q].ver # Nothing
                      /\ op'[q].ver <= issued'[r]
                      /\ op'[q].ver \notin Past(r)'
    BY DEF SaversAreNew
  <2>1. /\ op'[q].ver # Nothing
        /\ op'[q].ver <= issued'[r]
        /\ op'[q].ver \notin Past(r)
    BY <1>2 DEF BookInv, SaversAreNew, Move
  <2>2. CASE q = p
    <3>1. ended' = ended
      BY <1>2, <2>2
    <3>2. Past(r)' \subseteq Past(r)
      <4>1. \A x \in Process : op'[x].before[r] \subseteq op[x].before[r]
        BY IdleFacts DEF Move, NoneOf
      <4> QED BY <3>1, <4>1 DEF Move, Past
    <3> QED BY <2>1, <3>2
  <2>3. CASE q # p
    BY <1>1, <1>2, <2>1, <2>3 DEF BookInv, SaversDiffer
  <2> QED BY <2>1, <2>2, <2>3
<1>5. SaversDiffer'
  BY <1>2 DEF BookInv, SaversDiffer
<1>6. SavesOneRecord'
  <2> SUFFICES ASSUME NEW q \in Process, NEW r \in Records,
                      \/ op'[q].kind = "none"
                      \/ op'[q].kind = "save" /\ op'[q].rec # r
               PROVE  op'[q].before[r] = {}
    BY DEF SavesOneRecord
  <2>1. CASE op'[q] = Idle
    BY <2>1, IdleFacts
  <2>2. CASE op'[q] # Idle
    <3>1. op'[q].kind = op[q].kind /\ op'[q].rec = op[q].rec
      BY <2>2 DEF Move
    <3>2. op'[q].before[r] \subseteq op[q].before[r]
      BY IdleFacts DEF Move, NoneOf
    <3> QED BY <3>1, <3>2 DEF BookInv, SavesOneRecord
  <2> QED BY <2>1, <2>2
<1>7. AbsenceIsFresh'
  <2>1. \A r \in Records : Nothing \notin ended'[r]
    BY DEF Move, BookInv, AbsenceIsFresh, SaversAreNew
  <2>2. ASSUME Removing'
        PROVE  \A r \in Records :
                  Nothing \notin over'[r]
                  /\ \A q \in Process : Nothing \notin op'[q].before[r]
    <3>1. Removing
      BY <2>2, IdleFacts DEF Move, Removing, Records
    <3>2. \A r \in Records :
             Nothing \notin over[r]
             /\ \A q \in Process : Nothing \notin op[q].before[r]
      BY <3>1 DEF BookInv, AbsenceIsFresh
    <3>3. ASSUME NEW r \in Records, NEW q \in Process
          PROVE  op'[q].before[r] \subseteq op[q].before[r]
      BY IdleFacts DEF Move, NoneOf
    <3> QED BY <3>2, <3>3 DEF Move
  <2> QED BY <2>1, <2>2 DEF AbsenceIsFresh
<1> QED BY <1>3, <1>4, <1>5, <1>6, <1>7 DEF BookInv

(* A save gets a version nobody has seen.                                  *)
LEMMA SaveKeepsBook ==
    ASSUME Types, BookInv, NEW p \in Process, NEW r \in Records, Save(p, r)
    PROVE  BookInv'
<1> DEFINE before == ended[r] \union (IF Removing THEN {} ELSE {Nothing})
<1>1. /\ op'[p].kind = "save" /\ op'[p].rec = r /\ op'[p].ver = issued[r] + 1
      /\ op'[p].before[r] = before
      /\ \A x \in Records \ {r} : op'[p].before[x] = {}
  BY DEF Save, NoneOf, Types
<1>2. \A q \in Process \ {p} : op'[q] = op[q]
  BY DEF Save, Types
<1>3. /\ issued'[r] = issued[r] + 1
      /\ \A x \in Records \ {r} : issued'[x] = issued[x]
  BY DEF Save, Types
<1>4. \A x \in Records : issued[x] \in Nat
  BY BoundAssumption DEF Types, Contents
<1>5. ASSUME NEW x \in Records
      PROVE  Past(x)' \subseteq Past(x) \union {Nothing}
  <2>1. \A q \in Process : op'[q].before[x]
             \subseteq op[q].before[x] \union ended[x] \union {Nothing}
    BY <1>1, <1>2
  <2> QED BY <2>1 DEF Save, Past
<1>6. PastBounded'
  <2> SUFFICES ASSUME NEW x \in Records, NEW v \in Past(x)'
               PROVE  v <= issued'[x]
    BY DEF PastBounded
  <2>1. CASE v \in Past(x)
    <3>1. v <= issued[x]
      BY <2>1 DEF BookInv, PastBounded
    <3>2. v \in Nat
      <4>1. Past(x) \subseteq Contents
        BY DEF Past, Types, Operation
      <4> QED BY <2>1, <4>1, BoundAssumption DEF Contents
    <3>3. issued'[x] = issued[x] \/ issued'[x] = issued[x] + 1
      BY <1>3
    <3> QED BY <3>1, <3>2, <3>3, <1>4
  <2>2. CASE v = Nothing
    <3>1. issued'[x] \in Nat
      BY <1>3, <1>4
    <3> QED BY <2>2, <3>1 DEF Nothing
  <2> QED BY <1>5, <2>1, <2>2
<1>7. SaversAreNew'
  <2> SUFFICES ASSUME NEW q \in Process, NEW x \in Records, Saving(q, x)'
               PROVE  /\ op'[q].ver # Nothing
                      /\ op'[q].ver <= issued'[x]
                      /\ op'[q].ver \notin Past(x)'
    BY DEF SaversAreNew
  <2>1. CASE q = p
    <3>1. x = r /\ op'[q].ver = issued[r] + 1
      BY <1>1, <2>1 DEF Saving
    <3>2. issued[r] + 1 \notin Past(r)
      BY <1>4 DEF BookInv, PastBounded
    <3>3. issued[r] + 1 # Nothing
      BY <1>4 DEF Nothing
    <3>4. issued'[r] = issued[r] + 1 /\ issued[r] + 1 <= issued[r] + 1
      BY <1>3, <1>4
    <3> QED BY <1>5, <3>1, <3>2, <3>3, <3>4
  <2>2. CASE q # p
    <3>1. Saving(q, x) /\ op'[q] = op[q]
      BY <1>2, <2>2 DEF Saving
    <3>2. /\ op[q].ver # Nothing
          /\ op[q].ver <= issued[x]
          /\ op[q].ver \notin Past(x)
      BY <3>1 DEF BookInv, SaversAreNew
    <3>3. op[q].ver \in Nat
      BY BoundAssumption DEF Types, Operation, Contents
    <3>4. op[q].ver <= issued'[x]
      BY <1>3, <1>4, <3>2, <3>3
    <3> QED BY <1>5, <3>1, <3>2, <3>4
  <2> QED BY <2>1, <2>2
<1>8. SaversDiffer'
  <2>1. ASSUME NEW q \in Process \ {p}, Saving(q, r)
        PROVE  op[q].ver # issued[r] + 1
    <3>1. op[q].ver <= issued[r] /\ op[q].ver \in Nat
      BY <2>1, BoundAssumption
         DEF BookInv, SaversAreNew, Types, Operation, Contents
    <3> QED BY <3>1, <1>4
  <2> QED BY <1>1, <1>2, <2>1 DEF BookInv, SaversDiffer, Saving
<1>9. SavesOneRecord'
  BY <1>1, <1>2 DEF BookInv, SavesOneRecord
<1>10. AbsenceIsFresh'
  <2>1. Removing' => Removing
    BY <1>1, <1>2 DEF Removing
  <2>2. Removing => \A x \in Records : Nothing \notin op'[p].before[x]
    BY <1>1 DEF BookInv, AbsenceIsFresh
  <2> QED BY <1>2, <2>1, <2>2 DEF BookInv, AbsenceIsFresh, Save
<1> QED BY <1>6, <1>7, <1>8, <1>9, <1>10 DEF BookInv

LEMMA LoadKeepsBook ==
    ASSUME Types, BookInv, NEW p \in Process, NEW r \in Records, Load(p, r)
    PROVE  BookInv'
<1>1. /\ op'[p].kind = "load"
      /\ \A x \in Records : op'[p].before[x] \subseteq over[x]
  BY DEF Load, NoneOf, Types
<1>2. \A q \in Process \ {p} : op'[q] = op[q]
  BY DEF Load, Types
<1>3. UNCHANGED <<issued, ended, over>>
  BY DEF Load, history
<1>4. \A x \in Records : Past(x)' \subseteq Past(x)
  BY <1>1, <1>2, <1>3 DEF Past
<1>5. \A q \in Process, x \in Records : Saving(q, x)' => q # p /\ Saving(q, x)
  BY <1>1, <1>2 DEF Saving
<1>6. PastBounded'
  BY <1>3, <1>4 DEF BookInv, PastBounded
<1>7. SaversAreNew'
  BY <1>2, <1>3, <1>4, <1>5 DEF BookInv, SaversAreNew
<1>8. SaversDiffer'
  BY <1>2, <1>5 DEF BookInv, SaversDiffer
<1>9. SavesOneRecord'
  BY <1>1, <1>2 DEF BookInv, SavesOneRecord
<1>10. AbsenceIsFresh'
  <2>1. Removing' => Removing
    BY <1>1, <1>2 DEF Removing
  <2> QED BY <1>1, <1>2, <1>3, <2>1 DEF BookInv, AbsenceIsFresh
<1> QED BY <1>6, <1>7, <1>8, <1>9, <1>10 DEF BookInv

(* A removal makes absence fresh for everybody.                            *)
LEMMA RemoveKeepsBook ==
    ASSUME Types, BookInv, Remove
    PROVE  BookInv'
<1>1. op'[Api].kind = "remove" /\ op'[Api].before = ended
  BY DEF Remove, Process
<1>2. ASSUME NEW q \in Process \ {Api}
      PROVE  /\ op'[q].kind = op[q].kind /\ op'[q].rec = op[q].rec
             /\ op'[q].ver = op[q].ver
             /\ \A x \in Records :
                   op'[q].before[x] = op[q].before[x] \ {Nothing}
  <2>1. op[q] \in Operation
    BY DEF Types
  <2>2. op'[q] = [op[q] EXCEPT !.before =
                    [x \in Records |-> op[q].before[x] \ {Nothing}]]
    BY <2>1 DEF Remove, Operation
  <2> QED BY <2>1, <2>2 DEF Operation
<1>3. \A x \in Records : over'[x] = over[x] \ {Nothing}
  BY DEF Remove
<1>4. UNCHANGED <<issued, ended>>
  BY DEF Remove
<1>5. ASSUME NEW x \in Records
      PROVE  Past(x)' \subseteq Past(x)
  <2>1. \A q \in Process :
            op'[q].before[x] \subseteq op[q].before[x] \union ended[x]
    BY <1>1, <1>2
  <2> QED BY <1>3, <1>4, <2>1 DEF Past
<1>6. \A q \in Process, x \in Records :
         Saving(q, x)' => q # Api /\ Saving(q, x)
  BY <1>1, <1>2 DEF Saving
<1>7. PastBounded'
  BY <1>4, <1>5 DEF BookInv, PastBounded
<1>8. SaversAreNew'
  BY <1>2, <1>4, <1>5, <1>6 DEF BookInv, SaversAreNew
<1>9. SaversDiffer'
  BY <1>2, <1>6 DEF BookInv, SaversDiffer
<1>10. SavesOneRecord'
  BY <1>1, <1>2 DEF BookInv, SavesOneRecord
<1>11. AbsenceIsFresh'
  BY <1>1, <1>2, <1>3, <1>4 DEF BookInv, AbsenceIsFresh
<1> QED BY <1>7, <1>8, <1>9, <1>10, <1>11 DEF BookInv

LEMMA SameKeepsBook ==
    ASSUME BookInv, UNCHANGED <<op, issued, ended, over>>
    PROVE  BookInv'
BY DEF BookInv, PastBounded, SaversAreNew, SaversDiffer, SavesOneRecord,
       AbsenceIsFresh, Past, Saving, Removing

-----------------------------------------------------------------------------
(* The disk *)

(* Steps that leave the files alone: what they acknowledge is on disk.     *)
LEMMA MoveKeepsDisk ==
    ASSUME Types, BookInv, DiskInv, NEW p \in Process, Move(p),
           UNCHANGED file,
           \A r \in Records : FileDone(p, r)' => FileDone(p, r),
           \A r \in Records : OnDisk(r) => file[r] \notin over'[r]
    PROVE  DiskInv'
<1> SUFFICES ASSUME NEW r \in Records, OnDisk(r), NEW q \in Process,
                    FileDone(q, r)'
             PROVE  file[r] \notin op'[q].before[r]
  BY DEF DiskInv, OnDisk
<1>1. FileDone(q, r)
  BY DEF Move, FileDone, Saving
<1>2. op'[q].before[r] \subseteq op[q].before[r]
  BY IdleFacts DEF Move, NoneOf
<1> QED BY <1>1, <1>2 DEF DiskInv

LEMMA LeaveKeepsDisk ==
    ASSUME Types, BookInv, DiskInv, NEW p \in Process, Leave(p),
           UNCHANGED <<file, issued>>
    PROVE  DiskInv'
<1>1. op'[p] = Idle
  BY DEF Leave, Close, Types
<1>2. \A r \in Records : ~FileDone(p, r)'
  BY <1>1, IdleFacts DEF FileDone
<1>3. Move(p)
  BY CloseMoves
<1> QED BY <1>2, <1>3, MoveKeepsDisk DEF Leave, DiskInv

LEMMA PastRedisKeepsDisk ==
    ASSUME Types, BookInv, DiskInv, NEW p \in Process, op[p].pc = "redis",
           PastRedis(p), UNCHANGED <<file, issued>>
    PROVE  DiskInv'
<1>1. Move(p)
  BY PastRedisMoves
<1>2. CASE Goto(p, "file") /\ UNCHANGED <<ended, over>>
  <2>1. op'[p].pc = "file"
    BY <1>2 DEF Goto, Types, Operation
  <2> QED BY <1>1, <1>2, <2>1, MoveKeepsDisk DEF FileDone, DiskInv
<1>3. CASE /\ Acknowledge(p)
           /\ ~ \/ op[p].kind = "load"
                \/ /\ op[p].kind = "save"
                   /\ op[p].rec = "passphrase" /\ AuthSecret
  <2>1. op'[p] = Idle
    BY <1>3 DEF Acknowledge, Close, Types
  <2>2. \A r \in Records : ~FileDone(p, r)'
    BY <2>1, IdleFacts DEF FileDone
  <2>3. ASSUME NEW r \in Records, OnDisk(r)
        PROVE  file[r] \notin over'[r]
    <3>1. file[r] \notin over[r]
      BY <2>3 DEF DiskInv
    <3>2. file[r] \notin op[p].before[r]
      <4>1. CASE FileDone(p, r)
        BY <2>3, <4>1 DEF DiskInv
      <4>2. CASE op[p].kind = "save" /\ op[p].rec # r
        BY <4>2 DEF BookInv, SavesOneRecord
      <4>3. CASE op[p].kind = "none"
        BY <4>3 DEF BookInv, SavesOneRecord
      <4> QED BY <1>3, <2>3, <4>1, <4>2, <4>3
              DEF FileDone, Saving, OnDisk, Records, Types, Operation
    <3> QED BY <1>3, <3>1, <3>2 DEF Acknowledge
  <2> QED BY <1>1, <2>2, <2>3, MoveKeepsDisk
<1> QED BY <1>2, <1>3 DEF PastRedis

(* What a save writes nobody has superseded.                               *)
LEMMA WriteFileKeepsDisk ==
    ASSUME Types, BookInv, DiskInv, NEW p \in Process, WriteFile(p)
    PROVE  DiskInv'
<1> DEFINE w == op[p].rec
<1>1. w \in Records /\ Saving(p, w)
  BY DEF Types, Operation, WriteFile, At, Saving
<1>2. op[p].ver \notin Past(w)
  BY <1>1 DEF BookInv, SaversAreNew
<1>3. \A r \in Records : file'[r] = IF r = w THEN op[p].ver ELSE file[r]
  BY <1>1 DEF WriteFile, Types
<1>4. Move(p)
  BY GotoMoves, CloseMoves DEF WriteFile
<1>5. ASSUME NEW r \in Records, OnDisk(r)
      PROVE  /\ file'[r] \notin over'[r]
             /\ \A q \in Process : FileDone(q, r)' =>
                    file'[r] \notin op'[q].before[r]
  <2>1. CASE r = w
    <3>1. file'[r] \notin over'[r]
      BY <1>2, <1>3, <1>4, <2>1 DEF Move, Past
    <3>2. \A q \in Process : op'[q].before[r] \subseteq op[q].before[r]
      BY <1>4, IdleFacts DEF Move, NoneOf
    <3> QED BY <1>2, <1>3, <2>1, <3>1, <3>2 DEF Past
  <2>2. CASE r # w
    <3>1. op[p].before[r] = {}
      BY <1>1, <2>2 DEF BookInv, SavesOneRecord, Saving
    <3>2. file'[r] = file[r] /\ file[r] \notin over'[r]
      BY <1>3, <1>4, <1>5, <2>2, <3>1 DEF Move, DiskInv
    <3>3. ASSUME NEW q \in Process, FileDone(q, r)'
          PROVE  file[r] \notin op'[q].before[r]
      <4>1. CASE q = p
        <5>1. op'[p].before[r] \subseteq op[p].before[r]
          BY <1>4, IdleFacts DEF Move, NoneOf
        <5> QED BY <3>1, <4>1, <5>1
      <4>2. CASE q # p
        <5>1. op'[q] = op[q]
          BY <1>4, <4>2 DEF Move
        <5>2. FileDone(q, r)
          BY <3>3, <5>1 DEF FileDone, Saving
        <5> QED BY <1>5, <5>1, <5>2 DEF DiskInv
      <4> QED BY <4>1, <4>2
    <3> QED BY <3>2, <3>3
  <2> QED BY <2>1, <2>2
<1> QED BY <1>5 DEF DiskInv, OnDisk

(* What a removal leaves behind is nothing, which is fresh while it runs,  *)
(* or what was there.                                                      *)
LEMMA RemoveFilesKeepsDisk ==
    ASSUME Types, BookInv, DiskInv, RemoveFiles \/ RemoveFilesFails
    PROVE  DiskInv' /\ Move(Api)
<1>1. /\ Api \in Process /\ op[Api] \in Operation /\ Removing
      /\ op[Api].kind = "remove"
  BY DEF Process, Types, RemoveFiles, RemoveFilesFails, At, Removing
<1>2. \A r \in Records :
         /\ Nothing \notin over[r]
         /\ \A q \in Process : Nothing \notin op[q].before[r]
  BY <1>1 DEF BookInv, AbsenceIsFresh
<1>3. UNCHANGED <<issued, ended, over>>
  BY DEF RemoveFiles, RemoveFilesFails, history
<1>4. \A q \in Process \ {Api} : op'[q] = op[q]
  BY DEF RemoveFiles, RemoveFilesFails, Goto, Types
<1>5. /\ op'[Api].kind = op[Api].kind /\ op'[Api].rec = op[Api].rec
      /\ op'[Api].ver = op[Api].ver
      /\ \/ op'[Api].before = NoneOf
         \/ op'[Api].before = op[Api].before /\ file' = Empty
  <2>1. CASE RemoveFiles
    BY <1>1, <2>1 DEF RemoveFiles, Goto, Types, Operation
  <2>2. CASE RemoveFilesFails
    <3>1. op'[Api] = [op[Api] EXCEPT !.pc = "redis", !.before = NoneOf]
      BY <1>1, <2>2 DEF RemoveFilesFails, Types
    <3> QED BY <1>1, <3>1 DEF Operation
  <2> QED BY <2>1, <2>2
<1>6. Move(Api)
  BY <1>3, <1>4, <1>5 DEF Move
<1>7. \A r \in Records : file'[r] = Nothing \/ file'[r] = file[r]
  BY DEF RemoveFiles, RemoveFilesFails, Empty
<1>8. ASSUME NEW r \in Records, OnDisk(r)
      PROVE  /\ file'[r] \notin over'[r]
             /\ \A q \in Process : FileDone(q, r)' =>
                    file'[r] \notin op'[q].before[r]
  <2>1. file'[r] \notin over'[r]
    BY <1>2, <1>3, <1>7, <1>8 DEF DiskInv
  <2>2. ASSUME NEW q \in Process, FileDone(q, r)'
        PROVE  file'[r] \notin op'[q].before[r]
    <3>1. CASE q = Api
      BY <1>1, <1>2, <1>5, <3>1 DEF NoneOf, Empty
    <3>2. CASE q # Api
      <4>1. op'[q] = op[q]
        BY <1>4, <3>2
      <4>2. FileDone(q, r)
        BY <2>2, <4>1 DEF FileDone, Saving
      <4> QED BY <1>2, <1>7, <1>8, <4>1, <4>2 DEF DiskInv
    <3> QED BY <3>1, <3>2
  <2> QED BY <2>1, <2>2
<1> QED BY <1>6, <1>8 DEF DiskInv, OnDisk

-----------------------------------------------------------------------------
(* The theorem *)

LEMMA StoreInvInit == Init => StoreInv
<1> SUFFICES ASSUME Init PROVE StoreInv
  OBVIOUS
<1>1. \A p \in Process : op[p] = Idle
  BY DEF Init
<1>2. \A r \in Records : ended[r] = {} /\ over[r] = {}
  BY DEF Init, NoneOf
<1>3. \A r \in Records : Past(r) = {}
  BY <1>1, <1>2, IdleFacts DEF Past
<1>4. BookInv
  BY <1>1, <1>2, <1>3, IdleFacts
     DEF BookInv, PastBounded, SaversAreNew, SaversDiffer, SavesOneRecord,
         AbsenceIsFresh, Saving, Removing
<1>5. DiskInv
  BY <1>1, <1>2, IdleFacts DEF DiskInv, FileDone
<1> QED BY <1>4, <1>5, InitTypes DEF StoreInv

(* Steps that begin an operation: its first step is still before it.       *)
LEMMA BeginKeepsDisk ==
    ASSUME Types, BookInv, DiskInv,
           \/ \E p \in Process, r \in Records : Save(p, r) \/ Load(p, r)
           \/ Remove
    PROVE  DiskInv'
<1>1. ASSUME NEW p \in Process, NEW x \in Records, Save(p, x) \/ Load(p, x)
      PROVE  DiskInv'
  <2>1. \A q \in Process \ {p} : op'[q] = op[q]
    BY <1>1 DEF Save, Load, Types
  <2>2. \A r \in Records : ~FileDone(p, r)'
    BY <1>1 DEF Save, Load, FileDone, Saving, FirstTier, Types
  <2>3. UNCHANGED <<file, over>>
    BY <1>1 DEF Save, Load, tiers, history
  <2> QED BY <2>1, <2>2, <2>3 DEF DiskInv, FileDone, Saving, OnDisk
<1>2. CASE Remove
  <2>1. op'[Api].pc = "file"
    BY <1>2 DEF Remove, Process
  <2>2. ASSUME NEW q \in Process \ {Api}, NEW r \in Records
        PROVE  /\ op'[q].before[r] \subseteq op[q].before[r]
               /\ FileDone(q, r)' => FileDone(q, r)
    <3>1. op[q] \in Operation
      BY DEF Types
    <3>2. op'[q] = [op[q] EXCEPT !.before =
                      [x \in Records |-> op[q].before[x] \ {Nothing}]]
      BY <1>2, <3>1 DEF Remove, Operation
    <3> QED BY <3>1, <3>2 DEF Operation, FileDone, Saving
  <2>3. file' = file /\ \A r \in Records : over'[r] \subseteq over[r]
    BY <1>2 DEF Remove, tiers
  <2>4. \A r \in Records : ~FileDone(Api, r)'
    BY <2>1 DEF FileDone
  <2> QED BY <2>2, <2>3, <2>4 DEF DiskInv, OnDisk
<1> QED BY <1>1, <1>2

LEMMA StoreInvStep ==
    ASSUME StoreInv, [Next]_vars
    PROVE  StoreInv'
<1> USE DEF StoreInv
<1>1. Types'
  BY TypesStep
<1>2. CASE \E p \in Process, r \in Records : Save(p, r) \/ Load(p, r)
  BY <1>1, <1>2, SaveKeepsBook, LoadKeepsBook, BeginKeepsDisk
<1>3. CASE Remove
  BY <1>1, <1>3, RemoveKeepsBook, BeginKeepsDisk
<1>4. CASE RemoveFiles \/ RemoveFilesFails
  <2>1. Api \in Process
    BY DEF Process
  <2> QED BY <1>1, <1>4, <2>1, RemoveFilesKeepsDisk, MoveKeepsBook
<1>5. ASSUME NEW p \in Process, WriteFile(p)
      PROVE  StoreInv'
  <2>1. Move(p)
    BY <1>5, GotoMoves, CloseMoves DEF WriteFile
  <2> QED BY <1>1, <1>5, <2>1, MoveKeepsBook, WriteFileKeepsDisk
<1>6. ASSUME NEW p \in Process,
             Leave(p), UNCHANGED <<file, issued>>
      PROVE  StoreInv'
  BY <1>1, <1>6, CloseMoves, MoveKeepsBook, LeaveKeepsDisk
<1>7. ASSUME NEW p \in Process,
             PastRedis(p), op[p].pc = "redis", UNCHANGED <<file, issued>>
      PROVE  StoreInv'
  BY <1>1, <1>7, PastRedisMoves, MoveKeepsBook, PastRedisKeepsDisk
<1>8. CASE UNCHANGED <<file, op, issued, ended, over>>
  BY <1>1, <1>8, SameKeepsBook DEF DiskInv, OnDisk, FileDone, Saving
<1>9. ASSUME NEW p \in Process,
             \/ WriteFileFails(p) \/ ReadFile(p) \/ Connect(p) \/ RetryDue(p)
             \/ WriteRedis(p) \/ ReadRedis(p) \/ SkipRedis(p)
             \/ RedisRaises(p) \/ ProcessRestarts(p)
      PROVE  StoreInv'
  <2>1. CASE WriteFileFails(p) \/ ReadFile(p) \/ ProcessRestarts(p)
    BY <1>6, <2>1 DEF WriteFileFails, ReadFile, ProcessRestarts, tiers
  <2>2. CASE Connect(p) \/ RetryDue(p)
    BY <1>8, <2>2 DEF Connect, RetryDue, tiers, history
  <2>3. CASE WriteRedis(p)
    BY <1>7, <2>3 DEF WriteRedis, At
  <2>4. CASE ReadRedis(p)
    BY <1>6, <1>7, <2>4 DEF ReadRedis, At, tiers
  <2>5. CASE SkipRedis(p)
    BY <1>7, <2>5 DEF SkipRedis, AtRedis, tiers
  <2>6. CASE RedisRaises(p)
    BY <1>6, <2>6 DEF RedisRaises
  <2> QED BY <1>9, <2>1, <2>2, <2>3, <2>4, <2>5, <2>6
<1>10. CASE RedisDumps \/ RedisStops \/ RedisReturns
  BY <1>8, <1>10 DEF RedisDumps, RedisStops, RedisReturns, history
<1>11. CASE UNCHANGED vars
  BY <1>8, <1>11 DEF vars
<1> QED BY <1>2, <1>3, <1>4, <1>5, <1>9, <1>10, <1>11 DEF Next

LEMMA StoreInvariant == Spec => []StoreInv
BY StoreInvInit, StoreInvStep, PTL DEF Spec

-----------------------------------------------------------------------------
(* What is stored under a name was saved under it *)

LEMMA IssuedIsNatural ==
    ASSUME Types
    PROVE  \A r \in Records : issued[r] \in Nat
BY BoundAssumption DEF Types, Contents

(* What a command writes is what the saves of that record were numbered.   *)
LEMMA StoredByName ==
    ASSUME StoreInv, TypeOK, NEW p \in Process, NEW r \in Records
    PROVE  Stored(p)[r] <= issued[r]
<1>1. issued[r] \in Nat /\ redis[r] <= issued[r]
  BY IssuedIsNatural DEF StoreInv, TypeOK
<1>2. CASE op[p].kind = "save" /\ op[p].rec = r
  BY <1>2 DEF StoreInv, BookInv, SaversAreNew, Saving, Stored, Types
<1>3. CASE op[p].kind = "save" /\ op[p].rec # r
  BY <1>1, <1>3 DEF StoreInv, Stored, Types
<1>4. CASE op[p].kind # "save"
  BY <1>1, <1>4 DEF Stored, Empty, Nothing
<1> QED BY <1>2, <1>3, <1>4

LEMMA ByNameStep ==
    ASSUME StoreInv, TypeOK, [Next]_vars, NEW r \in Records
    PROVE  /\ file'[r] <= issued'[r]
           /\ redis'[r] <= issued'[r]
           /\ dump'[r] <= issued'[r]
<1>1. issued[r] \in Nat
  BY IssuedIsNatural DEF StoreInv
<1>2. /\ file[r] \in Nat /\ redis[r] \in Nat /\ dump[r] \in Nat
      /\ file[r] <= issued[r] /\ redis[r] <= issued[r] /\ dump[r] <= issued[r]
  BY BoundAssumption DEF TypeOK, Types, Contents
<1>3. ASSUME NEW p \in Process, NEW s \in Records, Save(p, s)
      PROVE  /\ issued'[r] \in Nat /\ issued[r] <= issued'[r]
             /\ UNCHANGED <<file, redis, dump>>
  BY <1>1, <1>3 DEF Save, tiers, TypeOK, Types
<1>4. ASSUME NEW p \in Process, WriteFile(p)
      PROVE  file'[r] <= issued'[r] /\ UNCHANGED <<redis, dump, issued>>
  BY <1>2, <1>4 DEF WriteFile, At, TypeOK, Types, StoreInv, BookInv, SaversAreNew, Saving
<1>5. ASSUME NEW p \in Process, WriteRedis(p) \/ RedisRaises(p)
      PROVE  redis'[r] <= issued'[r] /\ UNCHANGED <<file, dump, issued>>
  BY <1>2, <1>5, StoredByName DEF WriteRedis, RedisRaises
<1>6. ASSUME RemoveFiles \/ RemoveFilesFails
      PROVE  file'[r] <= issued'[r] /\ UNCHANGED <<redis, dump, issued>>
  BY <1>1, <1>2, <1>6
     DEF RemoveFiles, RemoveFilesFails, history, Empty, Nothing
<1>7. ASSUME RedisDumps \/ RedisReturns
      PROVE  /\ redis'[r] <= issued'[r] /\ dump'[r] <= issued'[r]
             /\ UNCHANGED <<file, issued>>
  BY <1>2, <1>7 DEF RedisDumps, RedisReturns, history
<1>8. ASSUME \/ RedisStops \/ Remove \/ UNCHANGED vars
             \/ \E p \in Process :
                   \/ \E s \in Records : Load(p, s)
                   \/ WriteFileFails(p) \/ ReadFile(p) \/ Connect(p)
                   \/ RetryDue(p) \/ ReadRedis(p) \/ SkipRedis(p)
                   \/ ProcessRestarts(p)
      PROVE  UNCHANGED <<file, redis, dump, issued>>
  BY <1>8 DEF RedisStops, Remove, vars, Load, WriteFileFails, ReadFile, Connect,
              RetryDue, ReadRedis, SkipRedis, ProcessRestarts, tiers, history
<1> QED BY <1>1, <1>2, <1>3, <1>4, <1>5, <1>6, <1>7, <1>8 DEF Next

(* Every variable keeps its type, whatever processes, saves, removals and  *)
(* outages there are; and what a tier holds under the name of a record was *)
(* saved as that record.                                                   *)
THEOREM StoreTypeCorrect == Spec => []TypeOK
<1>1. Init => TypeOK
  BY InitTypes DEF Init, TypeOK, Empty, Nothing
<1>2. StoreInv /\ TypeOK /\ [Next]_vars => TypeOK'
  BY TypesStep, ByNameStep DEF TypeOK
<1> QED BY <1>1, <1>2, StoreInvariant, PTL DEF Spec

(* No outage, failed write, crash or race leaves on disk a record older    *)
(* than the last save or removal a caller was told of.                     *)
THEOREM DiskCurrent == Spec => []DiskIsCurrent
<1>1. StoreInv => DiskIsCurrent
  BY DEF StoreInv, DiskInv, OnDisk, DiskIsCurrent
<1> QED BY <1>1, StoreInvariant, PTL

-----------------------------------------------------------------------------
(* Redis, while no writer has gone without it *)

Fresh(r, old) == redis[r] = Nothing \/ redis[r] \notin old

(* A passphrase is in Redis and not yet on disk.                           *)
RedisDone(p, r) == At(p, "save", "file") /\ op[p].rec = r /\ r = "passphrase"

RedisInv ==
    ~diverged => \A r \in Records :
        /\ Fresh(r, over[r])
        /\ \A p \in Process : RedisDone(p, r) => Fresh(r, op[p].before[r])

(* What a load must not return stays superseded.                           *)
LoadersInv ==
    \A p \in Process, r \in Records :
        op[p].kind = "load" => op[p].before[r] \subseteq over[r]

CurrentInv == RedisInv /\ LoadersInv

LEMMA CurrentInit == Init => CurrentInv
<1> SUFFICES ASSUME Init PROVE CurrentInv
  OBVIOUS
<1>1. \A p \in Process : op[p].kind = "none"
  BY DEF Init, Idle
<1>2. \A r \in Records : redis[r] = Nothing
  BY DEF Init, Empty
<1>3. RedisInv
  BY <1>2 DEF RedisInv, Fresh
<1>4. LoadersInv
  BY <1>1 DEF LoadersInv
<1> QED BY <1>3, <1>4 DEF CurrentInv

(* Going on, and ending without an acknowledgement, with Redis as it was.  *)
LEMMA MoveKeepsLoaders ==
    ASSUME Types, LoadersInv, NEW p \in Process, Move(p),
           \A r \in Records : over[r] \subseteq over'[r]
    PROVE  LoadersInv'
<1> SUFFICES ASSUME NEW q \in Process, NEW r \in Records, op'[q].kind = "load"
             PROVE  op'[q].before[r] \subseteq over'[r]
  BY DEF LoadersInv
<1>1. op[q].kind = "load"
  BY IdleFacts DEF Move
<1>2. op'[q].before[r] \subseteq op[q].before[r]
  BY IdleFacts DEF Move, NoneOf
<1> QED BY <1>1, <1>2 DEF LoadersInv

LEMMA OverGrows ==
    ASSUME Types, NEW p \in Process,
           Leave(p) \/ Acknowledge(p) \/ PastRedis(p)
    PROVE  \A r \in Records : over[r] \subseteq over'[r]
BY DEF Leave, Acknowledge, PastRedis

(* Steps that leave Redis as it is and acknowledge nothing.                *)
LEMMA QuietKeepsRedis ==
    ASSUME Types, RedisInv, NEW p \in Process, Move(p),
           UNCHANGED <<redis, over>>, diverged => diverged',
           \A r \in Records : RedisDone(p, r)' => RedisDone(p, r)
    PROVE  RedisInv'
<1> SUFFICES ASSUME ~diverged', NEW r \in Records
             PROVE  /\ Fresh(r, over[r])'
                    /\ \A q \in Process : RedisDone(q, r)' =>
                           Fresh(r, op[q].before[r])'
  BY DEF RedisInv
<1>1. Fresh(r, over[r])'
  BY DEF RedisInv, Fresh
<1>2. ASSUME NEW q \in Process, RedisDone(q, r)'
      PROVE  Fresh(r, op[q].before[r])'
  <2>1. RedisDone(q, r)
    BY <1>2 DEF Move, RedisDone, At
  <2>2. op'[q].before[r] \subseteq op[q].before[r]
    BY IdleFacts DEF Move, NoneOf
  <2> QED BY <2>1, <2>2 DEF RedisInv, Fresh
<1> QED BY <1>1, <1>2

(* What a save puts into Redis nobody has superseded.                      *)
LEMMA StoredIsFresh ==
    ASSUME Types, BookInv, RedisInv, ~diverged, NEW p \in Process,
           NEW r \in Records
    PROVE  /\ Stored(p)[r] = Nothing \/ Stored(p)[r] \notin over[r]
           /\ \A q \in Process : RedisDone(q, r) =>
                 Stored(p)[r] = Nothing \/ Stored(p)[r] \notin op[q].before[r]
           /\ Saving(p, r) => Stored(p)[r] \notin op[p].before[r]
           /\ op[p].kind = "remove" => Stored(p)[r] = Nothing
<1>1. CASE Saving(p, r)
  <2>1. op[p].ver \notin Past(r)
    BY <1>1 DEF BookInv, SaversAreNew
  <2>2. Stored(p)[r] = op[p].ver
    BY <1>1 DEF Stored, Saving, Types
  <2> QED BY <1>1, <2>1, <2>2 DEF Past, Saving
<1>2. CASE op[p].kind = "remove"
  BY <1>2 DEF Stored, Empty, Saving
<1>3. CASE ~Saving(p, r) /\ op[p].kind # "remove"
  <2>1. Stored(p)[r] = redis[r]
    BY <1>3 DEF Stored, Saving, Types
  <2> QED BY <1>3, <2>1 DEF RedisInv, Fresh
<1> QED BY <1>1, <1>2, <1>3

LEMMA WriteRedisKeeps ==
    ASSUME Types, BookInv, RedisInv, NEW p \in Process,
           WriteRedis(p) \/ RedisRaises(p)
    PROVE  RedisInv'
<1> SUFFICES ASSUME ~diverged', NEW r \in Records
             PROVE  /\ Fresh(r, over[r])'
                    /\ \A q \in Process : RedisDone(q, r)' =>
                           Fresh(r, op[q].before[r])'
  BY DEF RedisInv
<1>1. ~diverged /\ Move(p)
  BY PastRedisMoves, CloseMoves DEF WriteRedis, RedisRaises
<1>2. op[p].pc = "redis"
  BY DEF WriteRedis, RedisRaises, At, AtRedis
<1>3. redis' = redis \/ redis' = Stored(p)
  BY DEF WriteRedis, RedisRaises
<1>4. /\ Fresh(r, over[r])
      /\ \A q \in Process : RedisDone(q, r) => Fresh(r, op[q].before[r])
  BY <1>1 DEF RedisInv
<1>5. \A q \in Process \ {p} : RedisDone(q, r)' =>
          RedisDone(q, r) /\ op'[q] = op[q]
  BY <1>1 DEF Move, RedisDone, At
<1>6. CASE RedisRaises(p)
  <2>1. op'[p] = Idle /\ over' = over
    BY <1>6 DEF RedisRaises, Leave, Close, Types
  <2>2. ~RedisDone(p, r)'
    BY <2>1, IdleFacts DEF RedisDone, At
  <2> QED BY <1>1, <1>3, <1>4, <1>5, <2>1, <2>2, StoredIsFresh DEF Fresh
<1>7. CASE WriteRedis(p)
  <2>1. redis' = Stored(p) /\ (op[p].kind = "save" \/ op[p].kind = "remove")
    BY <1>7 DEF WriteRedis, At
  <2>2. Saving(p, r) \/ op[p].kind = "remove" \/ op[p].before[r] = {}
    BY <2>1 DEF BookInv, SavesOneRecord, Saving
  <2>3. redis'[r] = Nothing \/ redis'[r] \notin op[p].before[r]
    BY <1>1, <2>1, <2>2, StoredIsFresh
  <2>4. Fresh(r, over[r])'
    BY <1>1, <2>1, <2>3, StoredIsFresh DEF Move, Fresh
  <2>5. op'[p].before[r] \subseteq op[p].before[r]
    BY <1>1, IdleFacts DEF Move, NoneOf
  <2> QED BY <1>1, <1>5, <2>1, <2>3, <2>4, <2>5, StoredIsFresh DEF Fresh
<1> QED BY <1>6, <1>7

(* The key goes to disk after Redis: it is acknowledged there.             *)
LEMMA WriteFileKeepsRedis ==
    ASSUME Types, BookInv, RedisInv, NEW p \in Process, WriteFile(p)
    PROVE  RedisInv'
<1>1. CASE op[p].rec = "meta"
  <2>1. Goto(p, "redis") /\ UNCHANGED <<redis, ended, over, issued, diverged>>
    BY <1>1 DEF WriteFile
  <2>2. op'[p].pc = "redis"
    BY <2>1 DEF Goto, Types, Operation
  <2> QED BY <2>1, <2>2, GotoMoves, QuietKeepsRedis DEF RedisDone, At
<1>2. CASE op[p].rec # "meta"
  <2>1. Acknowledge(p) /\ UNCHANGED <<redis, issued, diverged>>
    BY <1>2 DEF WriteFile
  <2>2. Move(p) /\ op'[p] = Idle
    BY <2>1, CloseMoves DEF Acknowledge, Close, Types
  <2>3. ASSUME ~diverged', NEW r \in Records
        PROVE  /\ Fresh(r, over[r])'
               /\ \A q \in Process : RedisDone(q, r)' =>
                      Fresh(r, op[q].before[r])'
    <3>1. /\ Fresh(r, over[r])
          /\ \A q \in Process : RedisDone(q, r) => Fresh(r, op[q].before[r])
      BY <2>1, <2>3 DEF RedisInv
    <3>2. Fresh(r, op[p].before[r])
      <4>1. CASE op[p].rec = r
        BY <1>2, <3>1, <4>1 DEF RedisDone, WriteFile, At, Records
      <4>2. CASE op[p].rec # r
        BY <4>2 DEF BookInv, SavesOneRecord, WriteFile, At, Fresh
      <4> QED BY <4>1, <4>2
    <3>3. Fresh(r, over[r])'
      BY <2>1, <3>1, <3>2 DEF Acknowledge, Fresh
    <3>4. ASSUME NEW q \in Process, RedisDone(q, r)'
          PROVE  Fresh(r, op[q].before[r])'
      <4>1. q # p
        BY <2>2, <3>4, IdleFacts DEF RedisDone, At
      <4>2. op'[q] = op[q]
        BY <2>2, <4>1 DEF Move
      <4> QED BY <2>1, <3>1, <3>4, <4>2 DEF RedisDone, At, Fresh
    <3> QED BY <3>3, <3>4
  <2> QED BY <2>3 DEF RedisInv
<1> QED BY <1>1, <1>2

LEMMA CurrentStep ==
    ASSUME StoreInv, CurrentInv, [Next]_vars
    PROVE  CurrentInv'
<1> USE DEF StoreInv, CurrentInv
<1>1. ASSUME NEW p \in Process, NEW x \in Records, Save(p, x) \/ Load(p, x)
      PROVE  CurrentInv'
  <2>1. \A q \in Process \ {p} : op'[q] = op[q]
    BY <1>1 DEF Save, Load, Types
  <2>2. UNCHANGED <<redis, over, diverged>>
    BY <1>1 DEF Save, Load, tiers, history
  <2>3. \A r \in Records : ~RedisDone(p, r)'
    BY <1>1 DEF Save, Load, RedisDone, At, FirstTier, Types
  <2>4. op'[p].kind = "load" =>
            \A r \in Records : op'[p].before[r] \subseteq over[r]
    BY <1>1 DEF Save, Load, NoneOf, Types
  <2>5. RedisInv'
    BY <2>1, <2>2, <2>3 DEF RedisInv, RedisDone, At, Fresh
  <2>6. LoadersInv'
    BY <2>1, <2>2, <2>4 DEF LoadersInv
  <2> QED BY <2>5, <2>6
<1>2. CASE Remove
  <2>1. op'[Api].kind = "remove"
    BY <1>2 DEF Remove, Process
  <2>2. ASSUME NEW q \in Process \ {Api}
        PROVE  /\ op'[q].kind = op[q].kind /\ op'[q].rec = op[q].rec
               /\ op'[q].pc = op[q].pc
               /\ \A r \in Records :
                     op'[q].before[r] = op[q].before[r] \ {Nothing}
    <3>1. op[q] \in Operation
      BY DEF Types
    <3>2. op'[q] = [op[q] EXCEPT !.before =
                      [x \in Records |-> op[q].before[x] \ {Nothing}]]
      BY <1>2, <3>1 DEF Remove, Operation
    <3> QED BY <3>1, <3>2 DEF Operation
  <2>3. /\ UNCHANGED <<redis, diverged>>
        /\ \A r \in Records : over'[r] = over[r] \ {Nothing}
    BY <1>2 DEF Remove, tiers
  <2>4. \A q \in Process, r \in Records :
            RedisDone(q, r)' => q # Api /\ RedisDone(q, r)
    BY <2>1, <2>2 DEF RedisDone, At
  <2>5. RedisInv'
    BY <2>2, <2>3, <2>4 DEF RedisInv, Fresh
  <2>6. LoadersInv'
    BY <2>1, <2>2, <2>3 DEF LoadersInv
  <2> QED BY <2>5, <2>6
<1>3. CASE RemoveFiles \/ RemoveFilesFails
  <2>1. Api \in Process /\ Move(Api)
    BY <1>3, RemoveFilesKeepsDisk DEF Process
  <2>2. UNCHANGED <<redis, over, diverged>>
    BY <1>3 DEF RemoveFiles, RemoveFilesFails, history
  <2>3. op[Api].kind = "remove" /\ op'[Api].kind \in {"none", "remove"}
    BY <1>3, <2>1, IdleFacts
       DEF RemoveFiles, RemoveFilesFails, At, Move, Records
  <2>4. \A r \in Records : ~RedisDone(Api, r)'
    BY <2>3 DEF RedisDone, At
  <2> QED BY <2>1, <2>2, <2>4, QuietKeepsRedis, MoveKeepsLoaders
<1>4. ASSUME NEW p \in Process, WriteFile(p)
      PROVE  CurrentInv'
  <2>1. Move(p)
    BY <1>4, GotoMoves, CloseMoves DEF WriteFile
  <2>2. \A r \in Records : over[r] \subseteq over'[r]
    BY <1>4, OverGrows DEF WriteFile
  <2> QED BY <1>4, <2>1, <2>2, WriteFileKeepsRedis, MoveKeepsLoaders
<1>5. ASSUME NEW p \in Process, WriteRedis(p) \/ RedisRaises(p)
      PROVE  CurrentInv'
  <2>1. Move(p)
    BY <1>5, PastRedisMoves, CloseMoves DEF WriteRedis, RedisRaises
  <2>2. \A r \in Records : over[r] \subseteq over'[r]
    BY <1>5, OverGrows DEF WriteRedis, RedisRaises
  <2> QED BY <1>5, <2>1, <2>2, WriteRedisKeeps, MoveKeepsLoaders
<1>6. ASSUME NEW p \in Process, Leave(p),
             UNCHANGED <<redis, issued, diverged>>
      PROVE  CurrentInv'
  <2>1. Move(p) /\ op'[p] = Idle /\ over' = over
    BY <1>6, CloseMoves DEF Leave, Close, Types
  <2>2. \A r \in Records : ~RedisDone(p, r)'
    BY <2>1, IdleFacts DEF RedisDone, At
  <2> QED BY <1>6, <2>1, <2>2, QuietKeepsRedis, MoveKeepsLoaders
<1>7. ASSUME NEW p \in Process, op[p].kind = "load", PastRedis(p),
             UNCHANGED <<redis, issued, diverged>>
      PROVE  CurrentInv'
  <2>1. Goto(p, "file") /\ UNCHANGED <<ended, over>>
    BY <1>7 DEF PastRedis
  <2>2. Move(p)
    BY <1>7, <2>1, GotoMoves
  <2>3. \A r \in Records : ~RedisDone(p, r)'
    BY <1>7, <2>1 DEF RedisDone, At, Goto, Types, Operation
  <2> QED BY <1>7, <2>1, <2>2, <2>3, QuietKeepsRedis, MoveKeepsLoaders
<1>8. ASSUME NEW p \in Process, SkipRedis(p)
      PROVE  CurrentInv'
  <2>1. CASE op[p].kind = "load"
    <3>1. diverged' = diverged
      BY <1>8, <2>1 DEF SkipRedis, Types
    <3> QED BY <1>7, <1>8, <2>1, <3>1 DEF SkipRedis, tiers
  <2>2. CASE op[p].kind # "load"
    <3>1. diverged' = TRUE
      BY <1>8, <2>2 DEF SkipRedis
    <3>2. Move(p) /\ \A r \in Records : over[r] \subseteq over'[r]
      BY <1>8, PastRedisMoves, OverGrows DEF SkipRedis
    <3> QED BY <3>1, <3>2, MoveKeepsLoaders DEF RedisInv
  <2> QED BY <2>1, <2>2
<1>9. CASE /\ UNCHANGED <<op, over>>
           /\ UNCHANGED <<redis, diverged>> \/ diverged'
  BY <1>9 DEF RedisInv, LoadersInv, Fresh, RedisDone, At
<1>10. ASSUME NEW p \in Process,
              \/ WriteFileFails(p) \/ ReadFile(p) \/ Connect(p) \/ RetryDue(p)
              \/ ReadRedis(p) \/ ProcessRestarts(p)
      PROVE  CurrentInv'
  <2>1. CASE WriteFileFails(p) \/ ReadFile(p) \/ ProcessRestarts(p)
    BY <1>6, <2>1 DEF WriteFileFails, ReadFile, ProcessRestarts, tiers
  <2>2. CASE Connect(p) \/ RetryDue(p)
    BY <1>9, <2>2 DEF Connect, RetryDue, tiers, history
  <2>3. CASE ReadRedis(p)
    BY <1>6, <1>7, <2>3 DEF ReadRedis, At, tiers
  <2> QED BY <1>10, <2>1, <2>2, <2>3
<1>11. CASE RedisDumps \/ RedisStops
  BY <1>9, <1>11 DEF RedisDumps, RedisStops, history
<1>12. CASE RedisReturns
  <2>1. diverged' \/ UNCHANGED <<redis, diverged>>
    BY <1>12 DEF RedisReturns, Types
  <2> QED BY <1>9, <1>12, <2>1 DEF RedisReturns
<1>13. CASE UNCHANGED vars
  BY <1>9, <1>13 DEF vars
<1> QED BY <1>1, <1>2, <1>3, <1>4, <1>5, <1>8, <1>10, <1>11, <1>12, <1>13
        DEF Next

(* Until a writer goes without Redis or Redis loses data, no process is    *)
(* answered with a record that was superseded before it asked.             *)
THEOREM LoadsCurrent ==
    ASSUME AuthSecret
    PROVE  Spec => []LoadsAreCurrent
<1>1. Init => StoreInv /\ CurrentInv
  BY StoreInvInit, CurrentInit
<1>2. StoreInv /\ CurrentInv /\ [Next]_vars => (StoreInv /\ CurrentInv)'
  BY StoreInvStep, CurrentStep
<1>3. StoreInv /\ CurrentInv => LoadsAreCurrent
  <2> SUFFICES ASSUME StoreInv, CurrentInv, ~diverged, NEW p \in Process,
                      op[p].kind = "load"
               PROVE  LET r == op[p].rec
                      IN  /\ redis[r] # Nothing =>
                                redis[r] \notin op[p].before[r]
                          /\ FromFile(r) \notin op[p].before[r]
    BY DEF LoadsAreCurrent, At
  <2>1. op[p].rec \in Records
    BY DEF StoreInv, Types, Operation
  <2>2. op[p].before[op[p].rec] \subseteq over[op[p].rec]
    BY <2>1 DEF CurrentInv, LoadersInv
  <2>3. redis[op[p].rec] # Nothing => redis[op[p].rec] \notin over[op[p].rec]
    BY <2>1 DEF CurrentInv, RedisInv, Fresh
  <2>4. FromFile(op[p].rec) \notin over[op[p].rec]
    BY <2>1 DEF StoreInv, DiskInv, OnDisk, FromFile
  <2> QED BY <2>2, <2>3, <2>4
<1> QED BY <1>1, <1>2, <1>3, PTL DEF Spec

=============================================================================
