---------------------------- MODULE SubWorkerProofs ----------------------------
(* Why the supervisor keeps its promises about nodes: every handler either leaves *)
(* a node alone, ends it or queues it again, and only a tick starts one, from a    *)
(* list that no other handler can make stale.                                     *)
EXTENDS SubWorker, FiniteSetTheorems, WellFoundedInduction, TLAPS

Statuses == {"absent", "pending", "running"} \cup Ended
Answers == [node : 0..N, status : {"none", "crash"} \cup Ended]
Children == [run : {"none", "alive", "quitting", "dead", "gone"}, task : 0..N,
             mode : {"ready", "paused", "handoff", "wedged"}, cancel : User..N, out : Answers]
SlotRecords == [child : 0..MaxSpawns, task : 0..N, expected : BOOLEAN]

LEMMA Constants ==
    /\ N \in Nat /\ MaxSpawns \in Nat /\ MaxLives \in Nat /\ MaxUpsets \in Nat
    /\ MaxAttempts \in Nat /\ MaxAttempts > 0
    /\ Nodes \subseteq Nat /\ 0 \notin Nodes /\ Nodes = 1..N
    /\ Ids \subseteq Nat /\ 0 \notin Ids /\ Ids = 1..MaxSpawns
    /\ 0 \in 0..N /\ 0 \in User..N /\ User \in User..N
    /\ Nodes \subseteq 0..N /\ Nodes \subseteq User..N
    /\ 0 \in 0..MaxSpawns /\ Ids \subseteq 0..MaxSpawns
    /\ Plans \subseteq Nat /\ \A n \in Nodes : Plan[n] \in Plans
BY SubWorkerAssumption DEF Nodes, Ids, Plans, User

LEMMA LeastIsIn ==
    ASSUME NEW S \in SUBSET Nat, S # {}
    PROVE Min(S) \in S
<1> DEFINE Less == {pair \in Nat \X Nat : pair[1] < pair[2]}
<1>1. IsWellFoundedOn(Less, Nat)
  BY NatLessThanWellFounded DEF OpToRel
<1>2. PICK x \in S : \A y \in S : <<y, x>> \notin Less
  BY <1>1, WFMin
<1>3. ASSUME NEW y \in S PROVE x <= y
  <2>1. <<y, x>>[1] = y /\ <<y, x>>[2] = x /\ <<y, x>> \in Nat \X Nat
    OBVIOUS
  <2>2. ~(y < x)
    BY <1>2, <2>1
  <2> QED
    BY <2>2
<1> QED
  BY <1>3 DEF Min

LEMMA NodeOfRuns ==
    ASSUME NEW w
    PROVE NodeOf(w) # 0 => NodeOf(w) \in Running /\ worker[NodeOf(w)] = w
<1> DEFINE held == {n \in Running : worker[n] = w}
<1>1. held \in SUBSET Nat
  BY Constants DEF Running
<1>2. held # {} => Min(held) \in held
  BY <1>1, LeastIsIn
<1>3. NodeOf(w) = IF held = {} THEN 0 ELSE Min(held)
  BY DEF NodeOf
<1> QED
  BY <1>2, <1>3

LEMMA Unbegun == Unborn \in Children
BY Constants DEF Unborn, NoOut, Children, Answers

LEMMA KilledType ==
    ASSUME child \in [Ids -> Children], NEW ps
    PROVE Killed(ps) \in [Ids -> Children]
<1>1. \A c \in Ids : [child[c] EXCEPT !.run = "dead", !.task = 0, !.mode = "ready", !.cancel = 0] \in Children
  BY Constants DEF Children
<1> QED
  BY <1>1 DEF Killed

LEMMA CancelledType ==
    ASSUME child \in [Ids -> Children], NEW ws, NEW who \in User..N
    PROVE Cancelled(ws, who) \in [Ids -> Children]
<1>1. \A c \in Ids : [child[c] EXCEPT !.cancel = who] \in Children
  BY DEF Children
<1> QED
  BY <1>1 DEF Cancelled

LEMMA HandedType ==
    ASSUME child \in [Ids -> Children], NEW c, NEW n \in Nodes
    PROVE Handed(c, n) \in [Ids -> Children]
<1>1. n \in 0..N /\ 0 \in User..N
  BY Constants
<1>2. [child EXCEPT ![c].task = n, ![c].cancel = 0] \in [Ids -> Children]
  BY <1>1 DEF Children
<1>3. [node |-> n, status |-> "blocked"] \in Answers
  BY <1>1 DEF Answers, Ended
<1>4. [child EXCEPT ![c].out = [node |-> n, status |-> "blocked"]] \in [Ids -> Children]
  BY <1>3 DEF Children
<1> QED
  BY <1>2, <1>4 DEF Handed

LEMMA FinishNodeType ==
    ASSUME TypeOK, NEW n \in Nodes, NEW w \in 0..MaxSpawns, NEW outcome \in Ended,
           NEW answers \in HandedOver..N, FinishNode(n, w, outcome, answers)
    PROVE /\ status' \in [Nodes -> Statuses]
          /\ worker' \in [Nodes -> 0..MaxSpawns]
          /\ result' \in [Nodes -> HandedOver..N]
<1>1. status \in [Nodes -> Statuses] /\ worker \in [Nodes -> 0..MaxSpawns] /\ result \in [Nodes -> HandedOver..N]
  BY DEF TypeOK, Statuses
<1>2. Finished(n, outcome) \in [Nodes -> Statuses]
  BY <1>1 DEF Finished, Blocking, Statuses, Ended
<1>3. (IF Retryable(n, outcome) THEN 0 ELSE IF status[n] = "running" THEN w ELSE worker[n]) \in 0..MaxSpawns
  BY <1>1, Constants
<1> QED
  BY <1>1, <1>2, <1>3 DEF FinishNode

LEMMA ReleasedType ==
    ASSUME NEW own \in [Files -> 0..MaxSpawns], NEW gone
    PROVE Released(own, gone) \in [Files -> 0..MaxSpawns]
BY Constants DEF Released

LEMMA ClaimedType ==
    ASSUME TypeOK, NEW n, NEW w \in Ids
    PROVE Claimed(n, w) \in [Files -> 0..MaxSpawns]
BY Constants DEF Claimed, TypeOK

LEMMA SpawnType ==
    ASSUME TypeOK, spawned < MaxSpawns
    PROVE /\ spawned + 1 \in Ids
          /\ [child EXCEPT ![spawned + 1].run = "alive"] \in [Ids -> Children]
          /\ [child |-> spawned + 1, task |-> 0, expected |-> FALSE] \in SlotRecords
<1>1. spawned + 1 \in Ids /\ spawned + 1 \in 0..MaxSpawns
  BY Constants DEF TypeOK
<1>2. child \in [Ids -> Children]
  BY DEF TypeOK, Children, Answers
<1>3. \A c \in Ids : [child[c] EXCEPT !.run = "alive"] \in Children
  BY <1>2 DEF Children
<1>4. [child EXCEPT ![spawned + 1].run = "alive"] \in [Ids -> Children]
  BY <1>2, <1>3
<1> QED
  BY <1>1, <1>4, Constants DEF SlotRecords

PoolTypeOK ==
    /\ slot \in [Ids -> SlotRecords]
    /\ child \in [Ids -> Children]
    /\ spawned \in 0..MaxSpawns

LEMMA PoolType == TypeOK => PoolTypeOK
BY DEF TypeOK, PoolTypeOK, SlotRecords, Children, Answers

LEMMA SpawnOneType ==
    ASSUME TypeOK, spawned < MaxSpawns, SpawnOne
    PROVE PoolTypeOK'
BY SpawnType, PoolType, Constants DEF SpawnOne, PoolTypeOK

LEMMA RetireType ==
    ASSUME TypeOK, NEW w \in Ids, Retire(w)
    PROVE PoolTypeOK'
<1>1. NoSlot \in SlotRecords
  BY Constants DEF NoSlot, SlotRecords
<1>2. Killed({slot[w].child}) \in [Ids -> Children]
  BY PoolType, KilledType DEF PoolTypeOK
<1> QED
  BY <1>1, <1>2, PoolType DEF Retire, PoolTypeOK

LEMMA EnsureSizeType ==
    ASSUME TypeOK, EnsureSize
    PROVE PoolTypeOK'
<1>1. CASE UNCHANGED poolVars
  BY <1>1, PoolType DEF poolVars, PoolTypeOK
<1>2. CASE CanSpawn /\ SpawnOne
  BY <1>2, SpawnOneType DEF CanSpawn
<1>3. CASE \E w \in Idle : Retire(w)
  BY <1>3, RetireType DEF Idle, Workers
<1> QED
  BY <1>1, <1>2, <1>3 DEF EnsureSize

LEMMA StartingType ==
    ASSUME TypeOK, Starting
    PROVE /\ PoolTypeOK'
          /\ flags' \in [intentional : BOOLEAN, latched : BOOLEAN, ticking : BOOLEAN, stopping : BOOLEAN]
          /\ mode' = "on" /\ phase' \in {"rest", "tick"}
<1> DEFINE room1 == Cardinality(Slots) < MaxWorkers /\ spawned < MaxSpawns
<1>1. /\ flags' = [flags EXCEPT !.intentional = FALSE, !.latched = FALSE, !.ticking = @ \/ room1]
      /\ mode' = "on"
      /\ IF room1 THEN SpawnOne /\ phase' = "tick" ELSE UNCHANGED poolVars /\ phase' = "rest"
  BY DEF Starting
<1>2. PoolTypeOK'
  <2>1. CASE room1
    BY <1>1, <2>1, SpawnOneType
  <2>2. CASE ~room1
    BY <1>1, <2>2, PoolType DEF poolVars, PoolTypeOK
  <2> QED
    BY <2>1, <2>2
<1>3. flags' \in [intentional : BOOLEAN, latched : BOOLEAN, ticking : BOOLEAN, stopping : BOOLEAN]
  <2>1. flags \in [intentional : BOOLEAN, latched : BOOLEAN, ticking : BOOLEAN, stopping : BOOLEAN]
    BY DEF TypeOK
  <2>2. (flags.ticking \/ room1) \in BOOLEAN
    BY <2>1
  <2> QED
    BY <1>1, <2>1, <2>2
<1> QED
  BY <1>1, <1>2, <1>3

LEMMA FinalizeType ==
    ASSUME TypeOK, Finalize
    PROVE /\ slot' \in [Ids -> SlotRecords] /\ child' \in [Ids -> Children]
          /\ status' \in [Nodes -> Statuses] /\ result' \in [Nodes -> HandedOver..N]
          /\ flags' \in [intentional : BOOLEAN, latched : BOOLEAN, ticking : BOOLEAN, stopping : BOOLEAN]
          /\ mode' = "off"
<1>1. NoSlot \in SlotRecords
  BY Constants DEF NoSlot, SlotRecords
<1>2. Killed(Processes(Ids)) \in [Ids -> Children]
  BY PoolType, KilledType DEF PoolTypeOK
<1>3. 0 \in HandedOver..N
  BY Constants DEF HandedOver
<1> QED
  BY <1>1, <1>2, <1>3, PoolType DEF Finalize, PoolTypeOK, TypeOK, Statuses, Ended

LEMMA HandOverType ==
    ASSUME TypeOK, NEW captured, HandOver(captured)
    PROVE /\ slot' \in [Ids -> SlotRecords] /\ child' \in [Ids -> Children]
          /\ status' \in [Nodes -> Statuses] /\ result' \in [Nodes -> HandedOver..N]
          /\ flags' \in [intentional : BOOLEAN, latched : BOOLEAN, ticking : BOOLEAN, stopping : BOOLEAN]
          /\ mode' = "handoff" /\ handing' = [on |-> FALSE, nodes |-> {}]
<1>1. NoSlot \in SlotRecords
  BY Constants DEF NoSlot, SlotRecords
<1>2. Killed(Processes(Ids)) \in [Ids -> Children]
  BY PoolType, KilledType DEF PoolTypeOK
<1>3. HandedOver \in HandedOver..N
  BY Constants DEF HandedOver
<1>4. Blocking(status, captured) \in [Nodes -> Statuses]
  BY DEF TypeOK, Blocking, Statuses, Ended
<1> QED
  BY <1>1, <1>2, <1>3, <1>4 DEF HandOver, TypeOK

LEMMA CrashedType ==
    ASSUME NEW st \in [Nodes -> Statuses], NEW own \in [Files -> 0..MaxSpawns], NEW ws, Crashed(st, own, ws)
    PROVE /\ status' \in [Nodes -> Statuses]
          /\ owner' \in [Files -> 0..MaxSpawns]
          /\ mode' = "on"
<1>1. Abandoned(st) \in [Nodes -> Statuses]
  BY DEF Abandoned, Statuses, Ended
<1> QED
  BY <1>1, ReleasedType DEF Crashed

LEMMA DispatchType ==
    ASSUME TypeOK, NEW n \in Nodes, NEW w \in Ids, NEW speculative, Dispatch(n, w, speculative)
    PROVE /\ status' \in [Nodes -> Statuses] /\ worker' \in [Nodes -> 0..MaxSpawns]
          /\ attempts' \in [Nodes -> Nat] /\ result' \in [Nodes -> HandedOver..N]
          /\ slot' \in [Ids -> SlotRecords] /\ child' \in [Ids -> Children]
          /\ owner' \in [Files -> 0..MaxSpawns]
          /\ mode' \in {"on", mode}
          /\ upsets' \in 0..MaxUpsets
<1>0. /\ status \in [Nodes -> Statuses] /\ worker \in [Nodes -> 0..MaxSpawns]
      /\ attempts \in [Nodes -> Nat] /\ result \in [Nodes -> HandedOver..N]
      /\ owner \in [Files -> 0..MaxSpawns] /\ upsets \in 0..MaxUpsets
  BY DEF TypeOK, Statuses
<1>1. CASE /\ Upset(1) /\ FinishNode(n, w, "blocked", 0) /\ mode' = "on"
           /\ UNCHANGED <<attempts, slot, child, owner>>
  <2>1. "blocked" \in Ended /\ 0 \in HandedOver..N
    BY Constants DEF Ended, HandedOver
  <2>2. upsets' \in 0..MaxUpsets
    BY <1>0, <1>1, Constants DEF Upset
  <2> QED
    BY <1>0, <1>1, <2>1, <2>2, FinishNodeType, PoolType, Constants DEF PoolTypeOK
<1>2. CASE /\ slot[w].task = 0
           /\ status' = [status EXCEPT ![n] = "running"]
           /\ worker' = [worker EXCEPT ![n] = w]
           /\ attempts' = [attempts EXCEPT ![n] = @ + 1]
           /\ slot' = [slot EXCEPT ![w].task = n]
           /\ child' = Handed(slot[w].child, n)
           /\ owner' = Claimed(n, w)
           /\ mode' = IF speculative THEN mode ELSE "on"
           /\ UNCHANGED <<result, upsets>>
  <2>1. slot' \in [Ids -> SlotRecords]
    BY <1>2, PoolType, Constants DEF PoolTypeOK, SlotRecords
  <2>2. child' \in [Ids -> Children]
    BY <1>2, PoolType, HandedType DEF PoolTypeOK
  <2>3. owner' \in [Files -> 0..MaxSpawns]
    BY <1>2, ClaimedType
  <2>4. status' \in [Nodes -> Statuses] /\ worker' \in [Nodes -> 0..MaxSpawns]
    BY <1>0, <1>2, Constants DEF Statuses
  <2>5. attempts' \in [Nodes -> Nat]
    BY <1>0, <1>2
  <2> QED
    BY <1>0, <1>2, <2>1, <2>2, <2>3, <2>4, <2>5
<1>3. CASE /\ slot[w].task # 0
           /\ owner' = Released(Claimed(n, w), {w})
           /\ UNCHANGED <<nodeVars, slot, child, mode, upsets>>
  BY <1>0, <1>3, ClaimedType, ReleasedType, PoolType DEF nodeVars, PoolTypeOK
<1> QED
  BY <1>1, <1>2, <1>3 DEF Dispatch

-------------------------------------------------------------------------------

FlagSet == [intentional : BOOLEAN, latched : BOOLEAN, ticking : BOOLEAN, stopping : BOOLEAN]
Phases == {"rest", "tick", "health", "dispatch", "pick", "duplicate", "stop"}
NodesTyped ==
    /\ status \in [Nodes -> Statuses] /\ worker \in [Nodes -> 0..MaxSpawns]
    /\ attempts \in [Nodes -> Nat] /\ result \in [Nodes -> HandedOver..N]
ClaimsTyped == owner \in [Files -> 0..MaxSpawns] /\ dup \in [Nodes -> 0..MaxSpawns]
PlansTyped == plans \in [Plans -> {"absent", "active", "completed", "failed", "lost"}]
ModeTyped ==
    /\ mode \in {"off", "on", "stopping", "handoff"} /\ flags \in FlagSet
    /\ handing \in [on : BOOLEAN, nodes : SUBSET Nodes]
TickTyped ==
    /\ phase \in Phases /\ todo \in SUBSET (Nodes \cup Ids)
    /\ queue \in SUBSET Plans /\ room \in Nat
CountsTyped == lives \in 0..MaxLives /\ upsets \in 0..MaxUpsets
Typed == NodesTyped /\ PoolTypeOK /\ ClaimsTyped /\ PlansTyped /\ ModeTyped /\ TickTyped /\ CountsTyped

LEMMA SameType == TypeOK <=> Typed
BY DEF TypeOK, Typed, NodesTyped, PoolTypeOK, ClaimsTyped, PlansTyped, ModeTyped, TickTyped,
       CountsTyped, FlagSet, Phases, Statuses, SlotRecords, Children, Answers

LEMMA UpsetType == ASSUME CountsTyped, NEW k \in Nat, Upset(k) PROVE upsets' \in 0..MaxUpsets
BY Constants DEF CountsTyped, Upset

LEMMA InitType == Init => Typed
<1> SUFFICES ASSUME Init PROVE Typed
  OBVIOUS
<1>1. NoSlot \in SlotRecords
  BY Constants DEF NoSlot, SlotRecords
<1>2. PoolTypeOK
  BY <1>1, Unbegun, Constants DEF Init, PoolTypeOK
<1>3. 0 \in HandedOver..N
  BY Constants DEF HandedOver
<1>4. NodesTyped
  BY <1>3, Constants DEF Init, NodesTyped, Statuses
<1>5. ClaimsTyped /\ PlansTyped /\ CountsTyped
  BY Constants DEF Init, ClaimsTyped, PlansTyped, CountsTyped
<1>6. ModeTyped /\ TickTyped
  BY DEF Init, ModeTyped, TickTyped, FlagSet, Phases
<1> QED
  BY <1>2, <1>4, <1>5, <1>6 DEF Typed

LEMMA AnsweredType ==
    ASSUME NEW r \in Children, NEW o \in Answers, NEW m \in {"ready", "wedged"}
    PROVE /\ [r EXCEPT !.task = 0, !.cancel = 0, !.mode = m, !.out = o] \in Children
          /\ [r EXCEPT !.task = 0, !.mode = m, !.out = o] \in Children
<1>1. 0 \in 0..N /\ 0 \in User..N
  BY Constants
<1> QED
  BY <1>1 DEF Children

\* A step of a worker process changes that process and the count of upsets.
LEMMA WorkerType ==
    ASSUME TypeOK, NEW c \in Ids, Worker(c)
    PROVE Typed'
<1>0. Typed
  BY SameType
<1>1. CountsTyped' /\ child' \in [Ids -> Children]
  <2>1. CASE Finish(c)
    <3>1. PICK s \in Ended : /\ Upset(IF s = "completed" \/ child[c].cancel # 0 THEN 0 ELSE 1)
                             /\ child' = [child EXCEPT ![c].task = 0, ![c].cancel = 0, ![c].mode = "ready",
                                                       ![c].out = [node |-> child[c].task, status |-> s]]
      BY <2>1 DEF Finish, Ended
    <3>2. [node |-> child[c].task, status |-> s] \in Answers
      BY <1>0 DEF Typed, PoolTypeOK, Children, Answers, Ended
    <3>3. child' = [child EXCEPT ![c] = [child[c] EXCEPT !.task = 0, !.cancel = 0, !.mode = "ready",
                                          !.out = [node |-> child[c].task, status |-> s]]]
      BY <1>0, <3>1 DEF Typed, PoolTypeOK
    <3>4. child' \in [Ids -> Children]
      BY <1>0, <3>2, <3>3, AnsweredType DEF Typed, PoolTypeOK
    <3>5. upsets' \in 0..MaxUpsets
      BY <1>0, <3>1, UpsetType DEF Typed
    <3> QED
      BY <1>0, <2>1, <3>4, <3>5 DEF Typed, CountsTyped, Finish
  <2>2. CASE Wedge(c)
    <3>1. [node |-> child[c].task, status |-> "blocked"] \in Answers
      BY <1>0 DEF Typed, PoolTypeOK, Children, Answers, Ended
    <3>2. child' = [child EXCEPT ![c] = [child[c] EXCEPT !.task = 0, !.mode = "wedged",
                                          !.out = [node |-> child[c].task, status |-> "blocked"]]]
      BY <1>0, <2>2 DEF Typed, PoolTypeOK, Wedge
    <3>3. child' \in [Ids -> Children]
      BY <1>0, <3>1, <3>2, AnsweredType DEF Typed, PoolTypeOK
    <3> QED
      BY <1>0, <2>2, <3>3, UpsetType DEF Wedge, Typed, CountsTyped
  <2>3. CASE Die(c)
    <3>1. PICK said \in {child[c].out} \cup {[node |-> 0, status |-> "crash"]} :
             child' = [child EXCEPT ![c] = [Unborn EXCEPT !.run = "dead", !.out = said]]
      BY <2>3 DEF Die
    <3>2. said \in Answers
      BY <1>0, Constants DEF Typed, PoolTypeOK, Children, Answers
    <3>3. [Unborn EXCEPT !.run = "dead", !.out = said] \in Children
      BY <3>2, Unbegun DEF Children
    <3>4. child' \in [Ids -> Children]
      BY <1>0, <3>1, <3>3 DEF Typed, PoolTypeOK
    <3> QED
      BY <1>0, <2>3, <3>4, UpsetType DEF Die, Typed, CountsTyped
  <2> QED
    BY <2>1, <2>2, <2>3 DEF Worker
<1>2. UNCHANGED <<nodeVars, plans, slot, spawned, owner, dup, mode, flags, handing, tickVars, lives>>
  BY DEF Worker, Finish, Wedge, Die
<1> QED
  BY <1>0, <1>1, <1>2 DEF Typed, NodesTyped, PoolTypeOK, ClaimsTyped, PlansTyped, ModeTyped, TickTyped,
     nodeVars, tickVars

LEMMA OrderType ==
    ASSUME TypeOK, Order
    PROVE Typed'
<1>0. Typed
  BY SameType
<1> USE <1>0 DEF Typed, NodesTyped, PoolTypeOK, ClaimsTyped, PlansTyped, ModeTyped, TickTyped, nodeVars, poolVars, tickVars
<1>1. CASE Start
  BY <1>1, StartingType DEF Start, FlagSet, Phases, CountsTyped
<1>2. CASE \E p \in Plans : Submit(p)
  BY <1>2 DEF Submit, Statuses, Phases, CountsTyped
<1>3. CASE CancelTask
  BY <1>3, CancelledType, UpsetType, Constants DEF CancelTask, CountsTyped
<1>4. CASE Pause
  <2>1. \A c \in Ids : [child[c] EXCEPT !.mode = "paused"] \in Children
    BY DEF Children
  <2> QED
    BY <1>4, <2>1, UpsetType DEF Pause, CountsTyped
<1>5. CASE Resume
  <2>1. \A c \in Ids : [child[c] EXCEPT !.mode = "ready"] \in Children
    BY DEF Children
  <2> QED
    BY <1>5, <2>1, UpsetType DEF Resume, CountsTyped
<1>6. CASE Stop
  <2>1. upsets' \in 0..MaxUpsets
    BY <1>6, UpsetType DEF Stop
  <2>2. CASE Finalize /\ UNCHANGED owner
    BY <1>6, <2>1, <2>2, FinalizeType DEF Stop, FlagSet, CountsTyped
  <2>3. CASE Workers # {}
    <3>0. /\ flags' = [intentional |-> TRUE, latched |-> TRUE, ticking |-> FALSE, stopping |-> TRUE]
          /\ mode' = "stopping" /\ status' = Abandoned(status)
          /\ result' = [n \in Nodes |-> IF status[n] = "running" THEN 0 ELSE result[n]]
          /\ owner' = Released(owner, Slots)
          /\ child' = [c \in Ids |-> IF c \in Processes(Workers) /\ child[c].run = "alive"
                                     THEN [child[c] EXCEPT !.run = "quitting"] ELSE child[c]]
          /\ UNCHANGED <<slot, worker, attempts, plans, spawned, dup, handing, tickVars, lives>>
      BY <1>6, <2>3 DEF Stop
    <3>1. \A c \in Ids : [child[c] EXCEPT !.run = "quitting"] \in Children
      BY DEF Children
    <3>2. PoolTypeOK'
      BY <3>0, <3>1
    <3>3. Abandoned(status) \in [Nodes -> Statuses]
      BY DEF Abandoned, Statuses, Ended
    <3>4. 0 \in HandedOver..N
      BY Constants DEF HandedOver
    <3>5. NodesTyped'
      BY <3>0, <3>3, <3>4
    <3>6. ClaimsTyped'
      BY <3>0, ReleasedType
    <3> QED
      BY <2>1, <3>0, <3>2, <3>5, <3>6 DEF FlagSet, CountsTyped
  <2> QED
    BY <1>6, <2>2, <2>3 DEF Stop
<1>7. CASE TakeOver
  <2>1. upsets' \in 0..MaxUpsets
    BY <1>7, UpsetType DEF TakeOver
  <2>2. UNCHANGED <<worker, attempts, plans, spawned, owner, dup, tickVars, lives>>
    BY <1>7 DEF TakeOver
  <2>3. CASE Workers = {}
    <3>1. HandOver(Running)
      BY <1>7, <2>3 DEF TakeOver
    <3>2. [on |-> FALSE, nodes |-> {}] \in [on : BOOLEAN, nodes : SUBSET Nodes]
      OBVIOUS
    <3> QED
      BY <2>1, <2>2, <3>1, <3>2, HandOverType DEF FlagSet, CountsTyped
  <2>4. CASE Workers # {}
    <3>0. /\ handing' = [on |-> TRUE, nodes |-> Running]
          /\ child' = [c \in Ids |-> IF c \in Processes(Workers) /\ child[c].mode # "wedged"
                                     THEN [child[c] EXCEPT !.mode = "handoff"] ELSE child[c]]
          /\ UNCHANGED <<status, result, slot, flags, mode>>
      BY <1>7, <2>4 DEF TakeOver
    <3>1. \A c \in Ids : [child[c] EXCEPT !.mode = "handoff"] \in Children
      BY DEF Children
    <3>2. PoolTypeOK'
      BY <2>2, <3>0, <3>1
    <3>3. Running \in SUBSET Nodes
      BY DEF Running
    <3> QED
      BY <2>1, <2>2, <3>0, <3>2, <3>3 DEF CountsTyped
  <2> QED
    BY <2>3, <2>4
<1>8. CASE ClearHandoff
  BY <1>8 DEF ClearHandoff, CountsTyped
<1> QED
  BY <1>1, <1>2, <1>3, <1>4, <1>5, <1>6, <1>7, <1>8 DEF Order

LEMMA FinishedType ==
    ASSUME TypeOK, NEW n \in Nodes, NEW outcome \in Ended
    PROVE Finished(n, outcome) \in [Nodes -> Statuses]
<1>1. status \in [Nodes -> Statuses]
  BY DEF TypeOK, Statuses
<1> QED
  BY <1>1 DEF Finished, Blocking, Statuses, Ended

LEMMA ExitReportedType ==
    ASSUME TypeOK, NEW c \in Ids, ExitReported(c)
    PROVE Typed'
<1>0. Typed
  BY SameType
<1> USE DEF NodesTyped, PoolTypeOK, ClaimsTyped, PlansTyped, ModeTyped, TickTyped, CountsTyped
<1>1. /\ NodesTyped /\ PoolTypeOK /\ ClaimsTyped /\ PlansTyped /\ ModeTyped /\ TickTyped /\ CountsTyped
  BY <1>0 DEF Typed
<1>2. UNCHANGED <<plans, spawned, dup, flags, handing, todo, queue, room, lives, upsets>>
  BY DEF ExitReported
<1>3. child' \in [Ids -> Children]
  <2>1. [Unborn EXCEPT !.run = "gone"] \in Children
    BY Unbegun DEF Children
  <2> QED
    BY <1>1, <2>1 DEF ExitReported
<1>4. CASE slot[c].child = 0
  <2>1. UNCHANGED <<nodeVars, slot, owner, mode, phase>>
    BY <1>4 DEF ExitReported
  <2> QED
    BY <1>1, <1>2, <1>3, <2>1 DEF Typed, nodeVars
<1>5. CASE slot[c].child # 0
  <2> DEFINE n == NodeOf(c)
             st == IF n = 0 THEN status ELSE Finished(n, "failed")
             expected == \/ slot[c].expected \/ flags.latched \/ flags.intentional
                         \/ (n = 0 /\ mode \in {"stopping", "off", "handoff"})
             own == Released(owner, {c})
  <2>1. /\ slot' = [slot EXCEPT ![c] = NoSlot]
        /\ worker' = IF n # 0 /\ Retryable(n, "failed") THEN [worker EXCEPT ![n] = 0] ELSE worker
        /\ result' = [m \in Nodes |-> IF m = n \/ (~expected /\ st[m] = "running") THEN 0
                                      ELSE result[m]]
        /\ phase' = IF flags.stopping /\ Workers \ {c} = {} THEN "stop" ELSE "rest"
        /\ UNCHANGED attempts
    BY <1>5 DEF ExitReported
  <2>2. \/ /\ status' = st /\ owner' = own
           /\ mode' = IF n = 0 /\ mode = "handoff" THEN mode
                      ELSE IF flags.intentional \/ (n = 0 /\ mode = "stopping") THEN "off"
                      ELSE "on"
        \/ Crashed(st, own, Slots \ {c})
    BY <1>5 DEF ExitReported
  <2>3. NoSlot \in SlotRecords
    BY Constants DEF NoSlot, SlotRecords
  <2>4. st \in [Nodes -> Statuses]
    <3>1. CASE n = 0
      BY <1>1, <3>1
    <3>2. CASE n # 0
      BY <3>2, NodeOfRuns, FinishedType DEF Running, Ended
    <3> QED
      BY <3>1, <3>2
  <2>5. own \in [Files -> 0..MaxSpawns]
    BY <1>1, ReleasedType
  <2>6. status' \in [Nodes -> Statuses] /\ owner' \in [Files -> 0..MaxSpawns]
    <3> HIDE DEF st, own
    <3> QED
      BY <2>2, <2>4, <2>5, CrashedType
  <2>7. 0 \in HandedOver..N /\ 0 \in 0..MaxSpawns
    BY Constants DEF HandedOver
  <2>8. result' \in [Nodes -> HandedOver..N] /\ worker' \in [Nodes -> 0..MaxSpawns]
    <3> HIDE DEF n, st, expected
    <3> QED
      BY <1>1, <2>1, <2>7
  <2>9. mode' \in {"off", "on", "stopping", "handoff"}
    BY <1>1, <2>2 DEF Crashed
  <2>10. phase' \in Phases
    BY <2>1 DEF Phases
  <2>11. slot' \in [Ids -> SlotRecords]
    BY <1>1, <2>1, <2>3
  <2> QED
    <3> HIDE DEF n, st, expected, own
    <3> QED
      BY <1>1, <1>2, <1>3, <2>1, <2>6, <2>8, <2>9, <2>10, <2>11 DEF Typed
<1> QED
  BY <1>4, <1>5

LEMMA ResultReportedType ==
    ASSUME TypeOK, NEW c \in Ids, ResultReported(c)
    PROVE Typed'
<1>0. Typed
  BY SameType
<1> USE DEF NodesTyped, PoolTypeOK, ClaimsTyped, PlansTyped, ModeTyped, TickTyped, CountsTyped
<1>1. /\ NodesTyped /\ PoolTypeOK /\ ClaimsTyped /\ PlansTyped /\ ModeTyped /\ TickTyped /\ CountsTyped
  BY <1>0 DEF Typed
<1> DEFINE n == IF slot[c].child = 0 THEN 0 ELSE NodeOf(c)
           outcome == child[c].out.status
           won == n # 0 /\ dup[n] # 0 /\ outcome = "completed"
           read == [child EXCEPT ![c].out = NoOut]
<1>2. /\ outcome \in Ended
      /\ slot' = IF slot[c].child = 0 THEN slot ELSE [slot EXCEPT ![c].task = 0]
      /\ owner' = IF slot[c].child = 0 THEN owner ELSE Released(owner, {c})
      /\ child' = [k \in Ids |-> IF won /\ dup[n] # c /\ k = slot[dup[n]].child /\ child[k].task # 0
                                 THEN [read[k] EXCEPT !.cancel = n] ELSE read[k]]
      /\ dup' = IF won THEN [dup EXCEPT ![n] = 0] ELSE dup
      /\ IF n = 0 THEN UNCHANGED <<status, worker, result, mode, phase>>
         ELSE FinishNode(n, c, outcome, child[c].out.node) /\ mode' = "on" /\ phase' = "tick"
      /\ UNCHANGED <<attempts, plans, spawned, flags, handing, todo, queue, room, lives, upsets>>
  BY DEF ResultReported
<1>3. n # 0 => n \in Nodes
  BY NodeOfRuns DEF Running
<1>4. slot' \in [Ids -> SlotRecords]
  <2>1. \A s \in SlotRecords : [s EXCEPT !.task = 0] \in SlotRecords
    BY Constants DEF SlotRecords
  <2> QED
    BY <1>1, <1>2, <2>1
<1>5. owner' \in [Files -> 0..MaxSpawns] /\ dup' \in [Nodes -> 0..MaxSpawns]
  BY <1>1, <1>2, ReleasedType, Constants
<1>6. child' \in [Ids -> Children]
  <2>1. NoOut \in Answers
    BY Constants DEF NoOut, Answers
  <2>2. \A k \in Ids : [child[k] EXCEPT !.out = NoOut] \in Children
    BY <1>1, <2>1 DEF Children
  <2>3. read \in [Ids -> Children]
    BY <1>1, <2>2
  <2>4. ASSUME NEW k \in Ids, n # 0 PROVE [read[k] EXCEPT !.cancel = n] \in Children
    <3>1. n \in User..N
      BY <1>3, <2>4, Constants
    <3> HIDE DEF n, read
    <3> QED
      BY <2>3, <3>1 DEF Children
  <2> QED
    <3> HIDE DEF n, read
    <3> QED
      BY <1>2, <2>3, <2>4
<1>7. NodesTyped' /\ mode' \in {"off", "on", "stopping", "handoff"} /\ phase' \in Phases
  <2>1. CASE n = 0
    BY <1>1, <1>2, <2>1
  <2>2. CASE n # 0
    <3>1. child[c].out.node \in HandedOver..N
      <4>1. child[c].out \in Answers
        BY <1>1 DEF Children
      <4> QED
        BY <4>1, Constants DEF Answers, HandedOver
    <3>2. FinishNode(n, c, outcome, child[c].out.node) /\ n \in Nodes /\ c \in 0..MaxSpawns
      BY <1>2, <1>3, <2>2, Constants
    <3> HIDE DEF n, outcome
    <3>3. /\ status' \in [Nodes -> Statuses] /\ worker' \in [Nodes -> 0..MaxSpawns]
          /\ result' \in [Nodes -> HandedOver..N]
      BY <1>2, <3>1, <3>2, FinishNodeType
    <3> QED
      BY <1>1, <1>2, <2>2, <3>3 DEF Phases
  <2> QED
    BY <2>1, <2>2
<1> QED
  BY <1>1, <1>2, <1>4, <1>5, <1>6, <1>7 DEF Typed

LEMMA CrashReportedType ==
    ASSUME TypeOK, NEW c \in Ids, CrashReported(c)
    PROVE Typed'
<1>0. Typed
  BY SameType
<1> USE DEF NodesTyped, PoolTypeOK, ClaimsTyped, PlansTyped, ModeTyped, TickTyped, CountsTyped
<1>1. /\ NodesTyped /\ PoolTypeOK /\ ClaimsTyped /\ PlansTyped /\ ModeTyped /\ TickTyped /\ CountsTyped
  BY <1>0 DEF Typed
<1>2. child' \in [Ids -> Children]
  <2>1. NoOut \in Answers
    BY Constants DEF NoOut, Answers
  <2>2. \A k \in Ids : [child[k] EXCEPT !.out = NoOut] \in Children
    BY <1>1, <2>1 DEF Children
  <2> QED
    BY <1>1, <2>2 DEF CrashReported
<1>3. UNCHANGED <<worker, attempts, plans, slot, spawned, dup, flags, handing, tickVars, lives, upsets>>
  BY DEF CrashReported
<1>4. CASE UNCHANGED <<status, result, owner, mode>>
  BY <1>1, <1>2, <1>3, <1>4 DEF Typed, tickVars
<1>5. CASE /\ Crashed(status, owner, Slots)
           /\ result' = [n \in Nodes |-> IF status[n] = "running" THEN 0 ELSE result[n]]
  <2>1. 0 \in HandedOver..N
    BY Constants DEF HandedOver
  <2>2. /\ status' \in [Nodes -> Statuses] /\ owner' \in [Files -> 0..MaxSpawns] /\ mode' = "on"
    BY <1>1, <1>5, CrashedType
  <2> QED
    BY <1>1, <1>2, <1>3, <1>5, <2>1, <2>2 DEF Typed, tickVars
<1> QED
  BY <1>4, <1>5 DEF CrashReported

-------------------------------------------------------------------------------
(* What the handlers keep between them. The lists a tick works on stay true while *)
(* it works on them (LoopOK), since every other handler waits for its end.        *)

LoopOK ==
    /\ phase = "health" => todo \subseteq Ids /\ ~flags.intentional
    /\ phase = "pick" => \A n \in todo : /\ n \in Nodes /\ status[n] = "pending"
                                         /\ \A d \in Deps[n] : status[d] = "completed"
    /\ phase = "duplicate" => \A n \in todo : /\ n \in Nodes /\ status[n] = "running"
                                              /\ n \in Speculative /\ dup[n] \in Ids

\* A plan is unknown until it is submitted, a takeover captures nodes that run, and what
\* it took back stays blocked.
LifeOK ==
    /\ \A n \in Nodes : plans[Plan[n]] = "absent" => status[n] = "absent"
    /\ \A n \in handing.nodes : status[n] # "absent"
    /\ \A n \in Nodes : result[n] = HandedOver => status[n] = "blocked"

\* A queued node has an attempt left; a running one that has no duplicate yet has the
\* duplicate's left.
Duplicable(n) == dup[n] = 0 \/ (phase = "duplicate" /\ n \in todo)
AttemptsOK ==
    \A n \in Nodes :
        /\ status[n] \in {"absent", "pending"} => attempts[n] < MaxAttempts
        /\ status[n] = "running" /\ Duplicable(n) =>
               attempts[n] <= MaxAttempts + (IF n \in Speculative THEN lives ELSE 0)

IInv ==
    /\ TypeOK /\ LoopOK /\ LifeOK
    /\ AttemptsOK /\ AttemptsBounded
    /\ SamePlanDisjoint /\ DependenciesDone

LEMMA ReplaceType ==
    ASSUME TypeOK, NEW w \in Ids, Replace(w)
    PROVE PoolTypeOK'
<1>1. NoSlot \in SlotRecords
  BY Constants DEF NoSlot, SlotRecords
<1>2. Killed({slot[w].child}) \in [Ids -> Children]
  BY PoolType, KilledType DEF PoolTypeOK
<1>3. CASE /\ slot' = [slot EXCEPT ![w] = NoSlot]
           /\ child' = Killed({slot[w].child})
           /\ UNCHANGED spawned
  BY <1>1, <1>2, <1>3, PoolType DEF PoolTypeOK
<1>4. CASE /\ spawned < MaxSpawns
           /\ spawned' = spawned + 1
           /\ slot' = [slot EXCEPT ![w] = [child |-> spawned + 1, task |-> 0, expected |-> FALSE]]
           /\ child' = [Killed({slot[w].child}) EXCEPT ![spawned + 1].run = "alive"]
  <2>1. /\ [child |-> spawned + 1, task |-> 0, expected |-> FALSE] \in SlotRecords
        /\ spawned + 1 \in 0..MaxSpawns
    BY <1>4, SpawnType, Constants
  <2>2. \A c \in Ids : [Killed({slot[w].child})[c] EXCEPT !.run = "alive"] \in Children
    BY <1>2 DEF Children
  <2>3. child' \in [Ids -> Children]
    BY <1>2, <1>4, <2>2
  <2> QED
    BY <1>4, <2>1, <2>3, PoolType DEF PoolTypeOK
<1> QED
  BY <1>3, <1>4 DEF Replace

LEMMA TickType ==
    ASSUME TypeOK, Tick
    PROVE Typed'
<1>0. Typed
  BY SameType
<1>1. PoolTypeOK'
  <2>1. CASE UNCHANGED poolVars
    BY <1>0, <2>1 DEF Typed, PoolTypeOK, poolVars
  <2>2. CASE EnsureSize
    BY <2>2, EnsureSizeType
  <2> QED
    BY <2>1, <2>2 DEF Tick
<1>2. PICK silent \in SUBSET Ids :
         /\ Upset(Cardinality(silent))
         /\ todo' = silent \cup {w \in Ids : slot'[w].child # 0 /\ child'[slot'[w].child].run = "gone"}
  BY DEF Tick
<1>3. Cardinality(silent) \in Nat
  <2>1. IsFiniteSet(Ids)
    BY FS_Interval, Constants
  <2>2. IsFiniteSet(silent)
    BY <2>1, FS_Subset
  <2> QED
    BY <2>2, FS_CardinalityType
<1>4. upsets' \in 0..MaxUpsets
  BY <1>0, <1>2, <1>3, UpsetType DEF Typed
<1>5. TickTyped'
  <2>1. todo' \in SUBSET (Nodes \cup Ids)
    BY <1>2
  <2>2. Active \in SUBSET Plans
    BY DEF Active
  <2>3. queue' \in SUBSET Plans /\ phase' \in Phases
    BY <2>2 DEF Tick, Phases
  <2>4. UNCHANGED room
    BY DEF Tick
  <2> QED
    BY <1>0, <2>1, <2>3, <2>4 DEF Typed, TickTyped
<1>6. UNCHANGED <<nodeVars, plans, owner, dup, mode, flags, handing, lives>>
  BY DEF Tick
<1> QED
  BY <1>0, <1>1, <1>4, <1>5, <1>6 DEF Typed, NodesTyped, ClaimsTyped, PlansTyped, ModeTyped, CountsTyped, nodeVars

\* A duplicate is given to an idle worker.
LEMMA ChosenDuplicate ==
    ASSUME NEW p, NEW n \in Uncertain(p)
    PROVE Min(Idle \ {worker[n]}) \in Ids
<1>1. Idle \ {worker[n]} # {}
  BY DEF Uncertain
<1>2. Idle \in SUBSET Ids /\ Idle \in SUBSET Nat
  BY Constants DEF Idle, Workers
<1> QED
  BY <1>1, <1>2, LeastIsIn

LEMMA LoopType ==
    ASSUME TypeOK, LoopOK, Loop
    PROVE Typed'
<1>0. Typed
  BY SameType
<1> USE <1>0 DEF Typed, NodesTyped, PoolTypeOK, ClaimsTyped, PlansTyped, ModeTyped, TickTyped, CountsTyped, nodeVars, poolVars
<1>1. CASE TickRefused
  BY <1>1 DEF TickRefused, Phases
<1>2. CASE TickRecovers
  BY <1>2, StartingType DEF TickRecovers, FlagSet, Phases
<1>3. CASE Tick
  BY <1>3, TickType
<1>4. CASE Health
  <2> DEFINE w == Min(todo)
             n == NodeOf(w)
  <2>1. /\ IF n = 0 THEN UNCHANGED <<status, worker, result, mode>>
           ELSE FinishNode(n, w, "failed", 0) /\ mode' = "on"
        /\ Replace(w)
        /\ todo' = todo \ {w}
        /\ phase' = IF todo' = {} THEN "dispatch" ELSE "health"
        /\ UNCHANGED <<attempts, plans, owner, dup, flags, handing, queue, room, lives, upsets>>
    BY <1>4 DEF Health
  <2>2. w \in Ids
    <3>1. todo \in SUBSET Ids /\ todo \in SUBSET Nat /\ todo # {}
      BY <1>4, Constants DEF Health, LoopOK
    <3> QED
      BY <3>1, LeastIsIn
  <2>3. PoolTypeOK'
    BY <2>1, <2>2, ReplaceType
  <2>4. NodesTyped' /\ mode' \in {"off", "on", "stopping", "handoff"}
    <3>1. CASE n = 0
      BY <2>1, <3>1
    <3>2. CASE n # 0
      <4>1. n \in Nodes /\ w \in 0..MaxSpawns /\ 0 \in HandedOver..N /\ "failed" \in Ended
        BY <2>2, <3>2, NodeOfRuns, Constants DEF Running, HandedOver, Ended
      <4>2. FinishNode(n, w, "failed", 0)
        BY <2>1, <3>2
      <4> HIDE DEF n, w
      <4> QED
        BY <2>1, <3>2, <4>1, <4>2, FinishNodeType
    <3> QED
      BY <3>1, <3>2
  <2>5. todo' \in SUBSET (Nodes \cup Ids) /\ phase' \in Phases
    BY <2>1 DEF Phases
  <2> QED
    BY <2>1, <2>3, <2>4, <2>5
<1>5. CASE EnterPlan
  <2>1. Blocking(status, Doomed(status, Min(queue))) \in [Nodes -> Statuses]
    BY DEF Blocking, Statuses, Ended
  <2>2. Runnable(Min(queue)) \in SUBSET Nodes
    BY DEF Runnable
  <2>3. (Cardinality(Idle) + 1) \div 2 \in Nat
    <3>1. IsFiniteSet(Ids)
      BY FS_Interval, Constants
    <3>2. Idle \in SUBSET Ids
      BY DEF Idle, Workers
    <3>3. Cardinality(Idle) \in Nat
      BY <3>1, <3>2, FS_Subset, FS_CardinalityType
    <3> QED
      BY <3>3
  <2> QED
    BY <1>5, <2>1, <2>2, <2>3 DEF EnterPlan, Phases
<1>6. CASE \E n \in Nodes : Duplicate(n)
  <2>1. PICK n \in Nodes : Duplicate(n)
    BY <1>6
  <2>2. Dispatch(n, dup[n], TRUE) /\ dup[n] \in Ids
    BY <2>1 DEF Duplicate, LoopOK
  <2>3. /\ todo' \in SUBSET (Nodes \cup Ids) /\ phase' \in Phases /\ queue' \in SUBSET Plans
        /\ UNCHANGED <<plans, spawned, dup, flags, handing, room, lives>>
    BY <2>1 DEF Duplicate, NextPlan, Phases
  <2> QED
    BY <2>2, <2>3, DispatchType
<1>7. CASE \E n \in Nodes, w \in Ids : Pick(n, w)
  <2>1. PICK n \in Nodes, w \in Ids : Pick(n, w)
    BY <1>7
  <2>2. Dispatch(n, w, FALSE)
    BY <2>1 DEF Pick
  <2>3. room' \in Nat
    BY <2>1 DEF Pick
  <2>4. /\ phase' \in Phases /\ todo' \in SUBSET (Nodes \cup Ids)
        /\ UNCHANGED <<plans, spawned, dup, flags, handing, queue, lives>>
    BY <2>1 DEF Pick
  <2> QED
    BY <2>2, <2>3, <2>4, DispatchType
<1>8. CASE PickEnds
  <2>1. Uncertain(Min(queue)) \in SUBSET Nodes
    BY DEF Uncertain, Running
  <2> DEFINE chosen == Uncertain(Min(queue))
  <2>2. /\ todo' = chosen
        /\ dup' = [n \in Nodes |-> IF n \in chosen THEN Min(Idle \ {worker[n]}) ELSE dup[n]]
        /\ IF chosen = {} THEN NextPlan ELSE phase' = "duplicate" /\ UNCHANGED queue
        /\ room' = 0
        /\ UNCHANGED <<nodeVars, plans, poolVars, owner, mode, flags, handing, lives, upsets>>
    BY <1>8 DEF PickEnds
  <2>3. \A n \in chosen : Min(Idle \ {worker[n]}) \in Ids
    BY ChosenDuplicate
  <2>4. dup' \in [Nodes -> 0..MaxSpawns]
    BY <2>2, <2>3, Constants
  <2>5. phase' \in Phases /\ queue' \in SUBSET Plans
    BY <2>2 DEF NextPlan, Phases
  <2> QED
    BY <2>1, <2>2, <2>4, <2>5
<1>9. CASE TickEnds
  BY <1>9 DEF TickEnds, Phases
<1> QED
  BY <1>1, <1>2, <1>3, <1>4, <1>5, <1>6, <1>7, <1>8, <1>9 DEF Loop

LEMMA StopEndsType == ASSUME TypeOK, StopEnds PROVE Typed'
BY SameType, FinalizeType
DEF StopEnds, Typed, NodesTyped, PoolTypeOK, ClaimsTyped, PlansTyped, ModeTyped, TickTyped, CountsTyped, FlagSet, Phases

LEMMA TakeOverEndsType == ASSUME TypeOK, TakeOverEnds PROVE Typed'
<1>1. Typed
  BY SameType
<1>2. [on |-> FALSE, nodes |-> {}] \in [on : BOOLEAN, nodes : SUBSET Nodes]
  OBVIOUS
<1>3. /\ slot' \in [Ids -> SlotRecords] /\ child' \in [Ids -> Children]
      /\ status' \in [Nodes -> Statuses] /\ result' \in [Nodes -> HandedOver..N]
      /\ flags' \in FlagSet
      /\ mode' = "handoff" /\ handing' = [on |-> FALSE, nodes |-> {}]
  BY HandOverType DEF TakeOverEnds, FlagSet
<1>4. UNCHANGED <<worker, attempts, plans, spawned, owner, dup, tickVars, lives, upsets>>
  BY DEF TakeOverEnds
<1> QED
  BY <1>1, <1>2, <1>3, <1>4
  DEF Typed, NodesTyped, PoolTypeOK, ClaimsTyped, PlansTyped, ModeTyped, TickTyped, CountsTyped, tickVars

LEMMA CrashType == ASSUME TypeOK, Crash PROVE Typed'
<1>1. Typed
  BY SameType
<1>2. /\ lives < MaxLives /\ lives' = lives + 1
      /\ plans' = [p \in Plans |-> IF plans[p] = "active" /\ Dropped(p) THEN "lost" ELSE plans[p]]
      /\ slot' = [w \in Ids |-> NoSlot] /\ child' = [w \in Ids |-> Unborn] /\ spawned' = 0
      /\ dup' = [n \in Nodes |-> 0]
      /\ mode' = IF mode = "stopping" THEN "off" ELSE mode
      /\ flags' = [intentional |-> FALSE, latched |-> FALSE, ticking |-> FALSE, stopping |-> FALSE]
      /\ handing' = [on |-> FALSE, nodes |-> {}]
      /\ UNCHANGED <<nodeVars, owner, tickVars>>
  BY DEF Crash
<1>3. CountsTyped'
  <2>1. lives' \in 0..MaxLives
    BY <1>1, <1>2, Constants DEF Typed, CountsTyped
  <2>2. upsets' \in 0..MaxUpsets
    BY <1>1, UpsetType DEF Typed, Crash
  <2> QED
    BY <2>1, <2>2 DEF CountsTyped
<1>4. PoolTypeOK'
  <2>1. NoSlot \in SlotRecords
    BY Constants DEF NoSlot, SlotRecords
  <2> QED
    BY <1>2, <2>1, Unbegun, Constants DEF PoolTypeOK
<1>5. ClaimsTyped' /\ NodesTyped'
  BY <1>1, <1>2, Constants DEF Typed, ClaimsTyped, NodesTyped, nodeVars
<1>6. PlansTyped'
  BY <1>1, <1>2 DEF Typed, PlansTyped
<1>7. ModeTyped'
  BY <1>1, <1>2 DEF Typed, ModeTyped, FlagSet
<1>8. TickTyped'
  BY <1>1, <1>2 DEF Typed, TickTyped, tickVars
<1> QED
  BY <1>3, <1>4, <1>5, <1>6, <1>7, <1>8 DEF Typed

LEMMA TypedNext == Typed' => TypeOK'
BY DEF TypeOK, Typed, NodesTyped, PoolTypeOK, ClaimsTyped, PlansTyped, ModeTyped, TickTyped,
       CountsTyped, FlagSet, Phases, Statuses, SlotRecords, Children, Answers

LEMMA StepType == ASSUME TypeOK, LoopOK, [Next]_vars PROVE TypeOK'
<1>1. CASE UNCHANGED vars
  BY <1>1 DEF TypeOK, vars, nodeVars, poolVars, tickVars, Ended, User, HandedOver
<1>2. CASE Next
  BY <1>2, SameType, WorkerType, ExitReportedType, ResultReportedType, CrashReportedType, OrderType,
     StopEndsType, TakeOverEndsType, CrashType, LoopType, TypedNext DEF Next, Callback
<1> QED
  BY <1>1, <1>2

-------------------------------------------------------------------------------
(* Every handler but submitPlan, takeOver and a dispatch settles nodes: it leaves *)
(* one alone, ends it, or queues a running one that has an attempt left.          *)

Settles ==
    /\ UNCHANGED attempts
    /\ \A n \in Nodes :
        /\ \/ status'[n] = status[n]
           \/ status[n] = "pending" /\ status'[n] = "blocked"
           \/ status[n] = "running" /\ status'[n] \in Ended
           \/ status[n] = "running" /\ status'[n] = "pending" /\ attempts[n] < MaxAttempts
        /\ result'[n] = HandedOver <=> result[n] = HandedOver

\* What it must leave alone besides.
Steady ==
    /\ \A p \in Plans : plans'[p] = "absent" => plans[p] = "absent"
    /\ handing'.nodes \subseteq handing.nodes \cup Running
    /\ lives' = lives
    /\ \A n \in Nodes : status'[n] = "running" /\ Duplicable(n)' => Duplicable(n)

NodesKept == LifeOK /\ AttemptsOK /\ AttemptsBounded /\ SamePlanDisjoint /\ DependenciesDone

\* A completed node stays so, unless a takeover that captured it is at its end.
Final == \A n \in Nodes : status[n] = "completed" /\ status'[n] # "completed" =>
                             handing.on /\ n \in handing.nodes
Kept == NodesKept' /\ Final

LEMMA SettlesKeeps ==
    ASSUME IInv, Settles, Steady
    PROVE Kept
<1>0. /\ attempts \in [Nodes -> Nat] /\ lives \in Nat /\ handing.nodes \subseteq Nodes
      /\ \A n \in Nodes : Deps[n] \subseteq Nodes /\ Plan[n] \in Plans
  BY Constants, SubWorkerAssumption DEF IInv, TypeOK, Nodes
<1>1. LifeOK'
  <2>1. \A n \in Nodes : plans'[Plan[n]] = "absent" => status'[n] = "absent"
    BY <1>0 DEF IInv, LifeOK, Settles, Steady
  <2>2. \A n \in handing'.nodes : status'[n] # "absent"
    BY <1>0 DEF IInv, LifeOK, Settles, Steady, Running, Ended
  <2>3. \A n \in Nodes : result'[n] = HandedOver => status'[n] = "blocked"
    BY DEF IInv, LifeOK, Settles
  <2> QED
    BY <2>1, <2>2, <2>3 DEF LifeOK
<1>2. AttemptsOK'
  <2> SUFFICES ASSUME NEW n \in Nodes
               PROVE /\ status'[n] \in {"absent", "pending"} => attempts'[n] < MaxAttempts
                     /\ status'[n] = "running" /\ Duplicable(n)' =>
                            attempts'[n] <= MaxAttempts + (IF n \in Speculative THEN lives' ELSE 0)
    BY DEF AttemptsOK
  <2>1. attempts' = attempts /\ lives' = lives
    BY DEF Settles, Steady
  <2>2. status'[n] \in {"absent", "pending"} => attempts[n] < MaxAttempts
    BY DEF IInv, AttemptsOK, Settles, Ended
  <2>3. status'[n] = "running" /\ Duplicable(n)' => status[n] = "running" /\ Duplicable(n)
    BY DEF Settles, Steady, Ended
  <2> QED
    BY <2>1, <2>2, <2>3 DEF IInv, AttemptsOK
<1>3. AttemptsBounded'
  BY DEF IInv, AttemptsBounded, Settles, Steady
<1>4. \A n \in Nodes : status'[n] = "running" => status[n] = "running"
  BY DEF Settles, Ended
<1>5. SamePlanDisjoint'
  BY <1>4 DEF IInv, SamePlanDisjoint, Running
<1>6. DependenciesDone'
  <2> SUFFICES ASSUME NEW n \in Nodes, status'[n] \in {"running", "completed"}, NEW d \in Deps[n]
               PROVE status'[d] = "completed" \/ result'[d] = HandedOver
    BY DEF DependenciesDone
  <2>1. status[n] \in {"running", "completed"} /\ d \in Nodes
    BY <1>0 DEF Settles, Ended
  <2>2. status[d] = "completed" \/ result[d] = HandedOver
    BY <2>1 DEF IInv, DependenciesDone
  <2> QED
    BY <2>1, <2>2 DEF Settles
<1> QED
  BY <1>1, <1>2, <1>3, <1>5, <1>6 DEF NodesKept, Kept, Final, Settles

LEMMA UnchangedSettles == ASSUME UNCHANGED nodeVars PROVE Settles
BY DEF nodeVars, Settles

\* finishNode of a node that runs, or that cannot be started.
LEMMA FinishSettles ==
    ASSUME TypeOK, LifeOK, NEW n \in Nodes, NEW w, NEW outcome \in Ended, NEW answers \in Nat,
           status[n] = "running" \/ (status[n] = "pending" /\ outcome = "blocked"),
           FinishNode(n, w, outcome, answers), UNCHANGED attempts
    PROVE Settles
<1>1. status \in [Nodes -> Statuses] /\ result \in [Nodes -> HandedOver..N]
  BY DEF TypeOK, Statuses
<1>2. ASSUME NEW m \in Nodes
      PROVE \/ Finished(n, outcome)[m] = status[m]
            \/ status[m] = "pending" /\ Finished(n, outcome)[m] = "blocked"
            \/ status[m] = "running" /\ Finished(n, outcome)[m] \in Ended
            \/ status[m] = "running" /\ Finished(n, outcome)[m] = "pending" /\ attempts[m] < MaxAttempts
  <2>1. CASE Retryable(n, outcome)
    BY <1>1, <2>1 DEF Finished, Retryable
  <2>2. CASE ~Retryable(n, outcome) /\ outcome = "completed"
    BY <1>1, <2>2 DEF Finished
  <2>3. CASE ~Retryable(n, outcome) /\ outcome # "completed"
    <3> DEFINE s == [status EXCEPT ![n] = outcome]
    <3>1. Finished(n, outcome) = Blocking(s, Doomed(s, Plan[n]))
      BY <2>3 DEF Finished
    <3>2. Finished(n, outcome)[m] = IF m \in Doomed(s, Plan[n]) THEN "blocked" ELSE s[m]
      BY <3>1 DEF Blocking
    <3>3. m \in Doomed(s, Plan[n]) => m # n /\ status[m] = "pending"
      BY <1>1 DEF Doomed, Ended
    <3> QED
      BY <1>1, <3>2, <3>3
  <2> QED
    BY <2>1, <2>2, <2>3
<1>3. \A m \in Nodes : result'[m] = HandedOver <=> result[m] = HandedOver
  <2>1. result' = [result EXCEPT ![n] = answers]
    BY DEF FinishNode
  <2>2. answers # HandedOver
    BY DEF HandedOver
  <2>3. result[n] # HandedOver
    BY DEF LifeOK
  <2> QED
    BY <1>1, <2>1, <2>2, <2>3
<1> QED
  BY <1>2, <1>3 DEF Settles, FinishNode

\* Outside the loop of a tick its lists are not in use.
LEMMA LoopIdle == phase' \notin {"health", "pick", "duplicate"} => LoopOK'
BY DEF LoopOK

LEMMA WorkerKeeps ==
    ASSUME IInv, NEW c \in Ids, phase = "rest", Worker(c)
    PROVE Kept /\ LoopOK'
<1>1. UNCHANGED <<nodeVars, plans, slot, spawned, owner, dup, mode, flags, handing, tickVars, lives>>
  BY DEF Worker, Finish, Wedge, Die
<1>2. Steady
  BY <1>1 DEF Steady, Duplicable, nodeVars, tickVars
<1>3. LoopOK'
  BY <1>1, LoopIdle DEF tickVars
<1> QED
  BY <1>1, <1>2, <1>3, UnchangedSettles, SettlesKeeps

LEMMA FinalizeSettles ==
    ASSUME IInv, Finalize, UNCHANGED attempts
    PROVE Settles
BY DEF IInv, TypeOK, LifeOK, Finalize, Settles, Ended, HandedOver

\* A dispatch that fails or is refused settles the node; one that starts it does not.
Starts(n) ==
    /\ status' = [status EXCEPT ![n] = "running"]
    /\ attempts' = [attempts EXCEPT ![n] = @ + 1]
    /\ UNCHANGED result

LEMMA DispatchSettles ==
    ASSUME TypeOK, LifeOK, NEW n \in Nodes, NEW w, NEW speculative \in BOOLEAN,
           status[n] \in {"pending", "running"},
           Dispatch(n, w, speculative)
    PROVE Settles \/ Starts(n)
<1>1. CASE FinishNode(n, w, "blocked", 0) /\ UNCHANGED attempts
  BY <1>1, FinishSettles DEF Ended
<1>2. CASE UNCHANGED nodeVars
  BY <1>2, UnchangedSettles
<1> QED
  BY <1>1, <1>2 DEF Dispatch, Starts

\* Starting a node that was queued, or once more one that runs.
LEMMA StartKeeps ==
    ASSUME IInv, NEW n \in Nodes, Starts(n),
           UNCHANGED <<plans, handing, lives, dup>>,
           \/ /\ status[n] = "pending" /\ ~Conflict(n)
              /\ \A d \in Deps[n] : status[d] = "completed"
              /\ phase' # "duplicate"
           \/ /\ status[n] = "running" /\ n \in Speculative /\ Duplicable(n) /\ ~Duplicable(n)'
              /\ \A m \in Nodes \ {n} : Duplicable(m)' => Duplicable(m)
    PROVE Kept
<1>0. /\ attempts \in [Nodes -> Nat] /\ lives \in Nat /\ handing.nodes \subseteq Nodes
      /\ status \in [Nodes -> Statuses] /\ result \in [Nodes -> HandedOver..N]
      /\ \A m \in Nodes : Deps[m] \subseteq Nodes /\ Plan[m] \in Plans
  BY Constants, SubWorkerAssumption DEF IInv, TypeOK, Nodes, Statuses
<1>1. /\ status' = [status EXCEPT ![n] = "running"] /\ attempts' = [attempts EXCEPT ![n] = @ + 1]
      /\ result' = result
  BY DEF Starts
<1>2. LifeOK'
  BY <1>0, <1>1 DEF IInv, LifeOK
<1>3. AttemptsBounded' /\ AttemptsOK'
  <2>1. CASE status[n] = "pending" /\ phase' # "duplicate"
    <3>1. attempts[n] < MaxAttempts
      BY <2>1 DEF IInv, AttemptsOK
    <3>2. \A m \in Nodes : Duplicable(m)' => Duplicable(m)
      BY <2>1 DEF Duplicable
    <3>3. AttemptsBounded'
      BY <1>0, <1>1, <3>1, Constants DEF IInv, AttemptsBounded
    <3>4. AttemptsOK'
      <4> SUFFICES ASSUME NEW m \in Nodes
                   PROVE /\ status'[m] \in {"absent", "pending"} => attempts'[m] < MaxAttempts
                         /\ status'[m] = "running" /\ Duplicable(m)' =>
                                attempts'[m] <= MaxAttempts + (IF m \in Speculative THEN lives' ELSE 0)
        BY DEF AttemptsOK
      <4>1. CASE m = n
        BY <1>0, <1>1, <3>1, <4>1, Constants
      <4>2. CASE m # n
        BY <1>0, <1>1, <3>2, <4>2 DEF IInv, AttemptsOK
      <4> QED
        BY <4>1, <4>2
    <3> QED
      BY <3>3, <3>4
  <2>2. CASE /\ status[n] = "running" /\ n \in Speculative /\ Duplicable(n) /\ ~Duplicable(n)'
             /\ \A m \in Nodes \ {n} : Duplicable(m)' => Duplicable(m)
    <3>1. attempts[n] <= MaxAttempts + lives
      BY <2>2 DEF IInv, AttemptsOK
    <3>2. AttemptsBounded'
      BY <1>0, <1>1, <2>2, <3>1, Constants DEF IInv, AttemptsBounded
    <3>3. AttemptsOK'
      BY <1>0, <1>1, <2>2 DEF IInv, AttemptsOK
    <3> QED
      BY <3>2, <3>3
  <2> QED
    BY <2>1, <2>2
<1>4. SamePlanDisjoint'
  <2>1. CASE status[n] = "pending" /\ ~Conflict(n)
    BY <1>0, <1>1, <2>1 DEF IInv, SamePlanDisjoint, Running, Conflict
  <2>2. CASE status[n] = "running"
    BY <1>0, <1>1, <2>2 DEF IInv, SamePlanDisjoint, Running
  <2> QED
    BY <2>1, <2>2
<1>5. DependenciesDone'
  <2> SUFFICES ASSUME NEW m \in Nodes, status'[m] \in {"running", "completed"}, NEW d \in Deps[m]
               PROVE status'[d] = "completed" \/ result'[d] = HandedOver
    BY DEF DependenciesDone
  <2>1. d \in Nodes
    BY <1>0
  <2>2. status[d] = "completed" \/ result[d] = HandedOver
    BY <1>0, <1>1 DEF IInv, DependenciesDone
  <2>3. status[d] = "completed" => d # n
    OBVIOUS
  <2> QED
    BY <1>0, <1>1, <2>1, <2>2, <2>3
<1>6. Final
  BY <1>0, <1>1 DEF Final
<1> QED
  BY <1>2, <1>3, <1>4, <1>5, <1>6 DEF NodesKept, Kept

\* takeOver: the nodes it captured are blocked and marked.
LEMMA HandOverKeeps ==
    ASSUME IInv, NEW captured \in SUBSET Nodes, \A n \in captured : status[n] # "absent",
           captured = Running \/ (handing.on /\ captured = handing.nodes),
           HandOver(captured), phase # "duplicate", UNCHANGED <<attempts, plans, dup, tickVars, lives>>
    PROVE Kept
<1>0. /\ attempts \in [Nodes -> Nat] /\ lives \in Nat
      /\ \A n \in Nodes : Deps[n] \subseteq Nodes /\ Plan[n] \in Plans
  <2>1. attempts \in [Nodes -> Nat] /\ lives \in 0..MaxLives
    BY DEF IInv, TypeOK
  <2>2. \A n \in Nodes : Deps[n] \subseteq Nodes
    BY SubWorkerAssumption DEF Nodes
  <2> QED
    BY <2>1, <2>2, Constants
<1>1. /\ \A n \in Nodes : status'[n] = IF n \in captured THEN "blocked" ELSE status[n]
      /\ \A n \in Nodes : result'[n] = IF n \in captured THEN HandedOver ELSE result[n]
      /\ handing'.nodes = {}
  BY DEF HandOver, Blocking
<1>2. LifeOK'
  BY <1>1 DEF IInv, LifeOK
<1>3. AttemptsBounded' /\ AttemptsOK'
  BY <1>0, <1>1 DEF IInv, AttemptsBounded, AttemptsOK, Duplicable, tickVars
<1>4. SamePlanDisjoint'
  BY <1>1 DEF IInv, SamePlanDisjoint, Running
<1>5. DependenciesDone'
  <2> SUFFICES ASSUME NEW n \in Nodes, status'[n] \in {"running", "completed"}, NEW d \in Deps[n]
               PROVE status'[d] = "completed" \/ result'[d] = HandedOver
    BY DEF DependenciesDone
  <2>1. d \in Nodes /\ status[n] \in {"running", "completed"}
    BY <1>0, <1>1
  <2>2. status[d] = "completed" \/ result[d] = HandedOver
    BY <2>1 DEF IInv, DependenciesDone
  <2> QED
    BY <1>1, <2>1, <2>2
<1>6. Final
  BY <1>1 DEF Final, Running
<1> QED
  BY <1>2, <1>3, <1>4, <1>5, <1>6 DEF NodesKept, Kept

LEMMA RunningIsKnown ==
    ASSUME IInv
    PROVE /\ Running \in SUBSET Nodes /\ handing.nodes \in SUBSET Nodes
          /\ \A n \in Running \cup handing.nodes : status[n] # "absent"
BY DEF IInv, TypeOK, LifeOK, Running

LEMMA OrderKeeps ==
    ASSUME IInv, Order
    PROVE Kept /\ LoopOK'
<1>1. CASE Start
  <2>1. UNCHANGED <<nodeVars, plans, dup, handing, lives>> /\ phase' \in {"rest", "tick"}
    BY <1>1, StartingType DEF Start, IInv
  <2> QED
    BY <2>1, LoopIdle, UnchangedSettles, SettlesKeeps DEF Steady, Duplicable, nodeVars
<1>2. CASE \E p \in Plans : Submit(p)
  <2>1. PICK p \in Plans : Submit(p)
    BY <1>2
  <2>2. /\ plans[p] = "absent" /\ plans' = [plans EXCEPT ![p] = "active"]
        /\ \A n \in Nodes : status'[n] = IF Plan[n] = p THEN "pending" ELSE status[n]
        /\ phase = "rest" /\ phase' \in {"rest", "tick"}
        /\ UNCHANGED <<worker, attempts, result, handing, dup, lives>>
    BY <2>1 DEF Submit
  <2>3. \A n \in Nodes : Plan[n] = p => status[n] = "absent"
    BY <2>2 DEF IInv, LifeOK
  <2>4. plans \in [Plans -> {"absent", "active", "completed", "failed", "lost"}] /\ handing.nodes \subseteq Nodes
    BY DEF IInv, TypeOK
  <2>5. LifeOK'
    BY <2>2, <2>3, <2>4, Constants DEF IInv, LifeOK
  <2>6. AttemptsOK' /\ AttemptsBounded'
    BY <2>2, <2>3 DEF IInv, AttemptsOK, AttemptsBounded, Duplicable
  <2>7. SamePlanDisjoint'
    BY <2>2 DEF IInv, SamePlanDisjoint, Running
  <2>8. DependenciesDone'
    <3> SUFFICES ASSUME NEW n \in Nodes, status'[n] \in {"running", "completed"}, NEW d \in Deps[n]
                 PROVE status'[d] = "completed" \/ result'[d] = HandedOver
      BY DEF DependenciesDone
    <3>1. d \in Nodes /\ status[n] \in {"running", "completed"} /\ Plan[d] # p
      BY <2>2, SubWorkerAssumption DEF Nodes
    <3> QED
      BY <2>2, <3>1 DEF IInv, DependenciesDone
  <2>9. Final
    BY <2>2, <2>3 DEF Final
  <2> QED
    BY <2>2, <2>5, <2>6, <2>7, <2>8, <2>9, LoopIdle DEF NodesKept, Kept
<1>3. CASE CancelTask \/ Pause \/ Resume \/ ClearHandoff
  <2>1. UNCHANGED <<nodeVars, plans, dup, handing, lives, tickVars>> /\ phase = "rest"
    BY <1>3 DEF CancelTask, Pause, Resume, ClearHandoff
  <2> QED
    BY <2>1, LoopIdle, UnchangedSettles, SettlesKeeps DEF Steady, Duplicable, nodeVars, tickVars
<1>4. CASE Stop
  <2>1. UNCHANGED <<worker, attempts, plans, dup, handing, tickVars, lives>> /\ phase = "rest"
    BY <1>4 DEF Stop
  <2>2. Settles
    <3>1. CASE Finalize
      BY <2>1, <3>1, FinalizeSettles
    <3>2. CASE /\ status' = Abandoned(status)
               /\ result' = [n \in Nodes |-> IF status[n] = "running" THEN 0 ELSE result[n]]
      BY <2>1, <3>2 DEF IInv, TypeOK, LifeOK, Abandoned, Settles, Ended, HandedOver
    <3> QED
      BY <1>4, <3>1, <3>2 DEF Stop
  <2> QED
    BY <2>1, <2>2, LoopIdle, SettlesKeeps DEF Steady, Duplicable, tickVars
<1>5. CASE TakeOver
  <2>1. UNCHANGED <<worker, attempts, plans, dup, tickVars, lives>> /\ phase = "rest"
    BY <1>5 DEF TakeOver
  <2>2. CASE HandOver(Running)
    BY <2>1, <2>2, RunningIsKnown, HandOverKeeps, LoopIdle DEF tickVars
  <2>3. CASE handing' = [on |-> TRUE, nodes |-> Running] /\ UNCHANGED <<status, result>>
    BY <2>1, <2>3, LoopIdle, UnchangedSettles, SettlesKeeps DEF Steady, Duplicable, nodeVars, tickVars
  <2> QED
    BY <1>5, <2>2, <2>3 DEF TakeOver
<1> QED
  BY <1>1, <1>2, <1>3, <1>4, <1>5 DEF Order

LEMMA AbandonSettles ==
    ASSUME TypeOK, LifeOK, NEW n, n = 0 \/ n \in Running,
           status' = Abandoned(IF n = 0 THEN status ELSE Finished(n, "failed")),
           UNCHANGED attempts,
           \A m \in Nodes : result'[m] = IF m = n \/ status[m] = "running" THEN 0 ELSE result[m]
    PROVE Settles
<1>1. status \in [Nodes -> Statuses]
  BY DEF TypeOK, Statuses
<1>2. \A m \in Nodes : result'[m] = HandedOver <=> result[m] = HandedOver
  <2> SUFFICES ASSUME NEW m \in Nodes PROVE result'[m] = HandedOver <=> result[m] = HandedOver
    OBVIOUS
  <2>1. m = n => status[m] = "running"
    BY Constants DEF Running
  <2>2. CASE status[m] = "running"
    <3>1. result'[m] = 0 /\ result[m] # HandedOver
      BY <2>2 DEF LifeOK
    <3> QED
      BY <3>1 DEF HandedOver
  <2>3. CASE status[m] # "running"
    BY <2>1, <2>3
  <2> QED
    BY <2>2, <2>3
<1>3. ASSUME NEW m \in Nodes, n # 0
      PROVE \/ Finished(n, "failed")[m] = status[m]
            \/ status[m] = "pending" /\ Finished(n, "failed")[m] = "blocked"
            \/ m = n /\ Finished(n, "failed")[m] = "failed"
            \/ m = n /\ Finished(n, "failed")[m] = "pending" /\ attempts[m] < MaxAttempts
  <2>1. CASE Retryable(n, "failed")
    BY <1>1, <2>1 DEF Finished, Retryable
  <2>2. CASE ~Retryable(n, "failed")
    <3> DEFINE s == [status EXCEPT ![n] = "failed"]
    <3>1. Finished(n, "failed")[m] = IF m \in Doomed(s, Plan[n]) THEN "blocked" ELSE s[m]
      BY <2>2 DEF Finished, Blocking
    <3>2. m \in Doomed(s, Plan[n]) => m # n /\ status[m] = "pending"
      BY <1>1 DEF Doomed
    <3> QED
      BY <1>1, <3>1, <3>2
  <2> QED
    BY <2>1, <2>2
<1>4. ASSUME NEW m \in Nodes
      PROVE \/ status'[m] = status[m]
            \/ status[m] = "pending" /\ status'[m] = "blocked"
            \/ status[m] = "running" /\ status'[m] \in Ended
            \/ status[m] = "running" /\ status'[m] = "pending" /\ attempts[m] < MaxAttempts
  BY <1>1, <1>3 DEF Abandoned, Running, Ended
<1> QED
  BY <1>2, <1>4 DEF Settles

LEMMA CallbackKeeps ==
    ASSUME IInv, NEW c \in Ids, Callback(c)
    PROVE Kept /\ LoopOK'
<1>0. TypeOK /\ LifeOK
  BY DEF IInv
<1>1. CASE ExitReported(c)
  <2> DEFINE n == NodeOf(c)
             st == IF n = 0 THEN status ELSE Finished(n, "failed")
             expected == \/ slot[c].expected \/ flags.latched \/ flags.intentional
                         \/ (n = 0 /\ mode \in {"stopping", "off", "handoff"})
  <2>1. /\ UNCHANGED <<plans, dup, flags, handing, todo, queue, room, lives>>
        /\ phase = "rest" /\ phase' \in {"rest", "stop"}
        /\ UNCHANGED attempts
    BY <1>1 DEF ExitReported, nodeVars
  <2>2. n = 0 \/ n \in Running
    BY NodeOfRuns
  <2>3. Settles
    <3>1. CASE slot[c].child = 0
      BY <1>1, <3>1, UnchangedSettles DEF ExitReported
    <3>2. CASE slot[c].child # 0
      <4>1. /\ result' = [m \in Nodes |-> IF m = n \/ (~expected /\ st[m] = "running") THEN 0 ELSE result[m]]
            /\ worker' = IF n # 0 /\ Retryable(n, "failed") THEN [worker EXCEPT ![n] = 0] ELSE worker
            /\ IF expected THEN status' = st ELSE status' = Abandoned(st)
        BY <1>1, <3>2 DEF ExitReported, Crashed
      <4>2. CASE expected /\ n = 0
        <5>1. status' = status /\ \A m \in Nodes : result'[m] = result[m]
          BY <4>1, <4>2, Constants
        <5> QED
          BY <2>1, <5>1 DEF Settles
      <4>3. CASE expected /\ n # 0
        <5>1. n \in Nodes /\ status[n] = "running" /\ "failed" \in Ended
          BY <2>2, <4>3 DEF Running, Ended
        <5>2. result' = [result EXCEPT ![n] = 0] /\ status' = Finished(n, "failed")
          <6>1. result \in [Nodes -> HandedOver..N]
            BY <1>0 DEF TypeOK
          <6> QED
            BY <4>1, <4>3, <6>1
        <5>3. worker' = [worker EXCEPT ![n] = IF Retryable(n, "failed") THEN 0 ELSE IF status[n] = "running" THEN c ELSE @]
          <6>1. worker[n] = c
            BY <4>3, NodeOfRuns
          <6>2. worker \in [Nodes -> 0..MaxSpawns]
            BY <1>0 DEF TypeOK
          <6> QED
            BY <4>1, <4>3, <5>1, <6>1, <6>2
        <5>4. FinishNode(n, c, "failed", 0)
          BY <5>2, <5>3 DEF FinishNode
        <5> QED
          BY <1>0, <2>1, <5>1, <5>4, FinishSettles
      <4>4. CASE ~expected
        <5>1. status' = Abandoned(st)
          BY <4>1, <4>4
        <5>2. \A m \in Nodes : m # n => (st[m] = "running" <=> status[m] = "running")
          <6>1. CASE n = 0
            BY <6>1
          <6>2. CASE n # 0
            <7>1. status \in [Nodes -> Statuses] /\ n \in Nodes
              BY <1>0, <2>2, <6>2 DEF TypeOK, Statuses, Running
            <7> QED
              BY <6>2, <7>1 DEF Finished, Blocking, Doomed
          <6> QED
            BY <6>1, <6>2
        <5>3. \A m \in Nodes : result'[m] = IF m = n \/ status[m] = "running" THEN 0 ELSE result[m]
          <6> HIDE DEF n, st, expected
          <6> QED
            BY <4>1, <4>4, <5>2
        <5> QED
          BY <1>0, <2>1, <2>2, <5>1, <5>3, AbandonSettles
      <4> QED
        BY <4>2, <4>3, <4>4
    <3> QED
      BY <3>1, <3>2
  <2> QED
    BY <2>1, <2>3, LoopIdle, SettlesKeeps DEF Steady, Duplicable
<1>2. CASE ResultReported(c)
  <2> DEFINE n == IF slot[c].child = 0 THEN 0 ELSE NodeOf(c)
             outcome == child[c].out.status
             won == n # 0 /\ dup[n] # 0 /\ outcome = "completed"
  <2>1. /\ UNCHANGED <<attempts, plans, flags, handing, todo, queue, room, lives>>
        /\ phase = "rest" /\ phase' \in {"rest", "tick"} /\ outcome \in Ended
        /\ dup' = IF won THEN [dup EXCEPT ![n] = 0] ELSE dup
        /\ IF n = 0 THEN UNCHANGED <<status, worker, result, mode, phase>>
           ELSE FinishNode(n, c, outcome, child[c].out.node) /\ mode' = "on" /\ phase' = "tick"
    BY <1>2 DEF ResultReported
  <2>2. n # 0 => n \in Nodes /\ status[n] = "running"
    BY NodeOfRuns DEF Running
  <2>3. Settles
    <3>1. CASE n = 0
      BY <2>1, <3>1 DEF Settles
    <3>2. CASE n # 0
      <4>1. child[c].out.node \in Nat
        <5>1. child \in [Ids -> Children]
          BY <1>0, PoolType DEF PoolTypeOK
        <5>2. child[c].out.node \in 0..N
          BY <5>1 DEF Children, Answers
        <5> QED
          BY <5>2, Constants
      <4> HIDE DEF n, outcome
      <4> QED
        BY <1>0, <2>1, <2>2, <3>2, <4>1, FinishSettles
    <3> QED
      BY <3>1, <3>2
  <2>4. ASSUME NEW m \in Nodes, status'[m] = "running", Duplicable(m)' PROVE Duplicable(m)
    <3>1. CASE won /\ m = n
      <4>1. status'[n] = "completed"
        <5>1. status' = Finished(n, "completed") /\ n \in Nodes
          BY <2>1, <2>2, <3>1 DEF FinishNode
        <5>2. status \in [Nodes -> Statuses]
          BY <1>0 DEF TypeOK, Statuses
        <5> HIDE DEF n
        <5> QED
          BY <5>1, <5>2 DEF Finished, Retryable
      <4> QED
        BY <2>4, <3>1, <4>1
    <3>2. CASE ~(won /\ m = n)
      <4>1. dup'[m] = dup[m]
        <5>1. dup \in [Nodes -> 0..MaxSpawns]
          BY <1>0 DEF TypeOK
        <5> QED
          BY <2>1, <2>2, <3>2, <5>1
      <4> QED
        BY <2>1, <2>4, <4>1 DEF Duplicable
    <3> QED
      BY <3>1, <3>2
  <2> QED
    BY <2>1, <2>3, <2>4, LoopIdle, SettlesKeeps DEF Steady
<1>3. CASE CrashReported(c)
  <2>1. UNCHANGED <<attempts, plans, handing, dup, tickVars, lives>> /\ phase = "rest"
    BY <1>3 DEF CrashReported
  <2>2. Settles
    <3>1. CASE UNCHANGED <<status, result>>
      BY <2>1, <3>1 DEF Settles
    <3>2. CASE /\ status' = Abandoned(status)
               /\ result' = [n \in Nodes |-> IF status[n] = "running" THEN 0 ELSE result[n]]
      BY <1>0, <2>1, <3>2 DEF TypeOK, LifeOK, Abandoned, Settles, Ended, HandedOver
    <3> QED
      BY <1>3, <3>1, <3>2 DEF CrashReported, Crashed
  <2> QED
    BY <2>1, <2>2, LoopIdle, SettlesKeeps DEF Steady, Duplicable, tickVars
<1> QED
  BY <1>1, <1>2, <1>3 DEF Callback

LEMMA HealthKeeps ==
    ASSUME IInv, Health
    PROVE Kept /\ LoopOK'
<1> DEFINE w == Min(todo)
           n == NodeOf(w)
<1>1. /\ IF n = 0 THEN UNCHANGED <<status, worker, result, mode>>
         ELSE FinishNode(n, w, "failed", 0) /\ mode' = "on"
      /\ todo' = todo \ {w}
      /\ phase = "health" /\ phase' = IF todo' = {} THEN "dispatch" ELSE "health"
      /\ UNCHANGED <<attempts, plans, owner, dup, flags, handing, queue, room, lives, upsets>>
  BY DEF Health
<1>2. n # 0 => n \in Nodes /\ status[n] = "running"
  BY NodeOfRuns DEF Running
<1>3. Settles
  <2>1. CASE n = 0
    BY <1>1, <2>1 DEF Settles
  <2>2. CASE n # 0
    <3> HIDE DEF n, w
    <3> QED
      BY <1>1, <1>2, <2>2, FinishSettles DEF IInv, Ended
  <2> QED
    BY <2>1, <2>2
<1>4. Steady
  BY <1>1 DEF Steady, Duplicable
<1>5. LoopOK'
  BY <1>1 DEF IInv, LoopOK
<1> QED
  BY <1>3, <1>4, <1>5, SettlesKeeps

LEMMA PickKeeps ==
    ASSUME IInv, NEW n \in Nodes, NEW w \in Ids, Pick(n, w)
    PROVE Kept /\ LoopOK'
<1>1. /\ phase = "pick" /\ n \in todo /\ ~Conflict(n) /\ Dispatch(n, w, FALSE)
      /\ todo' = todo \ {n}
      /\ UNCHANGED <<plans, spawned, dup, flags, handing, phase, queue, lives>>
  BY DEF Pick
<1>2. /\ \A m \in todo : m \in Nodes /\ status[m] = "pending" /\ \A d \in Deps[m] : status[d] = "completed"
      /\ status \in [Nodes -> Statuses] /\ \A m \in Nodes : Deps[m] \subseteq Nodes
  BY <1>1, SubWorkerAssumption DEF IInv, LoopOK, TypeOK, Statuses, Nodes
<1>3. Settles \/ Starts(n)
  <2>1. TypeOK /\ LifeOK /\ status[n] \in {"pending", "running"}
    BY <1>1, <1>2 DEF IInv
  <2> QED
    BY <1>1, <2>1, DispatchSettles
<1>4. Kept
  <2>1. CASE Settles
    BY <1>1, <2>1, SettlesKeeps DEF Steady, Duplicable
  <2>2. CASE Starts(n)
    BY <1>1, <1>2, <2>2, StartKeeps
  <2> QED
    BY <1>3, <2>1, <2>2
\* The nodes left in the list are untouched: what they wait for has completed.
<1>5. \A m \in todo \ {n} : status'[m] = status[m] /\ \A d \in Deps[m] : status'[d] = status[d]
  <2>1. CASE FinishNode(n, w, "blocked", 0)
    <3> DEFINE s == [status EXCEPT ![n] = "blocked"]
    <3>1. \A m \in Nodes : status'[m] = IF m \in Doomed(s, Plan[n]) THEN "blocked" ELSE s[m]
      BY <2>1 DEF FinishNode, Finished, Retryable, Blocking
    <3>2. \A m \in todo \ {n} : m \notin Doomed(s, Plan[n]) /\ \A d \in Deps[m] : d # n /\ d \notin Doomed(s, Plan[n])
      BY <1>1, <1>2 DEF Doomed, Lost
    <3> QED
      BY <1>2, <3>1, <3>2
  <2>2. CASE status' = [status EXCEPT ![n] = "running"]
    BY <1>1, <1>2, <2>2
  <2>3. CASE UNCHANGED nodeVars
    BY <2>3 DEF nodeVars
  <2> QED
    BY <1>1, <2>1, <2>2, <2>3 DEF Dispatch
<1>6. LoopOK'
  BY <1>1, <1>2, <1>5 DEF LoopOK
<1> QED
  BY <1>4, <1>6

LEMMA DuplicateKeeps ==
    ASSUME IInv, NEW n \in Nodes, Duplicate(n)
    PROVE Kept /\ LoopOK'
<1>1. /\ phase = "duplicate" /\ n \in todo /\ Dispatch(n, dup[n], TRUE)
      /\ todo' = todo \ {n}
      /\ phase' \in {"duplicate", "dispatch"}
      /\ UNCHANGED <<plans, spawned, dup, flags, handing, room, lives>>
  BY DEF Duplicate, NextPlan
<1>2. /\ \A m \in todo : m \in Nodes /\ status[m] = "running" /\ m \in Speculative /\ dup[m] \in Ids
      /\ status \in [Nodes -> Statuses]
  BY <1>1 DEF IInv, LoopOK, TypeOK, Statuses
<1>3. Settles \/ Starts(n)
  <2>1. TypeOK /\ LifeOK /\ status[n] \in {"pending", "running"}
    BY <1>1, <1>2 DEF IInv
  <2> QED
    BY <1>1, <2>1, DispatchSettles
<1>4. \A m \in Nodes : Duplicable(m)' => Duplicable(m)
  BY <1>1 DEF Duplicable
<1>5. Kept
  <2>1. CASE Settles
    BY <1>1, <1>4, <2>1, SettlesKeeps DEF Steady
  <2>2. CASE Starts(n)
    <3>1. Duplicable(n) /\ ~Duplicable(n)'
      BY <1>1, <1>2, Constants DEF Duplicable
    <3> QED
      BY <1>1, <1>2, <1>4, <2>2, <3>1, StartKeeps
  <2> QED
    BY <1>3, <2>1, <2>2
<1>6. \A m \in todo \ {n} : status'[m] = status[m]
  <2>1. CASE FinishNode(n, dup[n], "blocked", 0)
    <3> DEFINE s == [status EXCEPT ![n] = "blocked"]
    <3>1. \A m \in Nodes : status'[m] = IF m \in Doomed(s, Plan[n]) THEN "blocked" ELSE s[m]
      BY <2>1 DEF FinishNode, Finished, Retryable, Blocking
    <3>2. \A m \in todo \ {n} : m \notin Doomed(s, Plan[n])
      BY <1>1, <1>2 DEF Doomed
    <3> QED
      BY <1>2, <3>1, <3>2
  <2>2. CASE status' = [status EXCEPT ![n] = "running"]
    BY <1>1, <1>2, <2>2
  <2>3. CASE UNCHANGED nodeVars
    BY <2>3 DEF nodeVars
  <2> QED
    BY <1>1, <2>1, <2>2, <2>3 DEF Dispatch
<1>7. LoopOK'
  BY <1>1, <1>2, <1>6 DEF LoopOK
<1> QED
  BY <1>5, <1>7

LEMMA LoopKeeps ==
    ASSUME IInv, Loop
    PROVE Kept /\ LoopOK'
<1>1. CASE TickRefused \/ TickEnds
  <2>1. /\ UNCHANGED <<nodeVars, dup, handing, lives>> /\ phase' = "rest"
        /\ \A p \in Plans : plans'[p] = "absent" => plans[p] = "absent"
    BY <1>1 DEF TickRefused, TickEnds
  <2> QED
    BY <2>1, LoopIdle, UnchangedSettles, SettlesKeeps DEF Steady, Duplicable, nodeVars
<1>2. CASE TickRecovers
  <2>1. UNCHANGED <<nodeVars, plans, dup, handing, lives>> /\ phase' \in {"rest", "tick"}
    BY <1>2, StartingType DEF TickRecovers, IInv
  <2> QED
    BY <2>1, LoopIdle, UnchangedSettles, SettlesKeeps DEF Steady, Duplicable, nodeVars
<1>3. CASE Tick
  <2>1. /\ UNCHANGED <<nodeVars, plans, dup, flags, handing, lives>>
        /\ ~flags.intentional /\ todo' \subseteq Ids /\ phase' \in {"dispatch", "health"}
    BY <1>3 DEF Tick
  <2>2. LoopOK'
    BY <2>1 DEF LoopOK
  <2> QED
    BY <2>1, <2>2, UnchangedSettles, SettlesKeeps DEF Steady, Duplicable, nodeVars
<1>4. CASE Health
  BY <1>4, HealthKeeps
<1>5. CASE EnterPlan
  <2> DEFINE p == Min(queue)
  <2>1. /\ status' = Blocking(status, Doomed(status, p)) /\ todo' = Runnable(p)
        /\ phase = "dispatch" /\ phase' = "pick"
        /\ UNCHANGED <<worker, attempts, result, plans, dup, handing, lives>>
    BY <1>5 DEF EnterPlan
  <2>2. \A n \in Nodes : status'[n] = IF n \in Doomed(status, p) THEN "blocked" ELSE status[n]
    BY <2>1 DEF Blocking
  <2>3. Settles
    BY <2>1, <2>2 DEF Settles, Doomed
  <2>4. \A n \in Nodes : Deps[n] \subseteq Nodes
    BY SubWorkerAssumption DEF Nodes
  <2>5. \A n \in Runnable(p) : /\ n \in Nodes /\ status'[n] = "pending"
                               /\ \A d \in Deps[n] : status'[d] = "completed"
    BY <2>2, <2>4 DEF Runnable, Doomed, Lost
  <2>6. LoopOK'
    BY <2>1, <2>5 DEF LoopOK
  <2>7. Steady
    BY <2>1 DEF Steady, Duplicable
  <2> QED
    BY <2>3, <2>6, <2>7, SettlesKeeps
<1>6. CASE \E n \in Nodes : Duplicate(n)
  BY <1>6, DuplicateKeeps
<1>7. CASE \E n \in Nodes, w \in Ids : Pick(n, w)
  BY <1>7, PickKeeps
<1>8. CASE PickEnds
  <2> DEFINE chosen == Uncertain(Min(queue))
  <2>1. /\ todo' = chosen
        /\ dup' = [n \in Nodes |-> IF n \in chosen THEN Min(Idle \ {worker[n]}) ELSE dup[n]]
        /\ phase' = IF chosen = {} THEN "dispatch" ELSE "duplicate"
        /\ UNCHANGED <<nodeVars, plans, handing, lives>>
    BY <1>8 DEF PickEnds, NextPlan
  <2>2. \A n \in chosen : /\ n \in Nodes /\ status[n] = "running" /\ n \in Speculative
                          /\ dup[n] = 0 /\ Min(Idle \ {worker[n]}) \in Ids
    BY ChosenDuplicate DEF Uncertain, Running
  <2> HIDE DEF chosen
  <2>3. LoopOK'
    BY <2>1, <2>2 DEF LoopOK, nodeVars
  <2>4. \A n \in Nodes : Duplicable(n)' => Duplicable(n)
    BY <2>1, <2>2 DEF Duplicable
  <2>5. Steady
    BY <2>1, <2>4 DEF Steady
  <2> QED
    BY <2>1, <2>3, <2>5, UnchangedSettles, SettlesKeeps
<1> QED
  BY <1>1, <1>2, <1>3, <1>4, <1>5, <1>6, <1>7, <1>8 DEF Loop

LEMMA CrashKeeps ==
    ASSUME IInv, Crash
    PROVE Kept /\ LoopOK'
<1>1. /\ UNCHANGED <<nodeVars, tickVars>> /\ phase = "rest" /\ lives' = lives + 1
      /\ handing'.nodes = {}
      /\ \A p \in Plans : plans'[p] = "absent" => plans[p] = "absent"
  BY DEF Crash, tickVars
<1>2. attempts \in [Nodes -> Nat] /\ lives \in Nat /\ \A n \in Nodes : Plan[n] \in Plans
  BY Constants DEF IInv, TypeOK
<1>3. LifeOK'
  BY <1>1, <1>2 DEF IInv, LifeOK, nodeVars
<1>4. AttemptsBounded' /\ AttemptsOK'
  <2>1. AttemptsBounded'
    BY <1>1, <1>2, Constants DEF IInv, AttemptsBounded, nodeVars
  <2>2. \A n \in Nodes : attempts[n] <= MaxAttempts + (IF n \in Speculative THEN lives' ELSE 0)
    BY <1>1, <1>2, Constants DEF IInv, AttemptsBounded
  <2>3. AttemptsOK'
    BY <1>1, <2>2 DEF IInv, AttemptsOK, nodeVars
  <2> QED
    BY <2>1, <2>3
<1>5. SamePlanDisjoint' /\ DependenciesDone'
  BY <1>1 DEF IInv, SamePlanDisjoint, DependenciesDone, Running, nodeVars
<1> QED
  BY <1>1, <1>3, <1>4, <1>5, LoopIdle DEF NodesKept, Kept, Final, tickVars, nodeVars

LEMMA StepKeeps ==
    ASSUME IInv, Next
    PROVE Kept /\ LoopOK'
<1>1. CASE StopEnds
  <2>1. /\ Finalize /\ phase' = "rest"
        /\ UNCHANGED <<worker, attempts, plans, dup, handing, lives>>
    BY <1>1 DEF StopEnds
  <2> QED
    BY <2>1, FinalizeSettles, LoopIdle, SettlesKeeps DEF Steady, Duplicable
<1>2. CASE TakeOverEnds
  <2>1. /\ HandOver(handing.nodes) /\ phase = "rest" /\ handing.on
        /\ UNCHANGED <<attempts, plans, dup, tickVars, lives>>
    BY <1>2 DEF TakeOverEnds
  <2> QED
    BY <2>1, RunningIsKnown, HandOverKeeps, LoopIdle DEF tickVars
<1>3. CASE Crash
  BY <1>3, CrashKeeps
<1> QED
  BY <1>1, <1>2, <1>3, WorkerKeeps, CallbackKeeps, OrderKeeps, LoopKeeps DEF Next

LEMMA Inductive == IInv /\ [Next]_vars => IInv'
<1> SUFFICES ASSUME IInv, [Next]_vars PROVE IInv'
  OBVIOUS
<1>1. TypeOK'
  BY StepType DEF IInv
<1>2. NodesKept' /\ LoopOK'
  <2>1. CASE UNCHANGED vars
    BY <2>1 DEF IInv, NodesKept, LoopOK, LifeOK, AttemptsOK, Duplicable, AttemptsBounded,
                SamePlanDisjoint, DependenciesDone, Running, vars, nodeVars, poolVars, tickVars
  <2>2. CASE Next
    BY <2>2, StepKeeps DEF Kept
  <2> QED
    BY <2>1, <2>2
<1> QED
  BY <1>1, <1>2 DEF IInv, NodesKept

LEMMA Initially == Init => IInv
<1> SUFFICES ASSUME Init PROVE IInv
  OBVIOUS
<1>1. TypeOK
  BY InitType, SameType
<1>2. LoopOK /\ LifeOK
  BY DEF Init, LoopOK, LifeOK, HandedOver
<1>3. AttemptsOK /\ AttemptsBounded
  BY Constants DEF Init, AttemptsOK, AttemptsBounded
<1>4. SamePlanDisjoint /\ DependenciesDone
  BY DEF Init, SamePlanDisjoint, DependenciesDone, Running
<1> QED
  BY <1>1, <1>2, <1>3, <1>4 DEF IInv

\* The inductive invariant: the lists of a tick are true while it works on them.
THEOREM Invariance == Spec => []IInv
BY Initially, Inductive, PTL DEF Spec

\* Every variable keeps its type.
THEOREM TypeCorrect == Spec => []TypeOK
<1>1. IInv => TypeOK
  BY DEF IInv
<1> QED
  BY <1>1, Invariance, PTL

\* scheduler.cjs filterConflicts: running nodes of one plan have disjoint scopes.
THEOREM PlansDisjoint == Spec => []SamePlanDisjoint
<1>1. IInv => SamePlanDisjoint
  BY DEF IInv
<1> QED
  BY <1>1, Invariance, PTL

\* dag.cjs markRunning and failNode: the attempts of a node are bounded, its duplicates included.
THEOREM RetriesBounded == Spec => []AttemptsBounded
<1>1. IInv => AttemptsBounded
  BY DEF IInv
<1> QED
  BY <1>1, Invariance, PTL

\* dag.cjs getRunnableNodes: a node runs after what it depends on has completed.
THEOREM DependenciesFirst == Spec => []DependenciesDone
<1>1. IInv => DependenciesDone
  BY DEF IInv
<1> QED
  BY <1>1, Invariance, PTL

\* manager.cjs finishNode: only a takeover gives a completed node another end.
THEOREM CompletedStays == Spec => CompletedIsFinal
<1>1. IInv /\ [Next]_vars => [Final]_vars
  BY StepKeeps DEF Kept
<1> QED
  BY <1>1, Invariance, PTL DEF Spec, CompletedIsFinal, Final

\* manager.cjs stop: no process is added to the pool until the next start().
THEOREM StopIsKept == Spec => StopHolds
<1> DEFINE Stays == flags.intentional /\ flags'.intentional => spawned' <= spawned
<1>1. ASSUME IInv, [Next]_vars, flags.intentional, flags'.intentional PROVE spawned' <= spawned
  <2>0. spawned \in Nat
    BY <1>1, Constants DEF IInv, TypeOK
  <2>1. CASE UNCHANGED spawned
    BY <2>0, <2>1
  <2>2. CASE Start \/ TickRecovers
    <3>1. flags' = [flags EXCEPT !.intentional = FALSE, !.latched = FALSE, !.ticking = @ \/ (Cardinality(Slots) < MaxWorkers /\ spawned < MaxSpawns)]
      BY <2>2 DEF Start, TickRecovers, Starting
    <3>2. flags \in FlagSet
      BY <1>1 DEF IInv, TypeOK, FlagSet
    <3>3. flags'.intentional = FALSE
      BY <3>1, <3>2 DEF FlagSet
    <3> QED
      BY <1>1, <3>3
  <2>3. CASE Tick \/ Health
    BY <1>1, <2>3 DEF Tick, Health, IInv, LoopOK
  <2>4. CASE Crash
    BY <2>0, <2>4, Constants DEF Crash
  <2>5. CASE \E c \in Ids : Worker(c) \/ Callback(c)
    BY <2>1, <2>5 DEF Worker, Finish, Wedge, Die, Callback, ExitReported, ResultReported, CrashReported
  <2>6. CASE Order \/ StopEnds \/ TakeOverEnds
    BY <2>1, <2>2, <2>6 DEF Order, CancelTask, Pause, Resume, Stop, TakeOver, ClearHandoff, Submit, StopEnds,
       TakeOverEnds, poolVars
  <2>7. CASE Loop
    BY <2>1, <2>2, <2>3, <2>7 DEF Loop, TickRefused, EnterPlan, Duplicate, Pick, PickEnds, TickEnds, poolVars
  <2>8. CASE UNCHANGED vars
    BY <2>1, <2>8 DEF vars, poolVars
  <2> QED
    BY <1>1, <2>4, <2>5, <2>6, <2>7, <2>8 DEF Next
<1>2. IInv /\ [Next]_vars => [Stays]_vars
  BY <1>1
<1> QED
  BY <1>2, Invariance, PTL DEF Spec, StopHolds

-------------------------------------------------------------------------------
(* A slot that is busy is owed an answer.                                        *)

\* An uncaught exception is reported by a process that is about to end, and no process,
\* in a slot or not, has an id that was not handed out.
ProcessesOK ==
    \A c \in Ids : /\ child[c].out.status = "crash" => child[c].run = "dead"
                   /\ c > spawned => child[c].run = "none"
                   /\ slot[c].child <= spawned

BusyInv == TypeOK /\ LoopOK /\ ProcessesOK /\ BusyMeansWorking

\* Steps that neither hand out a task nor begin a process, and take no answer away.
CalmSlot(w) == \/ slot'[w] = slot[w]
               \/ slot'[w].task = 0 /\ slot'[w].child = slot[w].child
               \/ slot'[w].child = 0
CalmChild(c) ==
    /\ child'[c].run = "alive" =>
           /\ child[c].run = "alive"
           /\ child'[c].task = child[c].task \/ child'[c].out.status \in Ended
           /\ \/ child'[c].out = child[c].out
              \/ child'[c].out.status \in Ended
              \/ slot'[c].task = 0
              \/ slot'[c].child = 0
    /\ child'[c].out.status = "crash" => child'[c].run = "dead"
    /\ child'[c].run # "none" => child[c].run # "none"
Calm == spawned' = spawned /\ \A c \in Ids : CalmSlot(c) /\ CalmChild(c)

LEMMA CalmKeeps ==
    ASSUME BusyInv, Calm
    PROVE ProcessesOK' /\ BusyMeansWorking'
<1>0. spawned \in Nat
  BY Constants DEF BusyInv, TypeOK
<1>1. ProcessesOK'
  BY <1>0 DEF BusyInv, ProcessesOK, Calm, CalmSlot, CalmChild
<1>2. ASSUME NEW w \in Ids, slot'[w].child # 0, slot'[w].task # 0, slot'[w].child = w, child'[w].run = "alive"
      PROVE child'[w].task = slot'[w].task \/ child'[w].out # NoOut
  <2>1. slot'[w] = slot[w] /\ child[w].run = "alive"
    BY <1>2 DEF Calm, CalmSlot, CalmChild
  <2>2. child[w].task = slot[w].task \/ child[w].out # NoOut
    BY <1>2, <2>1 DEF BusyInv, BusyMeansWorking, Slots
  <2>3. child'[w].out.status \in Ended => child'[w].out # NoOut
    BY DEF NoOut, Ended
  <2> QED
    BY <1>2, <2>1, <2>2, <2>3 DEF Calm, CalmChild
<1> QED
  BY <1>1, <1>2 DEF BusyMeansWorking, Slots

\* killTree leaves no process alive that it names, and starts none.
LEMMA KilledCalm ==
    ASSUME BusyInv, NEW ps, child' = Killed(ps), spawned' = spawned, \A w \in Ids : CalmSlot(w)
    PROVE Calm
<1>1. child \in [Ids -> Children]
  BY PoolType DEF BusyInv, PoolTypeOK
<1>2. ASSUME NEW c \in Ids PROVE CalmChild(c)
  <2>1. CASE c \in ps /\ child[c].run \in {"alive", "quitting"}
    <3>1. child'[c] = [child[c] EXCEPT !.run = "dead", !.task = 0, !.mode = "ready", !.cancel = 0]
      BY <2>1 DEF Killed
    <3> QED
      BY <1>1, <2>1, <3>1 DEF CalmChild, Children
  <2>2. CASE ~(c \in ps /\ child[c].run \in {"alive", "quitting"})
    BY <2>2 DEF Killed, CalmChild, BusyInv, ProcessesOK
  <2> QED
    BY <2>1, <2>2
<1> QED
  BY <1>2 DEF Calm

\* pool.spawn: the new process has no task.
LEMMA SpawnKeeps ==
    ASSUME BusyInv, NEW v \in Ids, spawned < MaxSpawns, spawned' = spawned + 1, NEW before,
           \/ before = child
           \/ \E ps : before = Killed(ps),
           slot' = [slot EXCEPT ![v] = [child |-> spawned + 1, task |-> 0, expected |-> FALSE]],
           child' = [before EXCEPT ![spawned + 1].run = "alive"]
    PROVE ProcessesOK' /\ BusyMeansWorking'
<1>0. /\ child \in [Ids -> Children] /\ slot \in [Ids -> SlotRecords] /\ spawned \in Nat
      /\ spawned + 1 \in Ids /\ Ids \subseteq Nat
  <2>1. TypeOK /\ PoolTypeOK
    BY PoolType DEF BusyInv
  <2>2. spawned + 1 \in Ids
    BY <2>1, SpawnType
  <2>3. child \in [Ids -> Children] /\ slot \in [Ids -> SlotRecords] /\ spawned \in 0..MaxSpawns
    BY <2>1 DEF PoolTypeOK
  <2> QED
    BY <2>2, <2>3, Constants
<1>1. before \in [Ids -> Children]
  BY <1>0, KilledType
<1>2. ASSUME NEW c \in Ids
      PROVE /\ before[c].run = child[c].run \/ (before[c].run = "dead" /\ child[c].run # "none")
            /\ before[c].out = child[c].out
            /\ before[c].run = "alive" => before[c] = child[c]
  <2>1. CASE before = child
    BY <2>1
  <2>2. ASSUME NEW ps, before = Killed(ps)
        PROVE /\ before[c].run = child[c].run \/ (before[c].run = "dead" /\ child[c].run # "none")
              /\ before[c].out = child[c].out
              /\ before[c].run = "alive" => before[c] = child[c]
    <3>1. CASE c \in ps /\ child[c].run \in {"alive", "quitting"}
      <4>1. before[c] = [child[c] EXCEPT !.run = "dead", !.task = 0, !.mode = "ready", !.cancel = 0]
        BY <2>2, <3>1 DEF Killed
      <4> QED
        BY <1>0, <3>1, <4>1 DEF Children
    <3>2. CASE ~(c \in ps /\ child[c].run \in {"alive", "quitting"})
      BY <2>2, <3>2 DEF Killed
    <3> QED
      BY <3>1, <3>2
  <2> QED
    BY <2>1, <2>2
<1>3. /\ \A c \in Ids : c # spawned + 1 => child'[c] = before[c]
      /\ child'[spawned + 1].run = "alive" /\ child'[spawned + 1].out = before[spawned + 1].out
  BY <1>0, <1>1 DEF Children
<1>4. /\ \A w \in Ids : w # v => slot'[w] = slot[w]
      /\ slot'[v].child = spawned + 1 /\ slot'[v].task = 0
  BY <1>0
<1>5. ProcessesOK'
  <2> SUFFICES ASSUME NEW c \in Ids
               PROVE /\ child'[c].out.status = "crash" => child'[c].run = "dead"
                     /\ c > spawned' => child'[c].run = "none"
                     /\ slot'[c].child <= spawned'
    BY DEF ProcessesOK
  <2>1. /\ child[c].out.status = "crash" => child[c].run = "dead"
        /\ c > spawned => child[c].run = "none"
        /\ slot[c].child <= spawned /\ slot[c].child \in Nat
    BY <1>0, Constants DEF BusyInv, ProcessesOK, SlotRecords
  <2>2. slot'[c].child <= spawned'
    BY <1>0, <1>4, <2>1
  <2>3. CASE c = spawned + 1
    <3>1. child[c].run = "none" /\ child[c].out.status # "crash"
      BY <1>0, <2>1, <2>3
    <3> QED
      BY <1>0, <1>2, <1>3, <2>2, <2>3, <3>1
  <2>4. CASE c # spawned + 1
    <3>1. child'[c] = before[c]
      BY <1>3, <2>4
    <3>2. c > spawned + 1 => c > spawned
      BY <1>0
    <3> QED
      BY <1>2, <2>1, <2>2, <3>1, <3>2
  <2> QED
    BY <2>3, <2>4
<1>6. BusyMeansWorking'
  <2> SUFFICES ASSUME NEW w \in Ids, slot'[w].child # 0, slot'[w].task # 0, slot'[w].child = w, child'[w].run = "alive"
               PROVE child'[w].task = slot'[w].task \/ child'[w].out # NoOut
    BY DEF BusyMeansWorking, Slots
  <2>1. w # v /\ slot'[w] = slot[w]
    BY <1>4
  <2>2. w # spawned + 1
    BY <1>0, <2>1 DEF BusyInv, ProcessesOK
  <2>3. child'[w] = child[w]
    BY <1>2, <1>3, <2>2
  <2> QED
    BY <2>1, <2>3 DEF BusyInv, BusyMeansWorking, Slots
<1> QED
  BY <1>5, <1>6

\* assign_task: the worker takes the task or answers at once.
LEMMA DispatchBusy ==
    ASSUME BusyInv, NEW n \in Nodes, NEW v \in Ids, NEW speculative, Dispatch(n, v, speculative), spawned' = spawned
    PROVE ProcessesOK' /\ BusyMeansWorking'
<1>0. /\ child \in [Ids -> Children] /\ slot \in [Ids -> SlotRecords]
  BY PoolType DEF BusyInv, PoolTypeOK
<1>1. CASE UNCHANGED <<slot, child>>
  BY <1>1, CalmKeeps DEF Calm, CalmSlot, CalmChild, BusyInv, ProcessesOK
<1>2. CASE slot' = [slot EXCEPT ![v].task = n] /\ child' = Handed(slot[v].child, n)
  <2> DEFINE k == slot[v].child
  <2>1. /\ slot'[v].task = n /\ slot'[v].child = k
        /\ \A w \in Ids : w # v => slot'[w] = slot[w]
    BY <1>0, <1>2 DEF SlotRecords
  <2>2. ASSUME NEW c \in Ids
        PROVE /\ child'[c].run = child[c].run
              /\ c # k => child'[c] = child[c]
              /\ child'[c].out = child[c].out \/ child'[c].out.status = "blocked"
              /\ child'[c].task = child[c].task \/ (child[c].task = 0 /\ child'[c].task = n)
              /\ c = k /\ child[c].run = "alive" => child'[c].task = n \/ child'[c].out.status = "blocked"
    <3>1. CASE child[k].run # "alive"
      BY <1>2, <3>1 DEF Handed
    <3>2. CASE child[k].run = "alive" /\ Accepting(k)
      <4>1. child' = [child EXCEPT ![k].task = n, ![k].cancel = 0]
        BY <1>2, <3>2 DEF Handed
      <4> QED
        BY <1>0, <3>2, <4>1 DEF Children, Accepting
    <3>3. CASE child[k].run = "alive" /\ ~Accepting(k)
      <4>1. child' = [child EXCEPT ![k].out = [node |-> n, status |-> "blocked"]]
        BY <1>2, <3>3 DEF Handed
      <4> QED
        BY <1>0, <4>1 DEF Children
    <3> QED
      BY <3>1, <3>2, <3>3
  <2>3. ProcessesOK'
    BY <2>1, <2>2 DEF BusyInv, ProcessesOK
  <2>4. BusyMeansWorking'
    <3> SUFFICES ASSUME NEW w \in Ids, slot'[w].child # 0, slot'[w].task # 0, slot'[w].child = w, child'[w].run = "alive"
                 PROVE child'[w].task = slot'[w].task \/ child'[w].out # NoOut
      BY DEF BusyMeansWorking, Slots
    <3>0. child'[w].out.status = "blocked" => child'[w].out # NoOut
      BY DEF NoOut
    <3>1. CASE w = v
      BY <2>1, <2>2, <3>0, <3>1
    <3>2. CASE w # v
      <4>1. child[w].task = slot[w].task \/ child[w].out # NoOut
        BY <2>1, <2>2, <3>2 DEF BusyInv, BusyMeansWorking, Slots
      <4> QED
        BY <2>1, <2>2, <3>0, <3>2, <4>1
    <3> QED
      BY <3>1, <3>2
  <2> QED
    BY <2>3, <2>4
<1> QED
  BY <1>1, <1>2 DEF Dispatch

LEMMA StartingBusy == ASSUME BusyInv, Starting PROVE ProcessesOK' /\ BusyMeansWorking'
<1>0. spawned < MaxSpawns => spawned + 1 \in Ids
  BY SpawnType DEF BusyInv
<1>1. CASE SpawnOne /\ spawned < MaxSpawns
  BY <1>0, <1>1, SpawnKeeps DEF SpawnOne
<1>2. CASE UNCHANGED poolVars
  BY <1>2, CalmKeeps DEF Calm, CalmSlot, CalmChild, BusyInv, ProcessesOK, poolVars
<1> QED
  BY <1>1, <1>2 DEF Starting

\* Steps that touch neither the pool nor a process.
LEMMA PoolUntouched ==
    ASSUME BusyInv, UNCHANGED poolVars
    PROVE ProcessesOK' /\ BusyMeansWorking'
BY CalmKeeps DEF Calm, CalmSlot, CalmChild, BusyInv, ProcessesOK, poolVars

LEMMA WorkerBusy ==
    ASSUME BusyInv, NEW c \in Ids, Worker(c)
    PROVE ProcessesOK' /\ BusyMeansWorking'
<1>0. child \in [Ids -> Children] /\ UNCHANGED <<slot, spawned>>
  BY PoolType DEF BusyInv, PoolTypeOK, Worker, Finish, Wedge, Die
<1>1. \A d \in Ids : d # c => child'[d] = child[d]
  BY <1>0 DEF Worker, Finish, Wedge, Die
<1>2. CalmChild(c)
  <2>1. CASE Finish(c)
    <3>1. PICK s \in Ended :
             child' = [child EXCEPT ![c].task = 0, ![c].cancel = 0, ![c].mode = "ready",
                                    ![c].out = [node |-> child[c].task, status |-> s]]
      BY <2>1 DEF Finish, Ended
    <3>2. child'[c].run = child[c].run /\ child'[c].out.status = s
      BY <1>0, <3>1 DEF Children
    <3> QED
      BY <2>1, <3>2 DEF CalmChild, Finish, Ended
  <2>2. CASE Wedge(c)
    <3>1. child'[c].run = child[c].run /\ child'[c].out.status = "blocked"
      BY <1>0, <2>2 DEF Wedge, Children
    <3> QED
      BY <2>2, <3>1 DEF CalmChild, Wedge, Ended
  <2>3. CASE Die(c)
    <3>1. PICK said : child' = [child EXCEPT ![c] = [Unborn EXCEPT !.run = "dead", !.out = said]]
      BY <2>3 DEF Die
    <3>2. child'[c].run = "dead"
      BY <1>0, <3>1 DEF Unborn
    <3> QED
      BY <2>3, <3>2 DEF CalmChild, Die
  <2> QED
    BY <2>1, <2>2, <2>3 DEF Worker
<1>3. Calm
  BY <1>0, <1>1, <1>2 DEF Calm, CalmSlot, CalmChild, BusyInv, ProcessesOK
<1> QED
  BY <1>3, CalmKeeps

LEMMA CallbackBusy ==
    ASSUME BusyInv, NEW c \in Ids, Callback(c)
    PROVE ProcessesOK' /\ BusyMeansWorking'
<1>0. /\ child \in [Ids -> Children] /\ slot \in [Ids -> SlotRecords] /\ UNCHANGED spawned
      /\ \A k \in Ids : /\ child[k].out.status = "crash" => child[k].run = "dead"
                        /\ child[k] \in Children
  BY PoolType DEF BusyInv, PoolTypeOK, ProcessesOK, Callback, ExitReported, ResultReported, CrashReported
<1>1. CASE ExitReported(c)
  <2>1. /\ child[c].run = "dead" /\ child' = [child EXCEPT ![c] = [Unborn EXCEPT !.run = "gone"]]
        /\ slot' = slot \/ slot' = [slot EXCEPT ![c] = NoSlot]
    BY <1>1 DEF ExitReported
  <2>2. child'[c].run = "gone" /\ child'[c].out.status = "none"
    BY <1>0, <2>1 DEF Unborn, NoOut
  <2>3. \A w \in Ids : CalmSlot(w)
    BY <1>0, <2>1 DEF CalmSlot, NoSlot
  <2>4. \A k \in Ids : CalmChild(k)
    BY <1>0, <2>1, <2>2 DEF CalmChild
  <2> QED
    BY <1>0, <2>3, <2>4, CalmKeeps DEF Calm
<1>2. CASE ResultReported(c)
  <2> DEFINE n == IF slot[c].child = 0 THEN 0 ELSE NodeOf(c)
             won == n # 0 /\ dup[n] # 0 /\ child[c].out.status = "completed"
             read == [child EXCEPT ![c].out = NoOut]
  <2>1. /\ slot' = IF slot[c].child = 0 THEN slot ELSE [slot EXCEPT ![c].task = 0]
        /\ child' = [k \in Ids |-> IF won /\ dup[n] # c /\ k = slot[dup[n]].child /\ child[k].task # 0
                                   THEN [read[k] EXCEPT !.cancel = n] ELSE read[k]]
    BY <1>2 DEF ResultReported
  <2>2. /\ \A w \in Ids : CalmSlot(w)
        /\ slot'[c].child = 0 \/ slot'[c].task = 0
    BY <1>0, <2>1 DEF CalmSlot, SlotRecords
  <2>3. \A k \in Ids : child'[k].run = read[k].run /\ child'[k].task = read[k].task /\ child'[k].out = read[k].out
    <3>1. \A k \in Ids : read[k] \in [run : {"none", "alive", "quitting", "dead", "gone"}, task : 0..N,
             mode : {"ready", "paused", "handoff", "wedged"}, cancel : User..N, out : Answers \cup {NoOut}]
      BY <1>0 DEF Children
    <3> HIDE DEF n, won, read
    <3> QED
      BY <2>1, <3>1
  <2>4. \A k \in Ids : /\ read[k].run = child[k].run /\ read[k].task = child[k].task
                       /\ read[k].out = IF k = c THEN NoOut ELSE child[k].out
    BY <1>0 DEF Children
  <2>5. \A k \in Ids : CalmChild(k)
    <3> HIDE DEF n, won, read
    <3>1. NoOut.status # "crash"
      BY DEF NoOut
    <3> QED
      BY <1>0, <2>2, <2>3, <2>4, <3>1 DEF CalmChild
  <2> QED
    BY <1>0, <2>2, <2>5, CalmKeeps DEF Calm
<1>3. CASE CrashReported(c)
  <2>1. child[c].out.status = "crash" /\ child' = [child EXCEPT ![c].out = NoOut] /\ slot' = slot
    BY <1>3 DEF CrashReported
  <2>2. \A k \in Ids : /\ child'[k].run = child[k].run /\ child'[k].task = child[k].task
                       /\ child'[k].out = IF k = c THEN NoOut ELSE child[k].out
    BY <1>0, <2>1 DEF Children
  <2>3. \A k \in Ids : CalmChild(k)
    <3>1. NoOut.status # "crash"
      BY DEF NoOut
    <3> QED
      BY <1>0, <2>1, <2>2, <3>1 DEF CalmChild
  <2> QED
    BY <1>0, <2>1, <2>3, CalmKeeps DEF Calm, CalmSlot
<1> QED
  BY <1>1, <1>2, <1>3 DEF Callback

\* What the supervisor tells a process changes how it works, not what it works on.
LEMMA ToldBusy ==
    ASSUME BusyInv, UNCHANGED <<slot, spawned>>,
           \A k \in Ids : \/ child'[k] = child[k]
                          \/ \E who : child'[k] = [child[k] EXCEPT !.cancel = who]
                          \/ \E m : child'[k] = [child[k] EXCEPT !.mode = m]
                          \/ child'[k] = [child[k] EXCEPT !.run = "quitting"] /\ child[k].run = "alive"
    PROVE ProcessesOK' /\ BusyMeansWorking'
<1>1. \A k \in Ids : child[k] \in Children /\ (child[k].out.status = "crash" => child[k].run = "dead")
  BY PoolType DEF BusyInv, PoolTypeOK, ProcessesOK
<1>2. ASSUME NEW k \in Ids PROVE CalmChild(k)
  <2>1. CASE child'[k] = child[k]
    BY <1>1, <2>1 DEF CalmChild
  <2>2. ASSUME NEW who, child'[k] = [child[k] EXCEPT !.cancel = who] PROVE CalmChild(k)
    BY <1>1, <2>2 DEF CalmChild, Children
  <2>3. ASSUME NEW m, child'[k] = [child[k] EXCEPT !.mode = m] PROVE CalmChild(k)
    BY <1>1, <2>3 DEF CalmChild, Children
  <2>4. CASE child'[k] = [child[k] EXCEPT !.run = "quitting"] /\ child[k].run = "alive"
    BY <1>1, <2>4 DEF CalmChild, Children
  <2> QED
    BY <2>1, <2>2, <2>3, <2>4
<1> QED
  BY <1>2, CalmKeeps DEF Calm, CalmSlot

\* killAll deletes every slot.
LEMMA EmptiedBusy ==
    ASSUME BusyInv, slot' = [w \in Ids |-> NoSlot], child' = Killed(Processes(Ids)), UNCHANGED spawned
    PROVE ProcessesOK' /\ BusyMeansWorking'
BY KilledCalm, CalmKeeps DEF CalmSlot, NoSlot

LEMMA OrderBusy ==
    ASSUME BusyInv, Order
    PROVE ProcessesOK' /\ BusyMeansWorking'
<1>1. CASE Start
  BY <1>1, StartingBusy DEF Start
<1>2. CASE ClearHandoff \/ \E p \in Plans : Submit(p)
  BY <1>2, PoolUntouched DEF ClearHandoff, Submit
<1>3. CASE CancelTask
  BY <1>3, ToldBusy DEF CancelTask, Cancelled
<1>4. CASE Pause
  BY <1>4, ToldBusy DEF Pause
<1>5. CASE Resume
  BY <1>5, ToldBusy DEF Resume
<1>6. CASE Stop
  <2>1. CASE Finalize
    BY <1>6, <2>1, EmptiedBusy DEF Stop, Finalize
  <2>2. CASE ~Finalize
    BY <1>6, <2>2, ToldBusy DEF Stop
  <2> QED
    BY <2>1, <2>2
<1>7. CASE TakeOver
  <2>1. CASE HandOver(Running)
    BY <1>7, <2>1, EmptiedBusy DEF TakeOver, HandOver
  <2>2. CASE ~HandOver(Running)
    BY <1>7, <2>2, ToldBusy DEF TakeOver
  <2> QED
    BY <2>1, <2>2
<1> QED
  BY <1>1, <1>2, <1>3, <1>4, <1>5, <1>6, <1>7 DEF Order

LEMMA ReplaceBusy ==
    ASSUME BusyInv, NEW w \in Ids, Replace(w)
    PROVE ProcessesOK' /\ BusyMeansWorking'
<1>0. slot \in [Ids -> SlotRecords]
  BY PoolType DEF BusyInv, PoolTypeOK
<1>1. CASE /\ slot' = [slot EXCEPT ![w] = NoSlot]
           /\ child' = Killed({slot[w].child})
           /\ UNCHANGED spawned
  BY <1>0, <1>1, KilledCalm, CalmKeeps DEF CalmSlot, NoSlot
<1>2. CASE /\ spawned < MaxSpawns
           /\ spawned' = spawned + 1
           /\ slot' = [slot EXCEPT ![w] = [child |-> spawned + 1, task |-> 0, expected |-> FALSE]]
           /\ child' = [Killed({slot[w].child}) EXCEPT ![spawned + 1].run = "alive"]
  BY <1>2, SpawnKeeps
<1> QED
  BY <1>1, <1>2 DEF Replace

LEMMA LoopBusy ==
    ASSUME BusyInv, Loop
    PROVE ProcessesOK' /\ BusyMeansWorking'
<1>1. CASE TickRefused \/ EnterPlan \/ PickEnds \/ TickEnds
  BY <1>1, PoolUntouched DEF TickRefused, EnterPlan, PickEnds, TickEnds
<1>2. CASE TickRecovers
  BY <1>2, StartingBusy DEF TickRecovers
<1>3. CASE Tick
  <2>0. slot \in [Ids -> SlotRecords]
    BY PoolType DEF BusyInv, PoolTypeOK
  <2>1. CASE UNCHANGED poolVars
    BY <2>1, PoolUntouched
  <2>2. CASE CanSpawn /\ SpawnOne
    BY <2>2, SpawnType, SpawnKeeps DEF BusyInv, CanSpawn, SpawnOne
  <2>3. ASSUME NEW w \in Ids, Retire(w) PROVE ProcessesOK' /\ BusyMeansWorking'
    BY <2>0, <2>3, KilledCalm, CalmKeeps DEF Retire, CalmSlot, NoSlot
  <2> QED
    BY <1>3, <2>1, <2>2, <2>3 DEF Tick, EnsureSize, Idle, Workers
<1>4. CASE Health
  <2>1. Min(todo) \in Ids
    <3>1. todo \in SUBSET Ids /\ todo \in SUBSET Nat /\ todo # {}
      BY <1>4, Constants DEF Health, BusyInv, LoopOK
    <3> QED
      BY <3>1, LeastIsIn
  <2>2. Replace(Min(todo))
    BY <1>4 DEF Health
  <2> QED
    BY <2>1, <2>2, ReplaceBusy
<1>5. CASE \E n \in Nodes : Duplicate(n)
  <2>1. PICK n \in Nodes : Duplicate(n)
    BY <1>5
  <2>2. Dispatch(n, dup[n], TRUE) /\ dup[n] \in Ids /\ spawned' = spawned
    BY <2>1 DEF Duplicate, BusyInv, LoopOK
  <2> QED
    BY <2>2, DispatchBusy
<1>6. CASE \E n \in Nodes, w \in Ids : Pick(n, w)
  BY <1>6, DispatchBusy DEF Pick
<1> QED
  BY <1>1, <1>2, <1>3, <1>4, <1>5, <1>6 DEF Loop

LEMMA CrashBusy ==
    ASSUME BusyInv, Crash
    PROVE ProcessesOK' /\ BusyMeansWorking'
<1>1. \A w \in Ids : slot'[w].child = 0 /\ child'[w].run = "none" /\ child'[w].out.status = "none"
  BY DEF Crash, NoSlot, Unborn, NoOut
<1>2. spawned' = 0
  BY DEF Crash
<1> QED
  BY <1>1, <1>2 DEF ProcessesOK, BusyMeansWorking, Slots

\* pool.assign, consume and handleResult: no slot is busy for an answer that never comes.
THEOREM BusyIsAnswered == Spec => []BusyMeansWorking
<1>1. Init => ProcessesOK /\ BusyMeansWorking
  BY Constants DEF Init, ProcessesOK, BusyMeansWorking, Slots, NoSlot, Unborn, NoOut
<1>2. TypeOK /\ LoopOK /\ ProcessesOK /\ BusyMeansWorking /\ [Next]_vars => ProcessesOK' /\ BusyMeansWorking'
  <2> SUFFICES ASSUME BusyInv, [Next]_vars PROVE ProcessesOK' /\ BusyMeansWorking'
    BY DEF BusyInv
  <2>1. CASE UNCHANGED vars
    BY <2>1, PoolUntouched DEF vars
  <2>2. CASE StopEnds
    BY <2>2, EmptiedBusy DEF StopEnds, Finalize
  <2>3. CASE TakeOverEnds
    BY <2>3, EmptiedBusy DEF TakeOverEnds, HandOver
  <2> QED
    BY <2>1, <2>2, <2>3, WorkerBusy, CallbackBusy, OrderBusy, CrashBusy, LoopBusy DEF Next
<1>3. IInv => TypeOK /\ LoopOK
  BY DEF IInv
<1> QED
  BY <1>1, <1>2, <1>3, Invariance, PTL DEF Spec
================================================================================
