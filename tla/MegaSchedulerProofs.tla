-------------------------- MODULE MegaSchedulerProofs --------------------------
(* Proofs about MegaScheduler for every set of tasks, number of slots and attempts, *)
(* health decisions, and every bound on upsets and lives.                            *)
EXTENDS MegaScheduler, FiniteSetTheorems, TLAPS

\* Where a tick can be, and what it holds.
Ticks == [at : {"idle", "listing", "supervise", "walk", "dispatch", "end"},
          asked : SUBSET Tasks, rest : SUBSET Tasks, sent : SUBSET Tasks,
          peak : BOOLEAN, changed : BOOLEAN, again : BOOLEAN]

\* A tick begins with the tasks it will ask after, whoever asks for it.
LEMMA BegunIsTick ==
  ASSUME NEW slots \in SUBSET Tasks, NEW again \in BOOLEAN
  PROVE  Begun(slots, again) \in Ticks
BY DEF Begun, Asked, Resting, Ticks

LEMMA RequestKeepsTick ==
  ASSUME tick \in Ticks, NEW slots \in SUBSET Tasks, NEW again \in BOOLEAN, RequestTick(slots, again)
  PROVE  tick' \in Ticks
<1>1. CASE tick.at = "idle"
  BY <1>1, BegunIsTick DEF RequestTick
<1>2. CASE tick.at # "idle"
  BY <1>2 DEF RequestTick, Ticks
<1> QED
  BY <1>1, <1>2

LEMMA TickAfterKeepsTick ==
  ASSUME tick \in Ticks, running \in SUBSET Tasks, NEW D, TickAfter(D)
  PROVE  tick' \in Ticks
<1>1. CASE D = {}
  BY <1>1 DEF TickAfter
<1>2. CASE D # {}
  <2>1. PICK first \in D : RequestTick(running \ {first}, Cardinality(D) > 1)
    BY <1>2 DEF TickAfter
  <2>2. running \ {first} \in SUBSET Tasks /\ (Cardinality(D) > 1) \in BOOLEAN
    OBVIOUS
  <2> QED
    BY <2>1, <2>2, RequestKeepsTick
<1> QED
  BY <1>1, <1>2

--------------------------------------------------------------------------------
(* The inductive invariant                                                      *)

\* A shell that is down holds nothing: what it will know of a task is on file.
DownHoldsNothing ==
    app = "down" =>
        /\ tick.at = "idle" /\ listed = {} /\ running = {} /\ kid = {}
        /\ \A t \in Tasks : /\ sess[t] = "none"
                            /\ IF disk[t] = "none" THEN st[t] \in {"absent", "over"} ELSE st[t] = disk[t]

\* The queue holds the tasks that have not ended, and the file no other.
QueueIsOpen ==
    /\ \A t \in listed : st[t] \in QueuedStatus \cup ActiveStatus
    /\ app # "down" => \A t \in Tasks :
           /\ st[t] \in QueuedStatus \cup {"DISPATCHING"} => t \in listed
           /\ st[t] = "RUNNING" /\ t \notin Official => t \in listed
           /\ disk[t] # "none" => t \in listed

\* Sessions are of official tasks, children of the others.
WorkIsOfItsKind == \A t \in Tasks : IF t \in Official THEN t \notin kid ELSE sess[t] = "none"

\* What an await of the tick has asked for is in the queue or has ended meanwhile.
AwaitsAreKnown ==
    /\ tick.at = "listing" => \A t \in tick.asked :
           t \in Official /\ (t \in listed \/ st[t] \in TerminalStatus)
    /\ tick.at = "dispatch" => \A t \in tick.sent :
           /\ t \in Official /\ sess[t] = "asked"
           /\ \/ t \in running /\ st[t] = "DISPATCHING"
              \/ t \notin listed /\ st[t] \in TerminalStatus

\* Only a walk that has changed the queue, or a start that threw, leaves an entry that is
\* not on file.
FileIsBehind(t) == threw \/ (tick.at \in {"walk", "end"} /\ tick.changed)

Recorded(t) ==
    /\ app # "down" /\ t \in listed => disk[t] # "none" \/ FileIsBehind(t)
    /\ \/ st[t] = "absent" \/ t \in dropped \cup hist \/ threw
       \/ IF app = "down" THEN disk[t] # "none" ELSE t \in listed
    /\ st[t] = "absent" => told[t] = 0

QueueInv ==
    /\ QueueTypeOK /\ IsFiniteSet(running)
    /\ DownHoldsNothing /\ QueueIsOpen /\ WorkIsOfItsKind /\ AwaitsAreKnown
    /\ WorkHasASlot
    /\ \A t \in Tasks : OneOutcome(t) /\ Recorded(t)

LEMMA QueueInitially == ASSUME MegaSchedulerAssumption, QueueInit PROVE QueueInv
<1>1. QueueTypeOK
  <2> USE DEF QueueInit
  <2>1. st \in [Tasks -> Status] /\ disk \in [Tasks -> QueuedStatus \cup ActiveStatus \cup {"none"}]
        /\ sess \in [Tasks -> {"none", "asked", "live", "idle", "lost"}]
    BY DEF Status
  <2>2. attempts \in [Tasks -> 0..MaxAttempts] /\ told \in [Tasks -> Nat]
        /\ upsets \in 0..MaxUpsets /\ lives \in 0..MaxLives
    BY DEF MegaSchedulerAssumption
  <2>3. tick \in Ticks
    BY DEF Resting, Ticks
  <2> QED
    BY <2>1, <2>2, <2>3 DEF QueueTypeOK, Ticks, MegaSchedulerAssumption
<1>2. IsFiniteSet(running) /\ Cardinality(running) = 0
  BY FS_EmptySet DEF QueueInit
<1>3. WorkHasASlot
  BY <1>2 DEF QueueInit, WorkHasASlot, Active, Working, MegaSchedulerAssumption
<1>4. \A t \in Tasks : OneOutcome(t) /\ Recorded(t)
  BY DEF QueueInit, OneOutcome, Recorded
<1>5. DownHoldsNothing /\ QueueIsOpen /\ WorkIsOfItsKind /\ AwaitsAreKnown
  BY DEF QueueInit, Resting, DownHoldsNothing, QueueIsOpen, WorkIsOfItsKind, AwaitsAreKnown
<1> QED
  BY <1>1, <1>2, <1>3, <1>4, <1>5 DEF QueueInv

--------------------------------------------------------------------------------
(* What the actions are made of                                                 *)

LEMMA Leaving ==
  ASSUME QueueTypeOK, QueueIsOpen, NEW D \in SUBSET Tasks, NEW how \in [Tasks -> TerminalStatus], Leave(D, how)
  PROVE  /\ st' \in [Tasks -> Status] /\ disk' \in [Tasks -> QueuedStatus \cup ActiveStatus \cup {"none"}]
         /\ listed' = listed \ D /\ running' = running \ D
         /\ \A t \in Tasks : /\ st'[t] = IF t \in D THEN how[t] ELSE st[t]
                             /\ disk'[t] = IF t \in listed \ D THEN st[t] ELSE "none"
BY DEF QueueTypeOK, QueueIsOpen, Leave, Saved, Status, QueuedStatus, ActiveStatus, TerminalStatus

\* SUBSET of a finite set of slots.
LEMMA FewerSlots ==
  ASSUME MegaSchedulerAssumption, IsFiniteSet(running), Cardinality(running) <= Slots, NEW S \in SUBSET running
  PROVE  IsFiniteSet(S) /\ Cardinality(S) <= Slots
BY FS_Subset, FS_CardinalityType DEF MegaSchedulerAssumption

\* Terminal transitions of entries of the queue, each announced, keep what is recorded true.
LEMMA EndsAreRecorded ==
  ASSUME QueueInv, app # "down", app' # "down", threw' = threw,
         NEW D \in SUBSET listed, NEW how \in [Tasks -> TerminalStatus], Leave(D, how),
         told' = [t \in Tasks |-> told[t] + IF t \in D THEN 1 ELSE 0],
         dropped \cup hist \cup D \subseteq dropped' \cup hist'
  PROVE  QueueIsOpen' /\ \A t \in Tasks : OneOutcome(t)' /\ Recorded(t)'
<1>1. QueueTypeOK /\ QueueIsOpen /\ D \in SUBSET Tasks
  BY DEF QueueInv, QueueTypeOK
<1>2. /\ listed' = listed \ D /\ listed \subseteq Tasks
      /\ \A t \in Tasks : /\ st'[t] = IF t \in D THEN how[t] ELSE st[t]
                          /\ disk'[t] = IF t \in listed \ D THEN st[t] ELSE "none"
  BY <1>1, Leaving DEF QueueTypeOK
<1>3. QueueIsOpen'
  BY <1>1, <1>2 DEF QueueIsOpen, QueuedStatus, ActiveStatus, TerminalStatus
<1>4. ASSUME NEW t \in Tasks PROVE OneOutcome(t)' /\ Recorded(t)'
  <2>1. told[t] \in Nat /\ told'[t] = told[t] + IF t \in D THEN 1 ELSE 0
    BY <1>1 DEF QueueTypeOK
  <2>2. OneOutcome(t) /\ Recorded(t)
    BY DEF QueueInv
  <2>3. t \in D => st'[t] \in TerminalStatus
    BY <1>2
  <2>4. OneOutcome(t)'
    BY <1>2, <2>1, <2>2 DEF OneOutcome
  <2>5. t \in listed' => disk'[t] # "none"
    BY <1>1, <1>2 DEF QueueIsOpen, QueuedStatus, ActiveStatus
  <2>6. st'[t] = "absent" => told'[t] = 0
    BY <1>2, <2>1, <2>2, <2>3 DEF Recorded, TerminalStatus
  <2> QED
    BY <1>2, <2>2, <2>4, <2>5, <2>6 DEF Recorded
<1> QED
  BY <1>3, <1>4

\* They free the slots of the entries, whose work has been stopped or is loose.
LEMMA EndsFreeSlots ==
  ASSUME MegaSchedulerAssumption, QueueInv, threw' = threw,
         NEW D \in SUBSET listed, NEW how \in [Tasks -> TerminalStatus], Leave(D, how),
         \A t \in Tasks : Working(t)' => t \in (running \ D) \cup loose'
  PROVE  WorkHasASlot' /\ IsFiniteSet(running')
<1>1. QueueTypeOK /\ QueueIsOpen /\ WorkHasASlot /\ IsFiniteSet(running) /\ D \in SUBSET Tasks
  BY DEF QueueInv, QueueTypeOK
<1>2. /\ listed' = listed \ D /\ running' = running \ D
      /\ \A t \in Tasks : st'[t] = IF t \in D THEN how[t] ELSE st[t]
  BY <1>1, Leaving
<1>3. IsFiniteSet(running') /\ Cardinality(running') <= Slots
  BY <1>1, <1>2, FewerSlots DEF WorkHasASlot
<1>4. listed \subseteq Tasks
  BY <1>1 DEF QueueTypeOK
<1>5. Active' = Active \ D
  BY <1>2, <1>4 DEF Active
<1> QED
  BY <1>1, <1>2, <1>3, <1>5 DEF WorkHasASlot

\* What a tick waits for stays in the queue or ends, whoever asks for the next tick.
LEMMA AwaitsStayKnown ==
  ASSUME QueueInv,
         tick' = tick \/ \E slots \in SUBSET running, again \in BOOLEAN : RequestTick(slots, again),
         \A t \in Tasks : \/ /\ st'[t] = st[t] /\ (t \in listed => t \in listed')
                             /\ (t \in running => t \in running') /\ (t \in listed' => t \in listed)
                          \/ st'[t] \in TerminalStatus /\ t \notin listed'
                          \/ st[t] = "absent",
         \A t \in Tasks : sess[t] = "asked" => sess'[t] = "asked"
  PROVE  AwaitsAreKnown'
<1>1. QueueTypeOK /\ AwaitsAreKnown /\ WorkHasASlot /\ \A t \in listed : st[t] # "absent"
  BY DEF QueueInv, QueueIsOpen, QueuedStatus, ActiveStatus
<1>2. tick.asked \subseteq Tasks /\ tick.sent \subseteq Tasks /\ running \subseteq listed
      /\ \A t \in tick.asked \cup tick.sent : t \in Tasks
  BY <1>1 DEF QueueTypeOK, WorkHasASlot, Active
<1>3. CASE tick'.at = tick.at /\ tick'.asked = tick.asked /\ tick'.sent = tick.sent
  BY <1>1, <1>2, <1>3 DEF AwaitsAreKnown, TerminalStatus
<1>4. ASSUME NEW slots \in SUBSET running, NEW again \in BOOLEAN, tick.at = "idle", tick' = Begun(slots, again)
      PROVE  AwaitsAreKnown'
  <2>1. tick'.at \in {"listing", "supervise"} /\ tick'.asked = Asked(slots)
    BY <1>4 DEF Begun, Resting
  <2>2. \A t \in Asked(slots) : t \in Official /\ t \in listed /\ st[t] = "RUNNING" /\ t \in Tasks
    BY <1>1, <1>2 DEF Asked, QueueTypeOK
  <2> QED
    BY <2>1, <2>2 DEF AwaitsAreKnown
<1> QED
  BY <1>1, <1>3, <1>4 DEF RequestTick, QueueTypeOK


\* Interrupting active tasks leaves no work that is not loose, and forgets no request.
LEMMA InterruptionStops ==
  ASSUME QueueInv, NEW D \in SUBSET Tasks, NEW astray \in SUBSET D, NEW left \in SUBSET Tasks,
         Interrupted(D, astray, left)
  PROVE  /\ sess' \in [Tasks -> {"none", "asked", "live", "idle", "lost"}]
         /\ kid' \subseteq Tasks /\ loose' \subseteq Tasks /\ loose \subseteq loose' /\ left \subseteq loose'
         /\ WorkIsOfItsKind'
         /\ \A t \in Tasks : sess[t] = "asked" => sess'[t] = "asked"
         /\ \A t \in Tasks : Working(t)' => Working(t) /\ (t \in D => t \in loose')
<1>1. QueueTypeOK /\ WorkIsOfItsKind
  BY DEF QueueInv
<1>2. \A t \in Tasks : sess'[t] = IF t \in D /\ sess[t] # "asked" THEN "none" ELSE sess[t]
  BY DEF Interrupted
<1> QED
  BY <1>1, <1>2 DEF Interrupted, QueueTypeOK, WorkIsOfItsKind, Working

\* Everything the events have in common that end entries of the queue: cancelTask(),
\* clearPending(), removeTasks(), stop() and the exit of a child.
LEMMA EndingStep ==
  ASSUME MegaSchedulerAssumption, QueueInv, app # "down", app' \in {"up", "closing"},
         NEW D \in SUBSET listed, NEW how \in [Tasks -> TerminalStatus], Leave(D, how),
         told' = [t \in Tasks |-> told[t] + IF t \in D THEN 1 ELSE 0],
         hist' \subseteq Tasks, dropped' \subseteq Tasks, dropped \cup hist \cup D \subseteq dropped' \cup hist',
         tick' = tick \/ \E slots \in SUBSET running, again \in BOOLEAN : RequestTick(slots, again),
         sess' \in [Tasks -> {"none", "asked", "live", "idle", "lost"}],
         kid' \subseteq Tasks, loose' \subseteq Tasks, WorkIsOfItsKind',
         \A t \in Tasks : sess[t] = "asked" => sess'[t] = "asked",
         \A t \in Tasks : Working(t)' => t \in (running \ D) \cup loose',
         upsets' \in 0..MaxUpsets, UNCHANGED <<attempts, due, factor, health, peak, lives, threw>>
  PROVE  QueueInv'
<1>1. QueueTypeOK /\ QueueIsOpen /\ WorkHasASlot /\ D \in SUBSET Tasks /\ tick \in Ticks
  BY DEF QueueInv, QueueTypeOK, Ticks
<1>2. /\ st' \in [Tasks -> Status] /\ disk' \in [Tasks -> QueuedStatus \cup ActiveStatus \cup {"none"}]
      /\ listed' = listed \ D /\ running' = running \ D
      /\ \A t \in Tasks : st'[t] = IF t \in D THEN how[t] ELSE st[t]
  BY <1>1, Leaving
<1>3. tick' \in Ticks
  BY <1>1, RequestKeepsTick DEF QueueTypeOK
<1>4. told' \in [Tasks -> Nat]
  BY <1>1 DEF QueueTypeOK
<1>5. QueueTypeOK'
  BY <1>1, <1>2, <1>3, <1>4 DEF QueueTypeOK, Ticks
<1>6. QueueIsOpen' /\ \A t \in Tasks : OneOutcome(t)' /\ Recorded(t)'
  BY EndsAreRecorded
<1>7. WorkHasASlot' /\ IsFiniteSet(running')
  BY EndsFreeSlots
<1>8. AwaitsAreKnown'
  <2>1. \A t \in Tasks : \/ /\ st'[t] = st[t] /\ (t \in listed => t \in listed')
                            /\ (t \in running => t \in running') /\ (t \in listed' => t \in listed)
                         \/ st'[t] \in TerminalStatus /\ t \notin listed'
    BY <1>2
  <2> QED
    BY <2>1, AwaitsStayKnown
<1> QED
  BY <1>5, <1>6, <1>7, <1>8 DEF QueueInv, DownHoldsNothing

\* terminate() asks for a tick, if it has ended anything.
LEMMA TerminationAsks ==
  ASSUME NEW D, TickAfter(D)
  PROVE  tick' = tick \/ \E slots \in SUBSET running, again \in BOOLEAN : RequestTick(slots, again)
<1>1. ASSUME NEW first, RequestTick(running \ {first}, Cardinality(D) > 1)
      PROVE  \E slots \in SUBSET running, again \in BOOLEAN : RequestTick(slots, again)
  <2>1. running \ {first} \in SUBSET running /\ (Cardinality(D) > 1) \in BOOLEAN
    OBVIOUS
  <2> QED
    BY <1>1, <2>1
<1> QED
  BY <1>1 DEF TickAfter

LEMMA CancelStep ==
  ASSUME MegaSchedulerAssumption, QueueInv, NEW t \in Tasks, CancelTask(t)
  PROVE  QueueInv'
<1>1. QueueTypeOK /\ WorkHasASlot /\ app # "down" /\ {t} \in SUBSET listed /\ upsets' \in 0..MaxUpsets /\ app' \in {"up", "closing"}
  BY DEF QueueInv, CancelTask, Upset, QueueTypeOK, MegaSchedulerAssumption
<1>2. PICK astray \in SUBSET {t} : Interrupted({t} \cap Active, astray, {})
  BY DEF CancelTask
<1>3. {t} \cap Active \in SUBSET Tasks /\ astray \in SUBSET ({t} \cap Active) /\ {} \in SUBSET Tasks
  BY <1>2 DEF Interrupted
<1>4. /\ sess' \in [Tasks -> {"none", "asked", "live", "idle", "lost"}]
      /\ kid' \subseteq Tasks /\ loose' \subseteq Tasks /\ loose \subseteq loose'
      /\ WorkIsOfItsKind'
      /\ \A u \in Tasks : sess[u] = "asked" => sess'[u] = "asked"
      /\ \A u \in Tasks : Working(u)' => Working(u) /\ (u \in {t} \cap Active => u \in loose')
  BY <1>2, <1>3, InterruptionStops
<1>5. \A u \in Tasks : Working(u)' => u \in (running \ {t}) \cup loose'
  BY <1>1, <1>4 DEF WorkHasASlot
<1>6. All("CANCELED") \in [Tasks -> TerminalStatus]
  BY DEF All, TerminalStatus
<1>7. /\ Leave({t}, All("CANCELED")) /\ Announce({t}) /\ TickAfter({t})
      /\ UNCHANGED <<attempts, due, dropped, app, factor, health, peak, lives, threw>>
  BY DEF CancelTask, Terminate
<1>8. hist' \subseteq Tasks /\ dropped' \subseteq Tasks /\ dropped \cup hist \cup {t} \subseteq dropped' \cup hist'
  BY <1>1, <1>7 DEF Announce, QueueTypeOK
<1> QED
  BY <1>1, <1>4, <1>5, <1>6, <1>7, <1>8, TerminationAsks, EndingStep DEF Announce


LEMMA ClearStep ==
  ASSUME MegaSchedulerAssumption, QueueInv, ClearPending
  PROVE  QueueInv'
<1> DEFINE D == Queued
<1>1. /\ QueueTypeOK /\ WorkHasASlot /\ WorkIsOfItsKind /\ D \in SUBSET listed
      /\ app # "down" /\ upsets' \in 0..MaxUpsets /\ app' \in {"up", "closing"}
  BY DEF QueueInv, ClearPending, Upset, QueueTypeOK, MegaSchedulerAssumption, Queued
<1>2. All("CANCELED") \in [Tasks -> TerminalStatus]
  BY DEF All, TerminalStatus
<1>3. /\ Leave(D, All("CANCELED")) /\ Announce(D) /\ TickAfter(D)
      /\ UNCHANGED <<attempts, due, workVars, dropped, app, factor, health, peak, lives, threw>>
  BY DEF ClearPending, Terminate
<1>4. D \cap running = {}
  BY <1>1 DEF WorkHasASlot, Active, Queued, QueuedStatus, ActiveStatus
<1>5. \A u \in Tasks : Working(u)' => u \in (running \ D) \cup loose'
  BY <1>1, <1>3, <1>4 DEF WorkHasASlot, Working, workVars
<1>6. /\ sess' \in [Tasks -> {"none", "asked", "live", "idle", "lost"}]
      /\ kid' \subseteq Tasks /\ loose' \subseteq Tasks /\ WorkIsOfItsKind'
      /\ \A u \in Tasks : sess[u] = "asked" => sess'[u] = "asked"
  BY <1>1, <1>3 DEF workVars, QueueTypeOK, WorkIsOfItsKind
<1>7. hist' \subseteq Tasks /\ dropped' \subseteq Tasks /\ dropped \cup hist \cup D \subseteq dropped' \cup hist'
  BY <1>1, <1>3 DEF Announce, QueueTypeOK
<1> HIDE DEF D
<1> QED
  BY <1>1, <1>2, <1>3, <1>5, <1>6, <1>7, TerminationAsks, EndingStep DEF Announce

LEMMA RemoveStep ==
  ASSUME MegaSchedulerAssumption, QueueInv, NEW S \in SUBSET Tasks, RemoveTasks(S)
  PROVE  QueueInv'
<1> DEFINE D == S \cap listed
           E == S \cap Active
<1>1. /\ QueueTypeOK /\ WorkHasASlot /\ D \in SUBSET listed /\ app # "down"
      /\ upsets' \in 0..MaxUpsets /\ app' \in {"up", "closing"}
  BY DEF QueueInv, RemoveTasks, Upset, QueueTypeOK, MegaSchedulerAssumption
<1>2. PICK astray \in SUBSET S : Interrupted(E, astray, {})
  BY DEF RemoveTasks
<1>3. E \in SUBSET Tasks /\ astray \in SUBSET E /\ {} \in SUBSET Tasks
  BY <1>2 DEF Interrupted
<1>4. /\ sess' \in [Tasks -> {"none", "asked", "live", "idle", "lost"}]
      /\ kid' \subseteq Tasks /\ loose' \subseteq Tasks /\ loose \subseteq loose'
      /\ WorkIsOfItsKind'
      /\ \A u \in Tasks : sess[u] = "asked" => sess'[u] = "asked"
      /\ \A u \in Tasks : Working(u)' => Working(u) /\ (u \in E => u \in loose')
  <2> HIDE DEF E
  <2> QED
    BY <1>2, <1>3, InterruptionStops
<1>5. \A u \in Tasks : Working(u)' => u \in (running \ D) \cup loose'
  BY <1>1, <1>4 DEF WorkHasASlot
<1>6. All("CANCELED") \in [Tasks -> TerminalStatus]
  BY DEF All, TerminalStatus
<1>7. /\ Leave(D, All("CANCELED")) /\ hist' = hist \ S /\ dropped' = dropped \cup S
      /\ told' = [t \in Tasks |-> told[t] + IF t \in D THEN 1 ELSE 0]
      /\ UNCHANGED <<attempts, due, app, factor, health, peak, lives, threw>>
  BY DEF RemoveTasks
<1>8. tick' = tick \/ \E slots \in SUBSET running, again \in BOOLEAN : RequestTick(slots, again)
  <2>1. ASSUME NEW first \in D, RequestTick(running \ {first}, TRUE)
        PROVE  \E slots \in SUBSET running, again \in BOOLEAN : RequestTick(slots, again)
    <3>1. running \ {first} \in SUBSET running /\ TRUE \in BOOLEAN
      OBVIOUS
    <3> QED
      BY <2>1, <3>1
  <2> QED
    BY <2>1 DEF RemoveTasks
<1>9. hist' \subseteq Tasks /\ dropped' \subseteq Tasks /\ dropped \cup hist \cup D \subseteq dropped' \cup hist'
  BY <1>1, <1>7 DEF QueueTypeOK
<1> HIDE DEF D, E
<1> QED
  BY <1>1, <1>4, <1>5, <1>6, <1>7, <1>8, <1>9, EndingStep

LEMMA ExitOfChildStep ==
  ASSUME MegaSchedulerAssumption, QueueInv, NEW t \in Tasks, ChildExits(t)
  PROVE  QueueInv'
<1> DEFINE D == {t} \cap {u \in Tasks : st[u] = "RUNNING"}
<1>1. /\ QueueTypeOK /\ QueueIsOpen /\ WorkHasASlot /\ WorkIsOfItsKind /\ app # "down" /\ t \in kid
      /\ app' \in {"up", "closing"}
  BY DEF QueueInv, ChildExits, QueueTypeOK
<1>2. D \in SUBSET listed
  BY <1>1 DEF QueueIsOpen, WorkIsOfItsKind
<1>3. PICK how \in {"COMPLETED", "FAILED"} : Terminate(D, All(how))
  BY DEF ChildExits
<1>4. Leave(D, All(how)) /\ Announce(D) /\ TickAfter(D)
  BY <1>3 DEF Terminate
<1>5. All(how) \in [Tasks -> TerminalStatus]
  BY DEF All, TerminalStatus
<1>6. kid' = kid \ {t} /\ UNCHANGED <<attempts, due, sess, loose, dropped, app, factor, health, peak, upsets, lives, threw>>
  BY DEF ChildExits, envVars
<1>7. \A u \in Tasks : Working(u)' => u \in (running \ D) \cup loose'
  BY <1>1, <1>6 DEF WorkHasASlot, Working, WorkIsOfItsKind
<1>8. /\ sess' \in [Tasks -> {"none", "asked", "live", "idle", "lost"}] /\ upsets' \in 0..MaxUpsets
      /\ kid' \subseteq Tasks /\ loose' \subseteq Tasks /\ WorkIsOfItsKind'
      /\ \A u \in Tasks : sess[u] = "asked" => sess'[u] = "asked"
  BY <1>1, <1>6 DEF QueueTypeOK, WorkIsOfItsKind
<1>9. hist' \subseteq Tasks /\ dropped' \subseteq Tasks /\ dropped \cup hist \cup D \subseteq dropped' \cup hist'
  BY <1>1, <1>4, <1>6 DEF Announce, QueueTypeOK
<1> HIDE DEF D
<1> QED
  BY <1>1, <1>2, <1>4, <1>5, <1>6, <1>7, <1>8, <1>9, TerminationAsks, EndingStep DEF Announce

LEMMA StopStep ==
  ASSUME MegaSchedulerAssumption, QueueInv, Stop
  PROVE  QueueInv'
<1> DEFINE D == Active
<1>1. /\ QueueTypeOK /\ WorkHasASlot /\ D \in SUBSET listed /\ D \in SUBSET Tasks /\ {} \in SUBSET Tasks
      /\ app # "down" /\ upsets' \in 0..MaxUpsets /\ app' \in {"up", "closing"}
  BY DEF QueueInv, Stop, QueueTypeOK, envVars, Active
<1>2. PICK astray \in SUBSET D : Interrupted(D, astray, {})
  BY DEF Stop
<1>3. /\ Leave(D, All("INTERRUPTED")) /\ Announce(D) /\ TickAfter(D)
      /\ UNCHANGED <<attempts, due, dropped, factor, health, peak, lives, threw>>
  BY DEF Stop, Terminate, envVars
<1>4. All("INTERRUPTED") \in [Tasks -> TerminalStatus]
  BY DEF All, TerminalStatus
<1> HIDE DEF D
<1>5. /\ sess' \in [Tasks -> {"none", "asked", "live", "idle", "lost"}]
      /\ kid' \subseteq Tasks /\ loose' \subseteq Tasks /\ loose \subseteq loose'
      /\ WorkIsOfItsKind'
      /\ \A u \in Tasks : sess[u] = "asked" => sess'[u] = "asked"
      /\ \A u \in Tasks : Working(u)' => Working(u) /\ (u \in D => u \in loose')
  BY <1>1, <1>2, InterruptionStops
<1>6. \A u \in Tasks : Working(u)' => u \in (running \ D) \cup loose'
  BY <1>1, <1>5 DEF WorkHasASlot
<1>7. hist' \subseteq Tasks /\ dropped' \subseteq Tasks /\ dropped \cup hist \cup D \subseteq dropped' \cup hist'
  BY <1>1, <1>3 DEF Announce, QueueTypeOK
<1> QED
  BY <1>1, <1>3, <1>4, <1>5, <1>6, <1>7, TerminationAsks, EndingStep DEF Announce


\* The list of sessions ends the tasks it asked after that are still open.
LEMMA ListStep ==
  ASSUME MegaSchedulerAssumption, QueueInv, ListAnswered
  PROVE  QueueInv'
<1> DEFINE D == Open({t \in tick.asked : sess[t] \in {"idle", "lost"}})
           how == [t \in Tasks |-> IF sess[t] = "idle" THEN "COMPLETED" ELSE "FAILED"]
<1>1. /\ QueueTypeOK /\ QueueIsOpen /\ WorkHasASlot /\ WorkIsOfItsKind /\ AwaitsAreKnown
      /\ tick.at = "listing" /\ app # "down" /\ tick \in Ticks
  BY DEF QueueInv, ListAnswered, DownHoldsNothing, QueueTypeOK, Ticks
<1>2. D \in SUBSET listed /\ D \in SUBSET Official /\ D \in SUBSET Tasks
  BY <1>1 DEF AwaitsAreKnown, Open, QueueTypeOK, Ticks
<1>3. how \in [Tasks -> TerminalStatus]
  BY DEF TerminalStatus
<1>4. /\ Leave(D, how) /\ Announce(D)
      /\ sess' = [t \in Tasks |-> IF t \in D THEN "none" ELSE sess[t]]
      /\ tick' = [tick EXCEPT !.at = "supervise", !.asked = {}, !.again = @ \/ D # {}]
      /\ UNCHANGED <<attempts, due, kid, loose, dropped, app, factor, health, peak, upsets, lives, threw>>
  BY DEF ListAnswered, envVars
<1> HIDE DEF D, how
<1>5. /\ st' \in [Tasks -> Status] /\ disk' \in [Tasks -> QueuedStatus \cup ActiveStatus \cup {"none"}]
      /\ listed' = listed \ D /\ running' = running \ D
  BY <1>1, <1>2, <1>3, <1>4, Leaving
<1>6. tick' \in Ticks /\ tick'.at = "supervise" /\ told' \in [Tasks -> Nat]
      /\ sess' \in [Tasks -> {"none", "asked", "live", "idle", "lost"}]
  <2>1. tick' \in Ticks /\ tick'.at = "supervise"
    BY <1>1, <1>4 DEF Ticks
  <2>2. told' \in [Tasks -> Nat]
    BY <1>1, <1>4 DEF Announce, QueueTypeOK
  <2> QED
    BY <1>1, <1>4, <2>1, <2>2 DEF QueueTypeOK
<1>7. QueueTypeOK'
  BY <1>1, <1>2, <1>4, <1>5, <1>6 DEF QueueTypeOK, Ticks, Announce
<1>8. dropped \cup hist \cup D \subseteq dropped' \cup hist'
  BY <1>4 DEF Announce
<1>9. QueueIsOpen' /\ \A t \in Tasks : OneOutcome(t)' /\ Recorded(t)'
  BY <1>1, <1>2, <1>3, <1>4, <1>8, EndsAreRecorded DEF Announce
<1>10. \A t \in Tasks : Working(t)' => t \in (running \ D) \cup loose'
  BY <1>1, <1>2, <1>4 DEF Working, WorkHasASlot, WorkIsOfItsKind
<1>11. WorkHasASlot' /\ IsFiniteSet(running')
  BY <1>1, <1>2, <1>3, <1>4, <1>10, EndsFreeSlots
<1>12. WorkIsOfItsKind' /\ AwaitsAreKnown' /\ DownHoldsNothing'
  BY <1>1, <1>4, <1>6 DEF WorkIsOfItsKind, AwaitsAreKnown, DownHoldsNothing
<1> QED
  BY <1>7, <1>9, <1>11, <1>12 DEF QueueInv

\* A dispatch that fails ends its task, unless the task has ended meanwhile.
LEMMA DispatchFailedStep ==
  ASSUME MegaSchedulerAssumption, QueueInv, NEW t \in Tasks, DispatchFailed(t)
  PROVE  QueueInv'
<1> DEFINE D == Open({t})
<1>1. /\ QueueTypeOK /\ QueueIsOpen /\ WorkHasASlot /\ WorkIsOfItsKind /\ AwaitsAreKnown
      /\ tick.at = "dispatch" /\ t \in tick.sent /\ app # "down" /\ tick \in Ticks /\ upsets' \in 0..MaxUpsets
  BY DEF QueueInv, DispatchFailed, DownHoldsNothing, QueueTypeOK, Ticks, Upset, MegaSchedulerAssumption
<1>2. D \in SUBSET listed /\ t \in Official /\ sess[t] = "asked"
      /\ (t \in D \/ t \notin running)
  BY <1>1 DEF AwaitsAreKnown, Open, WorkHasASlot, Active, TerminalStatus
<1>3. All("FAILED") \in [Tasks -> TerminalStatus]
  BY DEF All, TerminalStatus
<1>4. /\ Leave(D, All("FAILED")) /\ Announce(D)
      /\ tick' = [Walking EXCEPT !.again = @ \/ D # {}]
      /\ UNCHANGED <<attempts, due, kid, dropped, app, factor, health, peak, lives, threw>>
  BY DEF DispatchFailed
<1>5. PICK taken \in BOOLEAN :
           /\ sess' = [sess EXCEPT ![t] = IF taken THEN "live" ELSE "none"]
           /\ loose' = IF taken THEN loose \cup {t} ELSE loose
  BY DEF DispatchFailed
<1>6. D \in SUBSET Tasks
  BY DEF Open
<1> HIDE DEF D
<1>7. /\ st' \in [Tasks -> Status] /\ disk' \in [Tasks -> QueuedStatus \cup ActiveStatus \cup {"none"}]
      /\ listed' = listed \ D /\ running' = running \ D
  BY <1>1, <1>3, <1>4, <1>6, Leaving
<1>8. tick' \in Ticks /\ tick'.at = "walk" /\ told' \in [Tasks -> Nat]
      /\ sess' \in [Tasks -> {"none", "asked", "live", "idle", "lost"}] /\ loose' \subseteq Tasks
  <2>1. tick' \in Ticks /\ tick'.at = "walk"
    BY <1>1, <1>4 DEF Ticks, Walking
  <2>2. told' \in [Tasks -> Nat]
    BY <1>1, <1>4 DEF Announce, QueueTypeOK
  <2> QED
    BY <1>1, <1>5, <2>1, <2>2 DEF QueueTypeOK
<1>9. QueueTypeOK'
  BY <1>1, <1>4, <1>6, <1>7, <1>8 DEF QueueTypeOK, Ticks, Announce
<1>10. dropped \cup hist \cup D \subseteq dropped' \cup hist'
  BY <1>4 DEF Announce
<1>11. QueueIsOpen' /\ \A u \in Tasks : OneOutcome(u)' /\ Recorded(u)'
  BY <1>1, <1>2, <1>3, <1>4, <1>10, EndsAreRecorded DEF Announce
<1>12. \A u \in Tasks : Working(u)' => u \in (running \ D) \cup loose'
  <2> TAKE u \in Tasks
  <2>1. CASE u = t
    BY <1>1, <1>2, <1>4, <1>5, <2>1 DEF Working, WorkIsOfItsKind, QueueTypeOK
  <2>2. CASE u # t
    <3>1. u \notin D
      BY <2>2, <1>6 DEF D, Open
    <3> QED
      BY <1>1, <1>4, <1>5, <2>2, <3>1 DEF Working, WorkHasASlot, QueueTypeOK
  <2> QED
    BY <2>1, <2>2
<1>13. WorkHasASlot' /\ IsFiniteSet(running')
  BY <1>1, <1>2, <1>3, <1>4, <1>12, EndsFreeSlots
<1>14. WorkIsOfItsKind' /\ AwaitsAreKnown' /\ DownHoldsNothing'
  BY <1>1, <1>2, <1>4, <1>5, <1>8 DEF WorkIsOfItsKind, AwaitsAreKnown, DownHoldsNothing, QueueTypeOK
<1> QED
  BY <1>9, <1>11, <1>13, <1>14 DEF QueueInv

--------------------------------------------------------------------------------
(* The other steps                                                              *)

\* The events that leave the entries and their work alone, but for what a session does of
\* itself, and that do not forget that the file is behind.
LEMMA QuietStep ==
  ASSUME QueueInv, QueueTypeOK', AwaitsAreKnown',
         UNCHANGED <<st, listed, running, kid, loose, hist, told, dropped, app, threw>>,
         \A t \in Tasks : sess'[t] = sess[t] \/ (sess[t] \in {"live", "idle"} /\ sess'[t] \in {"idle", "lost"}),
         \/ app # "down" /\ disk' = Saved(listed, st)
         \/ disk' = disk /\ \A t \in Tasks : FileIsBehind(t) => FileIsBehind(t)',
         app = "down" => tick' = tick
  PROVE  QueueInv'
<1>1. /\ QueueTypeOK /\ IsFiniteSet(running) /\ DownHoldsNothing /\ QueueIsOpen /\ WorkIsOfItsKind /\ WorkHasASlot
      /\ listed \subseteq Tasks
  BY DEF QueueInv, QueueTypeOK
<1>2. WorkHasASlot' /\ IsFiniteSet(running')
  BY <1>1 DEF WorkHasASlot, Active, Working
<1>3. WorkIsOfItsKind'
  BY <1>1 DEF WorkIsOfItsKind
<1>4. CASE disk' = Saved(listed, st) /\ app # "down"
  <2>1. \A t \in Tasks : disk'[t] = IF t \in listed THEN st[t] ELSE "none"
    BY <1>4 DEF Saved
  <2>2. \A t \in listed : disk'[t] # "none"
    BY <1>1, <2>1 DEF QueueIsOpen, QueuedStatus, ActiveStatus
  <2>3. QueueIsOpen' /\ DownHoldsNothing'
    BY <1>1, <1>4, <2>1 DEF QueueIsOpen, DownHoldsNothing
  <2>4. ASSUME NEW t \in Tasks PROVE OneOutcome(t)' /\ Recorded(t)'
    <3>1. OneOutcome(t) /\ Recorded(t)
      BY DEF QueueInv
    <3> QED
      BY <1>4, <2>1, <2>2, <3>1 DEF OneOutcome, Recorded
  <2> QED
    BY <1>2, <1>3, <2>3, <2>4 DEF QueueInv
<1>5. CASE disk' = disk /\ \A t \in Tasks : FileIsBehind(t) => FileIsBehind(t)'
  <2>1. QueueIsOpen' /\ DownHoldsNothing'
    BY <1>1, <1>5 DEF QueueIsOpen, DownHoldsNothing
  <2>2. ASSUME NEW t \in Tasks PROVE OneOutcome(t)' /\ Recorded(t)'
    <3>1. OneOutcome(t) /\ Recorded(t) /\ (FileIsBehind(t) => FileIsBehind(t)')
      BY <1>5 DEF QueueInv
    <3> QED
      BY <1>5, <3>1 DEF OneOutcome, Recorded
  <2> QED
    BY <1>2, <1>3, <2>1, <2>2 DEF QueueInv
<1> QED
  BY <1>4, <1>5


\* An order or the timer may ask for the next tick.
LEMMA RequestStep ==
  ASSUME QueueInv, app = "up", RequestTick(running, FALSE),
         UNCHANGED <<st, listed, running, sess, threw>>
  PROVE  AwaitsAreKnown' /\ tick' \in Ticks /\ \A t \in Tasks : FileIsBehind(t) => FileIsBehind(t)'
<1>1. QueueTypeOK /\ tick \in Ticks /\ running \in SUBSET Tasks
  BY DEF QueueInv, QueueTypeOK, Ticks
<1>2. tick' \in Ticks
  BY <1>1, RequestKeepsTick
<1>3. AwaitsAreKnown'
  <2>1. running \in SUBSET running /\ FALSE \in BOOLEAN
    OBVIOUS
  <2> QED
    BY <2>1, AwaitsStayKnown
<1>4. \A t \in Tasks : FileIsBehind(t) => FileIsBehind(t)'
  BY <1>1 DEF FileIsBehind, RequestTick, Ticks
<1> QED
  BY <1>2, <1>3, <1>4

LEMMA EditStep ==
  ASSUME MegaSchedulerAssumption, QueueInv, NEW t \in Tasks, EditTask(t)
  PROVE  QueueInv'
<1>1. /\ QueueTypeOK /\ QueueIsOpen /\ app = "up" /\ RequestTick(running, FALSE) /\ disk' = Saved(listed, st)
      /\ upsets' \in 0..MaxUpsets /\ due' \subseteq Tasks
      /\ UNCHANGED <<taskVars, workVars, recordVars, app, factor, health, peak, lives, threw>>
  <2>1. QueueTypeOK /\ QueueIsOpen
    BY DEF QueueInv
  <2>2. upsets' \in 0..MaxUpsets
    BY <2>1 DEF EditTask, Upset, MegaSchedulerAssumption, QueueTypeOK
  <2> QED
    BY <2>1, <2>2 DEF EditTask, QueueTypeOK
<1>2. AwaitsAreKnown' /\ tick' \in Ticks
  BY <1>1, RequestStep DEF taskVars, workVars
<1>3. disk' \in [Tasks -> QueuedStatus \cup ActiveStatus \cup {"none"}]
  BY <1>1 DEF Saved, QueueIsOpen
<1>4. QueueTypeOK'
  BY <1>1, <1>2, <1>3 DEF QueueTypeOK, Ticks, taskVars, workVars, recordVars
<1> QED
  BY <1>1, <1>2, <1>4, QuietStep DEF taskVars, workVars, recordVars

LEMMA TimerStep ==
  ASSUME MegaSchedulerAssumption, QueueInv, Timer
  PROVE  QueueInv'
<1>1. /\ QueueTypeOK /\ app = "up" /\ RequestTick(running, FALSE)
      /\ UNCHANGED <<taskVars, due, workVars, recordVars, disk, app, factor, envVars>>
  BY DEF Timer, QueueInv
<1>2. AwaitsAreKnown' /\ tick' \in Ticks /\ \A t \in Tasks : FileIsBehind(t) => FileIsBehind(t)'
  BY <1>1, RequestStep DEF taskVars, workVars, envVars
<1>3. QueueTypeOK'
  BY <1>1, <1>2 DEF QueueTypeOK, Ticks, taskVars, workVars, recordVars, envVars
<1> QED
  BY <1>1, <1>2, <1>3, QuietStep DEF taskVars, workVars, recordVars, envVars

\* A walk that is held or full, the end of a list that failed, and the end of a tick.
LEMMA TurnStep ==
  ASSUME MegaSchedulerAssumption, QueueInv, ListFailed \/ Full \/ \E t \in Tasks : Hold(t)
  PROVE  QueueInv'
<1>1. /\ QueueTypeOK /\ AwaitsAreKnown /\ tick \in Ticks /\ tick.at # "idle"
      /\ tick'.at \in {"supervise", "walk", "end"} /\ tick' \in Ticks /\ tick.at \in {"listing", "walk"}
      /\ (tick.at = "walk" => tick'.at # "supervise" /\ (tick.changed => tick'.changed))
      /\ factor' \in {"full", "half", "none"} /\ upsets' \in 0..MaxUpsets
      /\ UNCHANGED <<taskVars, due, workVars, recordVars, disk, app, health, peak, lives, threw>>
  <2>1. QueueTypeOK /\ AwaitsAreKnown /\ tick \in Ticks
    BY DEF QueueInv, QueueTypeOK, Ticks
  <2>2. CASE ListFailed
    <3>1. tick.at = "listing" /\ tick' = [tick EXCEPT !.at = "supervise", !.asked = {}]
      BY <2>2 DEF ListFailed
    <3>2. upsets' \in 0..MaxUpsets
      BY <2>1, <2>2 DEF ListFailed, Upset, MegaSchedulerAssumption, QueueTypeOK
    <3>3. tick' \in Ticks /\ tick'.at = "supervise"
      BY <2>1, <3>1 DEF Ticks
    <3> QED
      BY <2>1, <2>2, <3>1, <3>2, <3>3 DEF ListFailed, QueueTypeOK
  <2>3. CASE Full
    BY <2>1, <2>3 DEF Full, Ticks, QueueTypeOK, envVars
  <2>4. ASSUME NEW t \in Tasks, Hold(t) PROVE <1>1!:
    <3>1. PICK changed \in {tick.changed, TRUE} :
              tick' = [tick EXCEPT !.rest = @ \ {t}, !.changed = changed]
      BY <2>4 DEF Hold
    <3>2. changed \in BOOLEAN /\ (tick.changed => changed)
      BY <2>1 DEF Ticks
    <3>3. tick' \in Ticks /\ tick'.at = tick.at /\ (tick.changed => tick'.changed)
      BY <2>1, <3>1, <3>2 DEF Ticks
    <3>4. factor' \in {"full", "half", "none"}
      BY <2>4 DEF Hold, Consult, FactorOf
    <3> QED
      BY <2>1, <2>4, <3>3, <3>4 DEF Hold, Consult, QueueTypeOK, envVars
  <2> QED
    BY <2>2, <2>3, <2>4
<1>2. AwaitsAreKnown' /\ \A t \in Tasks : FileIsBehind(t) => FileIsBehind(t)'
  BY <1>1 DEF AwaitsAreKnown, FileIsBehind
<1>3. QueueTypeOK'
  BY <1>1 DEF QueueTypeOK, Ticks, taskVars, workVars, recordVars
<1>4. app # "down"
  BY <1>1 DEF QueueInv, DownHoldsNothing
<1> QED
  BY <1>1, <1>2, <1>3, <1>4, QuietStep DEF taskVars, workVars, recordVars

LEMMA EndTickStep ==
  ASSUME MegaSchedulerAssumption, QueueInv, EndTick
  PROVE  QueueInv'
<1>1. /\ QueueTypeOK /\ QueueIsOpen /\ WorkHasASlot /\ tick.at \in {"walk", "end"} /\ app # "down"
      /\ disk' = IF tick.changed THEN Saved(listed, st) ELSE disk
      /\ tick' = IF tick.again THEN Begun(running, FALSE) ELSE Resting
      /\ UNCHANGED <<taskVars, due, workVars, recordVars, app, factor, envVars>>
  BY DEF QueueInv, EndTick, DownHoldsNothing
<1>2. running \in SUBSET Tasks /\ FALSE \in BOOLEAN /\ Resting \in Ticks
  BY <1>1 DEF QueueTypeOK, Resting, Ticks
<1>3. tick' \in Ticks
  BY <1>1, <1>2, BegunIsTick
<1>4. tick'.at \in {"idle", "listing", "supervise"} /\ (tick'.at = "listing" => tick'.asked = Asked(running))
  BY <1>1 DEF Begun, Resting
<1>5. \A t \in Asked(running) : t \in Official /\ t \in listed
  BY <1>1 DEF Asked, WorkHasASlot, Active
<1>6. AwaitsAreKnown'
  BY <1>1, <1>4, <1>5 DEF AwaitsAreKnown, taskVars
<1>7. disk' \in [Tasks -> QueuedStatus \cup ActiveStatus \cup {"none"}]
  BY <1>1 DEF Saved, QueueIsOpen, QueueTypeOK
<1>8. QueueTypeOK'
  BY <1>1, <1>3, <1>7 DEF QueueTypeOK, Ticks, taskVars, workVars, recordVars, envVars
<1>9. ~tick.changed => \A t \in Tasks : FileIsBehind(t) => FileIsBehind(t)'
  BY <1>1 DEF FileIsBehind, envVars
<1> QED
  BY <1>1, <1>6, <1>8, <1>9, QuietStep DEF taskVars, workVars, recordVars, envVars

\* Sessions end, are lost, instants come and the health changes.
LEMMA WorldStep ==
  ASSUME MegaSchedulerAssumption, QueueInv,
         WorldChanges \/ \E t \in Tasks : SessionEnds(t) \/ SessionVanishes(t) \/ InstantComes(t)
  PROVE  QueueInv'
<1>1. QueueTypeOK /\ AwaitsAreKnown
  BY DEF QueueInv
<1>2. /\ QueueTypeOK' /\ UNCHANGED <<st, listed, running, kid, loose, hist, told, dropped, app, threw, disk, tick>>
      /\ \A t \in Tasks : sess'[t] = sess[t] \/ (sess[t] \in {"live", "idle"} /\ sess'[t] \in {"idle", "lost"})
  <2>1. CASE WorldChanges
    BY <1>1, <2>1 DEF WorldChanges, QueueTypeOK, taskVars, workVars, recordVars
  <2>2. ASSUME NEW t \in Tasks, SessionEnds(t) PROVE <1>2!:
    BY <1>1, <2>2 DEF SessionEnds, QueueTypeOK, taskVars, recordVars, envVars
  <2>3. ASSUME NEW t \in Tasks, SessionVanishes(t) PROVE <1>2!:
    BY <1>1, <2>3 DEF SessionVanishes, QueueTypeOK, taskVars, recordVars, Upset, MegaSchedulerAssumption
  <2>4. ASSUME NEW t \in Tasks, InstantComes(t) PROVE <1>2!:
    BY <1>1, <2>4 DEF InstantComes, QueueTypeOK, taskVars, workVars, recordVars, envVars, Queued
  <2> QED
    BY <2>1, <2>2, <2>3, <2>4
<1>3. AwaitsAreKnown' /\ \A t \in Tasks : FileIsBehind(t) => FileIsBehind(t)'
  <2>1. tick.at = "dispatch" => \A t \in tick.sent : t \in Tasks
    BY <1>1 DEF QueueTypeOK
  <2> QED
    BY <1>1, <1>2, <2>1 DEF AwaitsAreKnown, FileIsBehind
<1> QED
  BY <1>2, <1>3, QuietStep


LEMMA AddStep ==
  ASSUME MegaSchedulerAssumption, QueueInv, NEW t \in Tasks, AddTask(t)
  PROVE  QueueInv'
<1>1. /\ QueueTypeOK /\ QueueIsOpen /\ WorkHasASlot /\ WorkIsOfItsKind /\ IsFiniteSet(running)
      /\ app = "up" /\ st[t] = "absent" /\ RequestTick(running, FALSE)
      /\ st' = [st EXCEPT ![t] = "PENDING"] /\ listed' = listed \cup {t}
      /\ disk' = Saved(listed', st') /\ due' \subseteq Tasks
      /\ UNCHANGED <<running, attempts, workVars, recordVars, app, factor, envVars>>
  BY DEF AddTask, QueueInv, QueueTypeOK
<1>2. \A u \in Tasks : st'[u] = IF u = t THEN "PENDING" ELSE st[u]
  BY <1>1 DEF QueueTypeOK
<1>3. \A u \in listed' : st'[u] \in QueuedStatus \cup ActiveStatus
  BY <1>1, <1>2 DEF QueueIsOpen, QueueTypeOK, QueuedStatus
<1>4. /\ \A u \in Tasks : disk'[u] = IF u \in listed' THEN st'[u] ELSE "none"
      /\ disk' \in [Tasks -> QueuedStatus \cup ActiveStatus \cup {"none"}]
  BY <1>1, <1>3 DEF Saved
<1>5. tick' \in Ticks
  <2>1. tick \in Ticks /\ running \in SUBSET Tasks /\ FALSE \in BOOLEAN
    BY <1>1 DEF QueueTypeOK, Ticks
  <2> QED
    BY <1>1, <2>1, RequestKeepsTick
<1>6. QueueTypeOK'
  <2>1. st' \in [Tasks -> Status] /\ listed' \subseteq Tasks
    BY <1>1 DEF QueueTypeOK, Status, QueuedStatus
  <2> QED
    BY <1>1, <1>4, <1>5, <2>1 DEF QueueTypeOK, Ticks, workVars, recordVars, envVars
<1>7. QueueIsOpen' /\ DownHoldsNothing' /\ WorkIsOfItsKind'
  BY <1>1, <1>2, <1>3, <1>4 DEF QueueIsOpen, DownHoldsNothing, WorkIsOfItsKind, workVars, QueuedStatus
<1>8. WorkHasASlot' /\ IsFiniteSet(running')
  <2>1. Active' = Active
    BY <1>1, <1>2 DEF Active, QueueTypeOK, ActiveStatus
  <2> QED
    BY <1>1, <2>1 DEF WorkHasASlot, Working, workVars, envVars
<1>9. AwaitsAreKnown'
  <2>1. running \in SUBSET running /\ FALSE \in BOOLEAN
    OBVIOUS
  <2>2. \A u \in Tasks : \/ /\ st'[u] = st[u] /\ (u \in listed => u \in listed')
                            /\ (u \in running => u \in running') /\ (u \in listed' => u \in listed)
                         \/ st'[u] \in TerminalStatus /\ u \notin listed'
                         \/ st[u] = "absent"
    BY <1>1, <1>2
  <2>3. \A u \in Tasks : sess[u] = "asked" => sess'[u] = "asked"
    BY <1>1 DEF workVars
  <2> QED
    BY <1>1, <2>1, <2>2, <2>3, AwaitsStayKnown
<1>10. ASSUME NEW u \in Tasks PROVE OneOutcome(u)' /\ Recorded(u)'
  <2>1. OneOutcome(u) /\ Recorded(u)
    BY DEF QueueInv
  <2>2. u \in listed' => disk'[u] # "none"
    BY <1>3, <1>4 DEF QueuedStatus, ActiveStatus
  <2>3. u = t => told[u] = 0
    BY <1>1, <2>1 DEF Recorded
  <2>4. told'[u] = told[u] /\ told[u] \in Nat /\ app' # "down" /\ dropped' \cup hist' = dropped \cup hist /\ threw' = threw
    BY <1>1 DEF recordVars, envVars, QueueTypeOK
  <2>5. told[u] > 0 => told[u] = 1 /\ u \notin listed /\ u # t
    BY <2>1, <2>3, <2>4 DEF OneOutcome
  <2>6. u \notin listed /\ u # t => u \notin listed' /\ disk'[u] = "none"
    BY <1>1, <1>4
  <2>7. OneOutcome(u)'
    BY <2>4, <2>5, <2>6 DEF OneOutcome
  <2> QED
    BY <1>1, <1>2, <2>1, <2>2, <2>4, <2>7 DEF Recorded
<1> QED
  BY <1>6, <1>7, <1>8, <1>9, <1>10 DEF QueueInv

\* A task that waits for its hour, or has ended since the walk began.
LEMMA PassStep ==
  ASSUME MegaSchedulerAssumption, QueueInv, NEW t \in Tasks, Pass(t)
  PROVE  QueueInv'
<1>1. /\ QueueTypeOK /\ QueueIsOpen /\ WorkHasASlot /\ WorkIsOfItsKind /\ IsFiniteSet(running) /\ tick \in Ticks
      /\ app # "down" /\ tick.at = "walk" /\ t \in tick.rest
      /\ st' = IF Suspended(t) THEN [st EXCEPT ![t] = "SUSPENDED"] ELSE st
      /\ UNCHANGED <<listed, running, attempts, due, workVars, recordVars, disk, app, factor, envVars>>
  BY DEF Pass, QueueInv, DownHoldsNothing, QueueTypeOK, Ticks
<1>2. \A u \in Tasks : st'[u] = IF u = t /\ Suspended(t) THEN "SUSPENDED" ELSE st[u]
  BY <1>1 DEF QueueTypeOK
<1>3. Suspended(t) => st[t] \in QueuedStatus
  BY DEF Suspended
<1>4. tick' \in Ticks /\ tick'.at = "walk" /\ (tick.changed => tick'.changed)
  <2>1. PICK changed \in {tick.changed \/ st' # st, tick.changed \/ Suspended(t)} :
           tick' = [tick EXCEPT !.rest = @ \ {t}, !.changed = changed]
    BY DEF Pass
  <2>2. changed \in BOOLEAN /\ (tick.changed => changed)
    BY <1>1 DEF Ticks, Suspended
  <2> QED
    BY <1>1, <2>1, <2>2 DEF Ticks
<1>5. QueueTypeOK'
  <2>1. st' \in [Tasks -> Status]
    BY <1>1 DEF QueueTypeOK, Status, QueuedStatus
  <2> QED
    BY <1>1, <1>4, <2>1 DEF QueueTypeOK, Ticks, workVars, recordVars, envVars
<1>6. QueueIsOpen' /\ DownHoldsNothing' /\ WorkIsOfItsKind' /\ AwaitsAreKnown'
  BY <1>1, <1>2, <1>3, <1>4
     DEF QueueIsOpen, DownHoldsNothing, WorkIsOfItsKind, AwaitsAreKnown, workVars, QueuedStatus
<1>7. WorkHasASlot' /\ IsFiniteSet(running')
  <2>1. Active' = Active
    BY <1>1, <1>2, <1>3 DEF Active, QueueTypeOK, ActiveStatus, QueuedStatus
  <2> QED
    BY <1>1, <2>1 DEF WorkHasASlot, Working, workVars, envVars
<1>8. ASSUME NEW u \in Tasks PROVE OneOutcome(u)' /\ Recorded(u)'
  <2>1. OneOutcome(u) /\ Recorded(u)
    BY DEF QueueInv
  <2>2. st'[u] = "absent" => st[u] = "absent"
    BY <1>2
  <2>3. st[u] = "absent" => st'[u] = "absent"
    BY <1>2, <1>3 DEF QueuedStatus
  <2> QED
    BY <1>1, <1>4, <2>1, <2>2, <2>3 DEF OneOutcome, Recorded, FileIsBehind, recordVars, envVars
<1> QED
  BY <1>5, <1>6, <1>7, <1>8 DEF QueueInv


\* A launch takes a free slot for an entry of the queue that has none, and no work.
LEMMA RoomForOne ==
  ASSUME MegaSchedulerAssumption, QueueInv, NEW t \in Tasks, Launch(t)
  PROVE  /\ t \in listed /\ t \notin running /\ st[t] \in QueuedStatus /\ tick.at = "walk" /\ app # "down"
         /\ IsFiniteSet(running \cup {t}) /\ Cardinality(running \cup {t}) <= Slots
         /\ attempts' \in [Tasks -> 0..MaxAttempts] /\ factor' \in {"full", "half", "none"}
         /\ UNCHANGED <<listed, due, loose, recordVars, app, health, peak, lives>>
<1>1. /\ QueueTypeOK /\ QueueIsOpen /\ WorkHasASlot /\ IsFiniteSet(running)
      /\ Ready(t) /\ Room /\ tick.at = "walk" /\ factor' = FactorOf(health) /\ app # "down"
      /\ attempts' = [attempts EXCEPT ![t] = Tried(t)]
      /\ UNCHANGED <<listed, due, loose, recordVars, app, health, peak, lives>>
  BY DEF QueueInv, Launch, Consult, DownHoldsNothing
<1>2. st[t] \in QueuedStatus /\ t \in listed /\ t \notin running
  BY <1>1 DEF Ready, QueueIsOpen, WorkHasASlot, Active, QueuedStatus, ActiveStatus
<1>3. Slots \in Nat /\ Slots > 0
  BY DEF MegaSchedulerAssumption
<1>4. Capacity \in Nat /\ Capacity <= Slots
  <2>1. Slots \div 2 \in Nat /\ Slots \div 2 <= Slots
    BY <1>3
  <2> QED
    BY <1>1, <1>3, <2>1 DEF Capacity, QueueTypeOK
<1>5. Cardinality(running) \in Nat /\ Cardinality(running) < Slots
  BY <1>1, <1>3, <1>4, FS_CardinalityType DEF Room
<1>6. IsFiniteSet(running \cup {t}) /\ Cardinality(running \cup {t}) = Cardinality(running) + 1
  BY <1>1, <1>2, FS_AddElement
<1>7. attempts' \in [Tasks -> 0..MaxAttempts]
  BY <1>1 DEF QueueTypeOK, Tried, MegaSchedulerAssumption
<1>8. factor' \in {"full", "half", "none"}
  BY <1>1 DEF FactorOf, QueueTypeOK, MegaSchedulerAssumption
<1> QED
  BY <1>1, <1>2, <1>3, <1>5, <1>6, <1>7, <1>8

\* What a walk writes on file is the queue.
LEMMA SavedQueue ==
  ASSUME NEW S \in SUBSET Tasks, NEW s, \A t \in S : s[t] \in QueuedStatus \cup ActiveStatus
  PROVE  /\ Saved(S, s) \in [Tasks -> QueuedStatus \cup ActiveStatus \cup {"none"}]
         /\ \A t \in Tasks : Saved(S, s)[t] = IF t \in S THEN s[t] ELSE "none"
         /\ \A t \in S : Saved(S, s)[t] # "none"
BY DEF Saved, QueuedStatus, ActiveStatus

LEMMA HeadlessStep ==
  ASSUME MegaSchedulerAssumption, QueueInv, NEW t \in Tasks, LaunchHeadless(t)
  PROVE  QueueInv'
<1>1. /\ QueueTypeOK /\ QueueIsOpen /\ WorkHasASlot /\ WorkIsOfItsKind /\ IsFiniteSet(running) /\ tick \in Ticks
      /\ t \notin Official /\ st' = [st EXCEPT ![t] = "RUNNING"] /\ sess' = sess
  BY DEF LaunchHeadless, QueueInv, QueueTypeOK, Ticks
<1>2. /\ t \in listed /\ t \notin running /\ st[t] \in QueuedStatus /\ tick.at = "walk" /\ app # "down"
      /\ IsFiniteSet(running \cup {t}) /\ Cardinality(running \cup {t}) <= Slots
      /\ attempts' \in [Tasks -> 0..MaxAttempts] /\ factor' \in {"full", "half", "none"}
      /\ UNCHANGED <<listed, due, loose, recordVars, app, health, peak, lives>>
  BY RoomForOne DEF LaunchHeadless
<1>3. \A u \in Tasks : st'[u] = IF u = t THEN "RUNNING" ELSE st[u]
  BY <1>1 DEF QueueTypeOK
<1>4. st' \in [Tasks -> Status] /\ listed \in SUBSET Tasks
      /\ \A u \in listed : st'[u] \in QueuedStatus \cup ActiveStatus
  BY <1>1, <1>3 DEF QueueTypeOK, QueueIsOpen, Status, ActiveStatus
<1>5. Active' = Active \cup {t}
  BY <1>2, <1>3, <1>4 DEF Active, ActiveStatus
<1>6. \A u \in Tasks : OneOutcome(u) /\ Recorded(u)
  BY DEF QueueInv
<1>7. CASE /\ kid' = kid \cup {t} /\ running' = running \cup {t} /\ disk' = Saved(listed, st')
           /\ tick' = [tick EXCEPT !.rest = @ \ {t}, !.changed = TRUE]
           /\ UNCHANGED <<upsets, threw>>
  <2>1. /\ disk' \in [Tasks -> QueuedStatus \cup ActiveStatus \cup {"none"}]
        /\ \A u \in Tasks : disk'[u] = IF u \in listed THEN st'[u] ELSE "none"
        /\ \A u \in listed : disk'[u] # "none"
    BY <1>4, <1>7, SavedQueue
  <2>2. tick' \in Ticks /\ tick'.at = "walk"
    BY <1>1, <1>2, <1>7 DEF Ticks
  <2>3. QueueTypeOK'
    <3>1. running' \subseteq Tasks /\ kid' \subseteq Tasks
      BY <1>1, <1>7 DEF QueueTypeOK
    <3>2. UNCHANGED <<listed, due, loose, hist, told, dropped, app, health, peak, lives, sess, upsets, threw>>
      BY <1>1, <1>2, <1>7 DEF recordVars
    <3> QED
      BY <1>1, <1>2, <1>4, <2>1, <2>2, <3>1, <3>2 DEF QueueTypeOK, Ticks
  <2>4. QueueIsOpen' /\ DownHoldsNothing' /\ WorkIsOfItsKind' /\ AwaitsAreKnown'
    <3>1. QueueIsOpen'
      BY <1>1, <1>2, <1>3, <1>4, <2>1 DEF QueueIsOpen, QueuedStatus
    <3>2. WorkIsOfItsKind'
      BY <1>1, <1>7 DEF WorkIsOfItsKind
    <3> QED
      BY <1>2, <2>2, <3>1, <3>2 DEF DownHoldsNothing, AwaitsAreKnown
  <2>5. WorkHasASlot' /\ IsFiniteSet(running')
    <3>1. running' \subseteq Active' /\ Active' \ running' \subseteq Active \ running
      BY <1>1, <1>5, <1>7 DEF WorkHasASlot
    <3>2. \A u \in Tasks : Working(u)' => u \in running' \cup loose'
      BY <1>1, <1>2, <1>7 DEF WorkHasASlot, Working
    <3> QED
      BY <1>1, <1>2, <1>7, <3>1, <3>2 DEF WorkHasASlot
  <2>6. ASSUME NEW u \in Tasks PROVE OneOutcome(u)' /\ Recorded(u)'
    <3>1. OneOutcome(u) /\ Recorded(u)
      BY <1>6
    <3>2. told' = told /\ hist' = hist /\ dropped' = dropped /\ threw' = threw
      BY <1>2, <1>7 DEF recordVars
    <3>3. OneOutcome(u)'
      BY <1>2, <2>1, <3>1, <3>2 DEF OneOutcome
    <3> QED
      BY <1>2, <1>3, <2>1, <3>1, <3>2, <3>3 DEF Recorded
  <2> QED
    BY <2>3, <2>4, <2>5, <2>6 DEF QueueInv
<1>8. CASE /\ Upset /\ threw' = TRUE /\ UNCHANGED <<kid, running, disk>>
           /\ tick' = [tick EXCEPT !.at = "end", !.changed = FALSE]
  <2>1. upsets' \in 0..MaxUpsets
    BY <1>1, <1>8 DEF Upset, QueueTypeOK, MegaSchedulerAssumption
  <2>2. tick' \in Ticks /\ tick'.at = "end"
    BY <1>1, <1>8 DEF Ticks
  <2>3. QueueTypeOK'
    BY <1>1, <1>2, <1>4, <1>8, <2>1, <2>2 DEF QueueTypeOK, Ticks, recordVars
  <2>4. QueueIsOpen' /\ DownHoldsNothing' /\ WorkIsOfItsKind' /\ AwaitsAreKnown'
    BY <1>1, <1>2, <1>3, <1>4, <1>8, <2>2
       DEF QueueIsOpen, DownHoldsNothing, WorkIsOfItsKind, AwaitsAreKnown
  <2>5. WorkHasASlot' /\ IsFiniteSet(running')
    BY <1>1, <1>2, <1>5, <1>8 DEF WorkHasASlot, Working
  <2>6. ASSUME NEW u \in Tasks PROVE OneOutcome(u)' /\ Recorded(u)'
    BY <1>2, <1>3, <1>6, <1>8 DEF OneOutcome, Recorded, FileIsBehind, recordVars
  <2> QED
    BY <2>3, <2>4, <2>5, <2>6 DEF QueueInv
<1> QED
  BY <1>7, <1>8 DEF LaunchHeadless

LEMMA OfficialStep ==
  ASSUME MegaSchedulerAssumption, QueueInv, NEW t \in Tasks, LaunchOfficial(t)
  PROVE  QueueInv'
<1>1. /\ QueueTypeOK /\ QueueIsOpen /\ WorkHasASlot /\ WorkIsOfItsKind /\ IsFiniteSet(running) /\ tick \in Ticks
      /\ t \in Official /\ st' = [st EXCEPT ![t] = "DISPATCHING"] /\ kid' = kid
      /\ running' = running \cup {t} /\ disk' = Saved(listed, st')
  BY DEF LaunchOfficial, QueueInv, QueueTypeOK, Ticks
<1>2. /\ t \in listed /\ t \notin running /\ st[t] \in QueuedStatus /\ tick.at = "walk" /\ app # "down"
      /\ IsFiniteSet(running \cup {t}) /\ Cardinality(running \cup {t}) <= Slots
      /\ attempts' \in [Tasks -> 0..MaxAttempts] /\ factor' \in {"full", "half", "none"}
      /\ UNCHANGED <<listed, due, loose, recordVars, app, health, peak, lives>>
  BY RoomForOne DEF LaunchOfficial
<1>3. \A u \in Tasks : st'[u] = IF u = t THEN "DISPATCHING" ELSE st[u]
  BY <1>1 DEF QueueTypeOK
<1>4. st' \in [Tasks -> Status] /\ listed \in SUBSET Tasks
      /\ \A u \in listed : st'[u] \in QueuedStatus \cup ActiveStatus
  BY <1>1, <1>3 DEF QueueTypeOK, QueueIsOpen, Status, ActiveStatus
<1>5. /\ disk' \in [Tasks -> QueuedStatus \cup ActiveStatus \cup {"none"}]
      /\ \A u \in Tasks : disk'[u] = IF u \in listed THEN st'[u] ELSE "none"
      /\ \A u \in listed : disk'[u] # "none"
  <2>1. disk' = Saved(listed, st')
    BY <1>1
  <2> QED
    BY <1>4, <2>1, SavedQueue
<1>6. QueueIsOpen' /\ DownHoldsNothing'
  BY <1>2, <1>1, <1>3, <1>4, <1>5 DEF QueueIsOpen, DownHoldsNothing, QueuedStatus
<1>7. Active' = Active \cup {t}
  BY <1>2, <1>3, <1>4 DEF Active, ActiveStatus
<1>8. /\ sess' \in [Tasks -> {"none", "asked", "live", "idle", "lost"}]
      /\ \A u \in Tasks : u # t => sess'[u] = sess[u]
      /\ tick' \in Ticks /\ upsets' \in 0..MaxUpsets /\ threw' \in BOOLEAN /\ (threw => threw')
      /\ tick'.at # "listing"
      /\ tick'.at = "dispatch" => tick'.sent = {t} /\ sess'[t] = "asked"
  <2>1. CASE /\ sess' = [sess EXCEPT ![t] = "asked"]
             /\ tick' = [tick EXCEPT !.at = "dispatch", !.sent = {t}, !.rest = @ \ {t}]
             /\ UNCHANGED <<upsets, threw>>
    BY <1>1, <2>1 DEF Ticks, QueueTypeOK
  <2>2. CASE /\ Upset /\ threw' = TRUE /\ UNCHANGED sess
             /\ tick' = [tick EXCEPT !.at = "end", !.changed = FALSE]
    <3>1. upsets' \in 0..MaxUpsets
      BY <1>1, <2>2 DEF Upset, QueueTypeOK, MegaSchedulerAssumption
    <3> QED
      BY <1>1, <2>2, <3>1 DEF Ticks, QueueTypeOK
  <2> QED
    BY <2>1, <2>2 DEF LaunchOfficial
<1>9. QueueTypeOK'
  <2>1. running' \subseteq Tasks
    BY <1>1 DEF QueueTypeOK
  <2>2. UNCHANGED <<listed, due, loose, hist, told, dropped, app, health, peak, lives, kid>>
    BY <1>1, <1>2 DEF recordVars
  <2>3. QueueTypeOK
    BY <1>1
  <2>4. attempts' \in [Tasks -> 0..MaxAttempts] /\ factor' \in {"full", "half", "none"}
    BY <1>2
  <2> QED
    BY <1>4, <1>5, <1>8, <2>1, <2>2, <2>3, <2>4 DEF QueueTypeOK, Ticks
<1>10. WorkIsOfItsKind' /\ AwaitsAreKnown'
  BY <1>1, <1>3, <1>8 DEF WorkIsOfItsKind, AwaitsAreKnown
<1>11. WorkHasASlot' /\ IsFiniteSet(running')
  <2>1. running' \subseteq Active' /\ Active' \ running' \subseteq Active \ running
    BY <1>1, <1>7 DEF WorkHasASlot
  <2>2. \A u \in Tasks : Working(u)' => u \in running' \cup loose'
    BY <1>1, <1>2, <1>8 DEF WorkHasASlot, Working
  <2> QED
    BY <1>1, <1>2, <1>8, <2>1, <2>2 DEF WorkHasASlot
<1>12. ASSUME NEW u \in Tasks PROVE OneOutcome(u)' /\ Recorded(u)'
  <2>1. OneOutcome(u) /\ Recorded(u)
    BY DEF QueueInv
  <2>2. told' = told /\ hist' = hist /\ dropped' = dropped
    BY <1>2 DEF recordVars
  <2>3. OneOutcome(u)'
    BY <1>2, <1>5, <2>1, <2>2 DEF OneOutcome
  <2> QED
    BY <1>2, <1>3, <1>5, <1>8, <2>1, <2>2, <2>3 DEF Recorded
<1> QED
  BY <1>6, <1>9, <1>10, <1>11, <1>12 DEF QueueInv

\* The answer to a dispatch makes the task RUNNING, whatever it was.
LEMMA AcceptedStep ==
  ASSUME MegaSchedulerAssumption, QueueInv, NEW t \in Tasks, DispatchAccepted(t)
  PROVE  QueueInv'
<1>1. /\ QueueTypeOK /\ QueueIsOpen /\ WorkHasASlot /\ WorkIsOfItsKind /\ IsFiniteSet(running) /\ tick \in Ticks
      /\ AwaitsAreKnown /\ app # "down" /\ tick.at = "dispatch" /\ t \in tick.sent
      /\ st' = [st EXCEPT ![t] = "RUNNING"] /\ sess' = [sess EXCEPT ![t] = "live"]
      /\ disk' = Saved(listed, st') /\ tick' = Walking
      /\ UNCHANGED <<listed, running, attempts, due, kid, loose, hist, told, dropped, app, factor,
                     health, peak, upsets, lives, threw>>
  BY DEF DispatchAccepted, QueueInv, DownHoldsNothing, QueueTypeOK, Ticks, recordVars, envVars
<1>2. /\ t \in Official /\ sess[t] = "asked"
      /\ (t \in running /\ st[t] = "DISPATCHING") \/ (t \notin listed /\ st[t] \in TerminalStatus)
  BY <1>1 DEF AwaitsAreKnown
<1>3. \A u \in Tasks : /\ st'[u] = IF u = t THEN "RUNNING" ELSE st[u]
                       /\ sess'[u] = IF u = t THEN "live" ELSE sess[u]
  BY <1>1 DEF QueueTypeOK
<1>4. st' \in [Tasks -> Status] /\ listed \in SUBSET Tasks
      /\ \A u \in listed : st'[u] \in QueuedStatus \cup ActiveStatus
  BY <1>1, <1>3 DEF QueueTypeOK, QueueIsOpen, Status, ActiveStatus
<1>5. /\ disk' \in [Tasks -> QueuedStatus \cup ActiveStatus \cup {"none"}]
      /\ \A u \in Tasks : disk'[u] = IF u \in listed THEN st'[u] ELSE "none"
      /\ \A u \in listed : disk'[u] # "none"
  <2>1. disk' = Saved(listed, st')
    BY <1>1
  <2> QED
    BY <1>4, <2>1, SavedQueue
<1>6. tick' \in Ticks /\ tick'.at = "walk"
  BY <1>1 DEF Ticks, Walking
<1>7. QueueTypeOK'
  BY <1>1, <1>4, <1>5, <1>6 DEF QueueTypeOK, Ticks
<1>8. QueueIsOpen' /\ DownHoldsNothing' /\ WorkIsOfItsKind' /\ AwaitsAreKnown'
  <2>1. QueueIsOpen'
    BY <1>1, <1>2, <1>3, <1>4, <1>5 DEF QueueIsOpen, QueuedStatus
  <2>2. WorkIsOfItsKind'
    BY <1>1, <1>2, <1>3 DEF WorkIsOfItsKind
  <2> QED
    BY <1>1, <1>6, <2>1, <2>2 DEF DownHoldsNothing, AwaitsAreKnown
<1>9. WorkHasASlot' /\ IsFiniteSet(running')
  <2>1. Active' = Active
    <3>1. running \subseteq listed /\ (t \in listed => st[t] \in ActiveStatus)
      BY <1>1, <1>2 DEF WorkHasASlot, Active
    <3> QED
      BY <1>1, <1>2, <1>3, <1>4, <3>1 DEF Active, ActiveStatus
  <2>2. \A u \in Tasks : Working(u)' => Working(u)
    BY <1>1, <1>2, <1>3 DEF Working
  <2> QED
    BY <1>1, <2>1, <2>2 DEF WorkHasASlot
<1>10. ASSUME NEW u \in Tasks PROVE OneOutcome(u)' /\ Recorded(u)'
  <2>1. OneOutcome(u) /\ Recorded(u)
    BY DEF QueueInv
  <2>2. OneOutcome(u)'
    BY <1>1, <1>5, <2>1 DEF OneOutcome
  <2>3. st[t] # "absent"
    BY <1>2 DEF TerminalStatus
  <2>4. /\ app' # "down" /\ app # "down" /\ listed' = listed /\ told' = told
        /\ hist' = hist /\ dropped' = dropped /\ threw' = threw
    BY <1>1
  <2>5. st'[u] = "absent" <=> st[u] = "absent"
    BY <1>3, <2>3
  <2> QED
    BY <1>5, <2>1, <2>2, <2>4, <2>5 DEF Recorded
<1> QED
  BY <1>7, <1>8, <1>9, <1>10 DEF QueueInv

\* The supervision of a tick: what has stalled or is late, and what waits for the peak.
LEMMA SuperviseStep ==
  ASSUME MegaSchedulerAssumption, QueueInv, Supervise
  PROVE  QueueInv'
<1>1. /\ QueueTypeOK /\ QueueIsOpen /\ WorkHasASlot /\ WorkIsOfItsKind /\ IsFiniteSet(running) /\ tick \in Ticks
      /\ tick.at = "supervise" /\ app # "down" /\ UNCHANGED <<dropped, app, factor, envVars>>
  BY DEF Supervise, QueueInv, DownHoldsNothing, QueueTypeOK, Ticks
<1> DEFINE judged == {t \in running \ Official : st[t] = "RUNNING"}
<1>2. PICK stalled \in SUBSET judged, late \in SUBSET judged, pausing \in BOOLEAN :
         LET retried == {t \in stalled \ late : attempts[t] < MaxAttempts}
             failed == late \cup (stalled \ retried)
             paused == IF pausing /\ peak
                       THEN {t \in Active \ (stalled \cup late \cup Anytime) : st[t] = "RUNNING"}
                       ELSE {}
             again == retried \cup paused
         IN  /\ st' = [t \in Tasks |-> IF t \in failed THEN "FAILED"
                                       ELSE IF t \in again THEN "PENDING" ELSE st[t]]
             /\ listed' = listed \ failed /\ running' = running \ (failed \cup again)
             /\ attempts' = [t \in Tasks |-> IF t \in paused THEN Tried(t) ELSE attempts[t]]
             /\ due' = due \ again
             /\ \E astray \in SUBSET paused : Interrupted(again, astray, failed \cap kid)
             /\ Announce(failed)
             /\ IF failed \cup again = {} THEN UNCHANGED disk
                ELSE \E last \in IF paused = {} THEN failed \cup retried ELSE paused :
                         disk' = Saved(listed' \ (paused \cap {last}), st')
             /\ tick' = [tick EXCEPT !.at = "walk", !.peak = peak, !.changed = paused # {},
                                     !.rest = {t \in listed' : st'[t] \in QueuedStatus},
                                     !.again = @ \/ failed \cup again # {}]
  BY DEF Supervise
<1> DEFINE retried == {t \in stalled \ late : attempts[t] < MaxAttempts}
           failed == late \cup (stalled \ retried)
           paused == IF pausing /\ peak
                     THEN {t \in Active \ (stalled \cup late \cup Anytime) : st[t] = "RUNNING"}
                     ELSE {}
           again == retried \cup paused
<1>3. PICK astray \in SUBSET paused : Interrupted(again, astray, failed \cap kid)
  BY <1>2
<1>4. /\ st' = [t \in Tasks |-> IF t \in failed THEN "FAILED" ELSE IF t \in again THEN "PENDING" ELSE st[t]]
      /\ listed' = listed \ failed /\ running' = running \ (failed \cup again)
      /\ attempts' = [t \in Tasks |-> IF t \in paused THEN Tried(t) ELSE attempts[t]]
      /\ due' = due \ again /\ Announce(failed)
      /\ tick' = [tick EXCEPT !.at = "walk", !.peak = peak, !.changed = paused # {},
                              !.rest = {t \in listed' : st'[t] \in QueuedStatus},
                              !.again = @ \/ failed \cup again # {}]
  BY <1>2
<1>5. IF failed \cup again = {} THEN disk' = disk
      ELSE \E last : disk' = Saved(listed' \ (paused \cap {last}), st')
  BY <1>2
<1>6. /\ failed \in SUBSET listed /\ again \in SUBSET listed /\ paused \in SUBSET again
      /\ failed \cap again = {} /\ failed \cap Official = {}
      /\ \A t \in again : st[t] = "RUNNING"
  BY <1>1 DEF WorkHasASlot, Active
<1>7. listed \in SUBSET Tasks /\ failed \in SUBSET Tasks /\ again \in SUBSET Tasks /\ paused \in SUBSET Tasks
  BY <1>1, <1>6 DEF QueueTypeOK
<1> HIDE DEF judged, retried, failed, paused, again
<1>8. /\ \A t \in Tasks : st'[t] = IF t \in failed THEN "FAILED" ELSE IF t \in again THEN "PENDING" ELSE st[t]
      /\ st' \in [Tasks -> Status]
  BY <1>1, <1>4 DEF QueueTypeOK, Status, QueuedStatus, TerminalStatus
<1>9. \A t \in listed' : st'[t] \in QueuedStatus \cup ActiveStatus
  BY <1>1, <1>4, <1>7, <1>8 DEF QueueIsOpen, QueuedStatus
<1>10. /\ sess' \in [Tasks -> {"none", "asked", "live", "idle", "lost"}]
       /\ kid' \subseteq Tasks /\ loose' \subseteq Tasks /\ loose \subseteq loose' /\ failed \cap kid \subseteq loose'
       /\ WorkIsOfItsKind'
       /\ \A t \in Tasks : Working(t)' => Working(t) /\ (t \in again => t \in loose')
  <2>1. astray \in SUBSET again /\ failed \cap kid \in SUBSET Tasks
    BY <1>3, <1>6, <1>7
  <2> QED
    BY <1>3, <1>7, <2>1, InterruptionStops
<1>11. /\ hist' = hist \cup failed /\ told' \in [Tasks -> Nat]
       /\ \A t \in Tasks : told[t] \in Nat /\ told'[t] = told[t] + IF t \in failed THEN 1 ELSE 0
  BY <1>1, <1>4 DEF Announce, QueueTypeOK
<1>12. /\ disk' \in [Tasks -> QueuedStatus \cup ActiveStatus \cup {"none"}]
       /\ \A t \in Tasks : disk'[t] # "none" => t \in listed'
       /\ \A t \in listed' : disk'[t] # "none" \/ threw \/ paused # {}
  <2>1. CASE failed \cup again = {}
    <3>1. disk' = disk /\ listed' = listed
      BY <1>4, <1>5, <2>1
    <3>2. \A t \in listed : disk[t] # "none" \/ threw
      BY <1>1, <1>7 DEF QueueInv, Recorded, FileIsBehind
    <3> QED
      BY <1>1, <3>1, <3>2 DEF QueueTypeOK, QueueIsOpen
  <2>2. CASE failed \cup again # {}
    <3>1. PICK last : disk' = Saved(listed' \ (paused \cap {last}), st')
      BY <1>5, <2>2
    <3> DEFINE S == listed' \ (paused \cap {last})
    <3>2. S \in SUBSET Tasks /\ \A t \in S : st'[t] \in QueuedStatus \cup ActiveStatus
      BY <1>4, <1>7, <1>9
    <3>3. S \subseteq listed' /\ (paused = {} => S = listed')
      OBVIOUS
    <3>4. disk' = Saved(S, st')
      BY <3>1
    <3> HIDE DEF S
    <3>5. /\ disk' \in [Tasks -> QueuedStatus \cup ActiveStatus \cup {"none"}]
          /\ \A t \in Tasks : disk'[t] = IF t \in S THEN st'[t] ELSE "none"
          /\ \A t \in S : disk'[t] # "none"
      BY <3>2, <3>4, SavedQueue
    <3> QED
      BY <3>3, <3>5
  <2> QED
    BY <2>1, <2>2
<1>13. tick' \in Ticks /\ tick'.at = "walk" /\ (paused # {} => tick'.changed)
  <2>1. {t \in listed' : st'[t] \in QueuedStatus} \in SUBSET Tasks
    BY <1>4, <1>7
  <2>2. peak \in BOOLEAN
    BY <1>1 DEF QueueTypeOK
  <2> QED
    BY <1>1, <1>4, <2>1, <2>2 DEF Ticks
<1>14. QueueTypeOK'
  <2>1. attempts' \in [Tasks -> 0..MaxAttempts]
    BY <1>1, <1>4 DEF QueueTypeOK, Tried, MegaSchedulerAssumption
  <2>2. listed' \subseteq Tasks /\ running' \subseteq Tasks /\ due' \subseteq Tasks /\ hist' \subseteq Tasks
    BY <1>1, <1>4, <1>7, <1>11 DEF QueueTypeOK
  <2>3. UNCHANGED <<dropped, app, factor, health, peak, upsets, lives, threw>> /\ QueueTypeOK
    BY <1>1 DEF envVars
  <2> QED
    BY <1>8, <1>10, <1>11, <1>12, <1>13, <2>1, <2>2, <2>3 DEF QueueTypeOK, Ticks
<1>15. QueueIsOpen' /\ DownHoldsNothing' /\ AwaitsAreKnown'
  <2>1. QueueIsOpen'
    BY <1>1, <1>4, <1>6, <1>8, <1>9, <1>12 DEF QueueIsOpen, QueuedStatus
  <2> QED
    BY <1>1, <1>13, <2>1 DEF DownHoldsNothing, AwaitsAreKnown
<1>16. WorkHasASlot' /\ IsFiniteSet(running')
  <2>1. Active' = Active \ (failed \cup again)
    <3>1. \A t \in Tasks : t \in failed \cup again => t \notin Active'
      BY <1>4, <1>8 DEF Active, ActiveStatus
    <3>2. \A t \in Tasks : t \notin failed \cup again => (t \in Active' <=> t \in Active)
      BY <1>4, <1>8 DEF Active
    <3> QED
      BY <1>4, <1>7, <3>1, <3>2 DEF Active
  <2>2. IsFiniteSet(running') /\ Cardinality(running') <= Slots
    BY <1>1, <1>4, FewerSlots DEF WorkHasASlot
  <2>3. \A t \in Tasks : Working(t)' => t \in running' \cup loose'
    <3> SUFFICES ASSUME NEW t \in Tasks, Working(t)' PROVE t \in running' \cup loose'
      OBVIOUS
    <3>1. Working(t) /\ (t \in again => t \in loose')
      BY <1>10
    <3>2. t \in failed => t \in kid
      BY <1>1, <1>6, <3>1 DEF Working, WorkIsOfItsKind
    <3> QED
      BY <1>1, <1>4, <1>10, <3>1, <3>2 DEF WorkHasASlot
  <2> QED
    BY <1>1, <1>4, <2>1, <2>2, <2>3 DEF WorkHasASlot, envVars
<1>17. ASSUME NEW t \in Tasks PROVE OneOutcome(t)' /\ Recorded(t)'
  <2>1. OneOutcome(t) /\ Recorded(t) /\ app # "down" /\ UNCHANGED <<app, threw, dropped>>
    BY <1>1 DEF QueueInv, envVars
  <2>2. CASE t \in failed
    <3>1. told[t] = 0
      BY <1>6, <1>11, <2>1, <2>2 DEF OneOutcome
    <3>2. told'[t] = 1 /\ t \notin listed' /\ disk'[t] = "none" /\ t \in hist' /\ st'[t] # "absent"
      BY <1>4, <1>8, <1>11, <1>12, <2>2, <3>1
    <3> QED
      BY <3>2 DEF OneOutcome, Recorded
  <2>3. CASE t \notin failed
    <3>1. told'[t] = told[t] /\ (t \in listed' <=> t \in listed) /\ (st'[t] = "absent" <=> st[t] = "absent")
      BY <1>4, <1>6, <1>8, <1>11, <2>3
    <3>2. OneOutcome(t)'
      BY <1>12, <2>1, <3>1 DEF OneOutcome
    <3> QED
      BY <1>11, <1>12, <1>13, <2>1, <3>1, <3>2 DEF Recorded, FileIsBehind
  <2> QED
    BY <2>2, <2>3
<1> QED
  BY <1>10, <1>14, <1>15, <1>16, <1>17 DEF QueueInv

--------------------------------------------------------------------------------
(* The life of the shell                                                        *)

LEMMA GoneStep ==
  ASSUME MegaSchedulerAssumption, QueueInv, Exit \/ Die
  PROVE  QueueInv'
<1>1. /\ QueueTypeOK /\ QueueIsOpen /\ WorkIsOfItsKind /\ app # "down" /\ tick.at \notin {"walk", "end"}
      /\ app' = "down" /\ tick' = Resting /\ factor' = "full" /\ listed' = {} /\ running' = {}
      /\ st' = [t \in Tasks |-> IF disk[t] # "none" THEN disk[t]
                                ELSE IF st[t] = "absent" THEN "absent" ELSE "over"]
      /\ loose' = loose \cup kid \cup {t \in Tasks : sess[t] \in {"asked", "live"}}
      /\ kid' = {} /\ sess' = [t \in Tasks |-> "none"]
      /\ UNCHANGED <<attempts, due, hist, told, dropped, disk, health, peak, upsets, lives, threw>>
  BY DEF Exit, Die, Gone, Settled, QueueInv, recordVars, envVars
<1>2. \A t \in Tasks : st'[t] = IF disk[t] # "none" THEN disk[t]
                                ELSE IF st[t] = "absent" THEN "absent" ELSE "over"
  BY <1>1
<1>3. QueueTypeOK'
  <2>1. st' \in [Tasks -> Status]
    BY <1>1, <1>2 DEF QueueTypeOK, Status
  <2>2. tick' \in Ticks /\ sess' \in [Tasks -> {"none", "asked", "live", "idle", "lost"}]
    BY <1>1 DEF Resting, Ticks
  <2>3. listed' \subseteq Tasks /\ running' \subseteq Tasks /\ kid' \subseteq Tasks /\ loose' \subseteq Tasks
    BY <1>1 DEF QueueTypeOK
  <2> QED
    BY <1>1, <2>1, <2>2, <2>3 DEF QueueTypeOK, Ticks
<1>4. DownHoldsNothing' /\ QueueIsOpen' /\ WorkIsOfItsKind' /\ AwaitsAreKnown'
  BY <1>1, <1>2 DEF DownHoldsNothing, QueueIsOpen, WorkIsOfItsKind, AwaitsAreKnown, Resting
<1>5. WorkHasASlot' /\ IsFiniteSet(running')
  BY <1>1, FS_EmptySet DEF WorkHasASlot, Active, Working, MegaSchedulerAssumption
<1>6. ASSUME NEW t \in Tasks PROVE OneOutcome(t)' /\ Recorded(t)'
  <2>1. OneOutcome(t) /\ Recorded(t) /\ ~(~threw /\ FileIsBehind(t))
    BY <1>1 DEF QueueInv, FileIsBehind
  <2>2. OneOutcome(t)'
    BY <1>1, <2>1 DEF OneOutcome
  <2>3. disk[t] # "none" => disk[t] # "absent"
    BY <1>1 DEF QueueTypeOK, QueuedStatus, ActiveStatus
  <2> QED
    BY <1>1, <1>2, <2>1, <2>2, <2>3 DEF Recorded
<1> QED
  BY <1>3, <1>4, <1>5, <1>6 DEF QueueInv


LEMMA StartStep ==
  ASSUME MegaSchedulerAssumption, QueueInv, Start
  PROVE  QueueInv'
<1> DEFINE cut == {t \in Tasks : disk[t] \in ActiveStatus}
           kept == {t \in Tasks : disk[t] \in QueuedStatus}
<1>1. /\ QueueTypeOK /\ WorkHasASlot /\ WorkIsOfItsKind /\ DownHoldsNothing /\ IsFiniteSet(running)
      /\ app = "down" /\ app' = "up"
      /\ st' = [t \in Tasks |-> IF t \in cut THEN "INTERRUPTED" ELSE st[t]]
      /\ listed' = kept /\ disk' = Saved(kept, st) /\ Announce(cut) /\ tick' = Begun({}, cut # {})
      /\ UNCHANGED <<running, attempts, due, sess, kid, loose, dropped, factor, health, peak, upsets, threw>>
  BY DEF Start, QueueInv, workVars
<1>2. lives' \in 0..MaxLives
  BY <1>1 DEF Start, QueueTypeOK, MegaSchedulerAssumption
<1>3. \A t \in kept : st[t] \in QueuedStatus /\ st[t] = disk[t] /\ t \notin cut
  BY <1>1 DEF DownHoldsNothing, QueuedStatus, ActiveStatus
<1>4. kept \in SUBSET Tasks /\ cut \in SUBSET Tasks /\ \A t \in Tasks : disk[t] # "none" => t \in kept \cup cut
  BY <1>1 DEF QueueTypeOK
<1>5. \A t \in Tasks : st'[t] = IF t \in cut THEN "INTERRUPTED" ELSE st[t]
  BY <1>1
<1>6. \A t \in cut : disk[t] # "none" /\ st[t] \in ActiveStatus
  BY <1>1 DEF DownHoldsNothing, ActiveStatus
<1>7. (cut # {}) \in BOOLEAN
  OBVIOUS
<1> HIDE DEF cut, kept
<1>8. /\ disk' \in [Tasks -> QueuedStatus \cup ActiveStatus \cup {"none"}]
      /\ \A t \in Tasks : disk'[t] = IF t \in kept THEN st[t] ELSE "none"
      /\ \A t \in kept : disk'[t] # "none"
  <2>1. disk' = Saved(kept, st)
    BY <1>1
  <2>2. \A t \in kept : st[t] \in QueuedStatus \cup ActiveStatus
    BY <1>3
  <2> QED
    BY <1>4, <2>1, <2>2, SavedQueue
<1>9. tick' \in Ticks /\ tick'.at = "supervise"
  <2>1. Asked({}) = {}
    BY DEF Asked
  <2>2. tick'.at = "supervise"
    BY <1>1, <2>1 DEF Begun, Resting
  <2> QED
    BY <1>1, <1>7, <2>2, BegunIsTick
<1>10. /\ hist' = hist \cup cut /\ told' \in [Tasks -> Nat]
       /\ \A t \in Tasks : told[t] \in Nat /\ told'[t] = told[t] + IF t \in cut THEN 1 ELSE 0
  BY <1>1 DEF Announce, QueueTypeOK
<1>11. QueueTypeOK'
  <2>1. st' \in [Tasks -> Status]
    BY <1>1, <1>5 DEF QueueTypeOK, Status, TerminalStatus
  <2>2. hist' \subseteq Tasks
    BY <1>1, <1>4, <1>10 DEF QueueTypeOK
  <2> QED
    BY <1>1, <1>2, <1>4, <1>8, <1>9, <1>10, <2>1, <2>2 DEF QueueTypeOK, Ticks
<1>12. QueueIsOpen' /\ DownHoldsNothing' /\ WorkIsOfItsKind' /\ AwaitsAreKnown'
  <2>1. \A t \in Tasks : st'[t] \in QueuedStatus \cup ActiveStatus => t \in kept
    <3> SUFFICES ASSUME NEW t \in Tasks, t \notin kept PROVE st'[t] \notin QueuedStatus \cup ActiveStatus
      OBVIOUS
    <3>1. CASE t \in cut
      BY <1>5, <3>1 DEF QueuedStatus, ActiveStatus
    <3>2. CASE t \notin cut
      <4>1. disk[t] = "none"
        BY <1>4, <3>2
      <4>2. st[t] \in {"absent", "over"}
        BY <1>1, <4>1 DEF DownHoldsNothing
      <4> QED
        BY <1>5, <3>2, <4>2 DEF QueuedStatus, ActiveStatus
    <3> QED
      BY <3>1, <3>2
  <2>2. \A t \in kept : st'[t] \in QueuedStatus
    BY <1>3, <1>4, <1>5
  <2>3. QueueIsOpen'
    BY <1>1, <1>8, <2>1, <2>2 DEF QueueIsOpen, ActiveStatus
  <2>4. WorkIsOfItsKind'
    BY <1>1 DEF WorkIsOfItsKind
  <2> QED
    BY <1>1, <1>9, <2>3, <2>4 DEF DownHoldsNothing, AwaitsAreKnown
<1>13. WorkHasASlot' /\ IsFiniteSet(running')
  <2>1. running = {} /\ \A t \in Tasks : sess[t] = "none" /\ t \notin kid
    BY <1>1 DEF DownHoldsNothing
  <2>2. Active' = {}
    BY <1>1, <1>3, <1>4, <1>5 DEF Active, QueuedStatus, ActiveStatus
  <2>3. Cardinality(running') <= Slots /\ IsFiniteSet(running')
    BY <1>1 DEF WorkHasASlot
  <2> QED
    BY <1>1, <2>1, <2>2, <2>3 DEF WorkHasASlot, Working
<1>14. ASSUME NEW t \in Tasks PROVE OneOutcome(t)' /\ Recorded(t)'
  <2>1. OneOutcome(t) /\ Recorded(t) /\ told[t] \in Nat
    BY <1>10 DEF QueueInv
  <2>2. CASE t \in cut
    <3>1. told[t] = 0
      BY <1>6, <2>1, <2>2 DEF OneOutcome
    <3>2. told'[t] = 1 /\ t \notin listed' /\ disk'[t] = "none" /\ t \in hist' /\ st'[t] # "absent"
      BY <1>1, <1>3, <1>5, <1>8, <1>10, <2>2, <3>1
    <3> QED
      BY <3>2 DEF OneOutcome, Recorded
  <2>3. CASE t \notin cut
    <3>1. told'[t] = told[t] /\ st'[t] = st[t] /\ listed' = kept /\ (t \in kept <=> disk'[t] # "none")
      BY <1>1, <1>5, <1>8, <1>10, <2>1, <2>3
    <3>2. t \in kept => told[t] = 0
      BY <1>3, <2>1 DEF OneOutcome, QueuedStatus
    <3>3. disk[t] # "none" => t \in kept
      BY <1>4, <2>3
    <3>4. OneOutcome(t)'
      BY <2>1, <3>1, <3>2 DEF OneOutcome
    <3> QED
      BY <1>1, <1>10, <2>1, <3>1, <3>3, <3>4 DEF Recorded
  <2> QED
    BY <2>2, <2>3
<1> QED
  BY <1>11, <1>12, <1>13, <1>14 DEF QueueInv

--------------------------------------------------------------------------------
(* The theorems                                                                 *)

LEMMA QueueStep ==
  ASSUME MegaSchedulerAssumption, QueueInv, [QueueNext]_schedulerVars
  PROVE  QueueInv'
<1>1. CASE User
  BY <1>1, AddStep, EditStep, CancelStep, ClearStep, RemoveStep DEF User
<1>2. CASE Turn
  BY <1>2, SuperviseStep, TurnStep, EndTickStep, PassStep, HeadlessStep, OfficialStep DEF Turn
<1>3. CASE World
  BY <1>3, WorldStep, DispatchFailedStep DEF World
<1>4. CASE Timer \/ ListAnswered \/ ListFailed \/ Start \/ Stop \/ Exit \/ Die
  BY <1>4, TimerStep, ListStep, TurnStep, StartStep, StopStep, GoneStep
<1>5. ASSUME NEW t \in Tasks, DispatchAccepted(t) \/ ChildExits(t) \/ SessionEnds(t) \/ InstantComes(t)
      PROVE  QueueInv'
  BY <1>5, AcceptedStep, ExitOfChildStep, WorldStep
<1>6. CASE UNCHANGED schedulerVars
  BY <1>6 DEF schedulerVars, taskVars, workVars, recordVars, envVars, QueueInv, QueueTypeOK, DownHoldsNothing,
     QueueIsOpen, WorkIsOfItsKind, AwaitsAreKnown, WorkHasASlot, Active, Working, OneOutcome, Recorded, FileIsBehind
<1> QED
  BY <1>1, <1>2, <1>3, <1>4, <1>5, <1>6 DEF QueueNext

\* The inductive invariant of the queue: slots, awaits and the file stay consistent whoever
\* ends a task (scheduler.js, terminate() and the handlers that call it).
THEOREM QueueInvariant == QueueSpec => []QueueInv
<1>1. QueueInit => QueueInv
  BY QueueInitially, MegaSchedulerAssumption
<1>2. QueueInv /\ [QueueNext]_schedulerVars => QueueInv'
  BY QueueStep, MegaSchedulerAssumption
<1> QED
  BY <1>1, <1>2, PTL DEF QueueSpec

\* Every variable of the queue keeps its type: the file holds queued and active entries only.
THEOREM QueueTypeCorrect == QueueSpec => []QueueTypeOK
<1>1. QueueInv => QueueTypeOK
  BY DEF QueueInv
<1> QED
  BY <1>1, QueueInvariant, PTL

\* Whatever is cancelled, stalled, paused, lost or answered late, and however often the
\* shell dies: work goes on in a slot of an entry of the queue or is loose.
THEOREM SlotsHold == QueueSpec => []WorkHasASlot
<1>1. QueueInv => WorkHasASlot
  BY DEF QueueInv
<1> QED
  BY <1>1, QueueInvariant, PTL

\* For any number of tasks, lives and upsets: a task has one outcome, announced once, and
\* between two turns of the thread it is on file or in the history.
THEOREM FateIsOne == QueueSpec => []OneFate
<1>1. QueueInv => OneFate
  <2> SUFFICES ASSUME QueueInv, NEW t \in Tasks PROVE OneOutcome(t) /\ (Settled => NotLost(t))
    BY DEF OneFate
  <2>1. OneOutcome(t) /\ Recorded(t)
    BY DEF QueueInv
  <2> QED
    BY <2>1 DEF Recorded, FileIsBehind, Settled, NotLost
<1> QED
  BY <1>1, QueueInvariant, PTL

================================================================================
