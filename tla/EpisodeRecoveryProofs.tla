------------------------ MODULE EpisodeRecoveryProofs ------------------------
(* Theorems of EpisodeRecovery: the types, and that whoever runs the episode owns *)
(* its claim, for any number of shells, with any of them beside each other; and   *)
(* of shells that live one after another, that each finds the index current, and  *)
(* that the entry ends once.                                                      *)
(*                                                                                *)
(* Record, Unlock and Unreclaim return to where their shell is going, so what is  *)
(* said of a shell's place is said of its Position. Almost every action moves one *)
(* shell and touches neither the claim nor its reclaim lock: these are Quiet, and *)
(* preserve the invariant for the same reasons, given once. The lone shell's part *)
(* goes the same way: LoneStep, LoneMove, LoneFree, LoneWrite and LoneRefuse are   *)
(* the kinds of step, and each action is one of them.                             *)
EXTENDS EpisodeRecovery, TLAPS

Returning == {"record", "unlock", "unreclaim"}
PositionOf(l, m) == IF l \in Returning THEN m.next ELSE l

Ending == {"refresh", "cleaning up", "clean", "stuck", "close", "keep"}

\* The places where a shell relies on its claim.
Owning(l, m) ==
    \/ PositionOf(l, m) \in {"check"} \cup Entering \cup Executing
    \/ PositionOf(l, m) \in {"plan", "accept", "refuse"} /\ ~m.fresh

AfterRecord == {"accept", "refuse", "execute", "release", "clean", "refresh", "look again"}

\* Where those three may return to; and a shell that ends the episode knows how it ended.
Placed(l, m) ==
    /\ l = "record" => m.next \in AfterRecord
    /\ l = "unlock" => m.next \in {"release", "fail", "close", "keep"}
    /\ l = "unreclaim" => m.next \in {"begin", "execute", "unlock", "idle"}
    /\ PositionOf(l, m) \in Ending => m.goal \in Terminal

PlaceOK == \A h \in Hosts : Placed(pc[h], mem[h])

Reclaiming == {"reread", "archive", "unreclaim"}

\* A claim is by a shell that was launched; it is renamed away under the reclaim lock,
\* once its owner was seen dead.
ClaimOK ==
    /\ claim.by = Nobody => claim = NoClaim
    /\ claim.by \in Hosts => pc[claim.by] # "unborn"
    /\ \A h \in Hosts :
        /\ pc[h] = "fill" => claim = [by |-> h, whole |-> FALSE]
        /\ Owning(pc[h], mem[h]) => claim = [by |-> h, whole |-> TRUE]
        /\ pc[h] \in Reclaiming => reclaim = h
        /\ pc[h] = "archive" => claim.by \in Hosts /\ ~Alive(claim.by)

IInv == RecoveryTypeOK /\ PlaceOK /\ ClaimOK

\* h moves to l and remembers m.
Moved(h, l, m) ==
    /\ l \in Labels /\ m \in Memory
    /\ pc' = [pc EXCEPT ![h] = l]
    /\ mem' = [mem EXCEPT ![h] = m]
    /\ Placed(l, m)

\* ... and neither gains nor loses anything by it.
QuietTo(h, l, m) ==
    /\ Moved(h, l, m)
    /\ pc[h] # "dead" /\ l # "unborn"
    /\ l \notin {"fill", "reread", "archive"}
    /\ l = "unreclaim" => reclaim = h
    /\ Owning(l, m) => Owning(pc[h], mem[h])

Quiet(h) == \E l, m : QuietTo(h, l, m)

\* The rest of the state has its type after the step.
RestOK ==
    /\ top' \in Checkpoints /\ index' \in Entries /\ lock' \in Hosts \cup {Nobody}
    /\ tries' \in 0..(MaxAttempts + 1) /\ UNCHANGED config

--------------------------------------------------------------------------------
(* What the records hold.                                                        *)

LEMMA LabelType ==
    /\ {"unborn", "idle", "dead", "plan", "accept", "refuse", "unlock", "record", "unreclaim"} \subseteq Labels
    /\ Looking \subseteq Labels /\ Claiming \subseteq Labels /\ Claimed \subseteq Labels
    /\ Entering \subseteq Labels /\ Executing \subseteq Labels /\ Leaving \subseteq Labels
    /\ \A l \in Labels : Unrecorded(l) \in Labels
  BY DEF Labels, Unrecorded, Looking, Claiming, Claimed, Entering, Executing, Leaving

LEMMA BlankType ==
    /\ Blank \in Memory /\ NoEntry \in Entries /\ NoCheckpoint \in Checkpoints
    /\ Blank.goal = "none" /\ Blank.next = "idle" /\ Blank.fresh = FALSE /\ Blank.dirty = FALSE
  <1>1. NoEntry \in Entries
    BY RecoveryAssumption DEF NoEntry, Entries, States
  <1>2. NoCheckpoint \in Checkpoints
    BY RecoveryAssumption DEF NoCheckpoint, Checkpoints, States
  <1>3. "idle" \in Labels
    BY DEF Labels
  <1> QED
    BY <1>1, <1>2, <1>3 DEF Blank, Memory

LEMMA UpdateType ==
    ASSUME NEW m \in Memory, NEW e \in Entries
    PROVE  /\ Update(m, e) \in Memory
           /\ Update(m, e).goal = m.goal /\ Update(m, e).next = m.next /\ Update(m, e).fresh = m.fresh
  BY DEF Update, Memory

LEMMA BlockType ==
    ASSUME NEW m \in Memory, index \in Entries
    PROVE  /\ Block(m) \in Memory
           /\ Block(m).goal = m.goal /\ Block(m).next = m.next /\ Block(m).fresh = m.fresh
  <1>1. [index EXCEPT !.state = "BLOCKED"] \in Entries
    BY DEF Entries, States
  <1> QED
    BY <1>1, UpdateType DEF Block

LEMMA EntryType ==
    ASSUME NEW e \in Entries, NEW ck \in Checkpoints
    PROVE  Reconciled(e, ck) \in Entries /\ Recorded(e, ck) \in Entries
  BY RecoveryAssumption DEF Reconciled, Recorded, Entries, Checkpoints, States, Terminal

\* What a step does to single fields of a memory.
LEMMA FieldType ==
    ASSUME NEW m \in Memory
    PROVE  /\ \A l \in Labels : [m EXCEPT !.next = l] \in Memory
           /\ \A l \in Labels, ck \in Checkpoints : [m EXCEPT !.base = ck, !.next = l] \in Memory
           /\ \A ck \in Checkpoints : [m EXCEPT !.base = ck] \in Memory
           /\ \A ck \in Checkpoints, g \in {"none"} \cup Terminal : [m EXCEPT !.base = ck, !.goal = g] \in Memory
           /\ \A g \in {"none"} \cup Terminal : [m EXCEPT !.goal = g] \in Memory
           /\ \A e \in Entries, b \in BOOLEAN : [m EXCEPT !.dirty = b, !.saving = e] \in Memory
           /\ \A o \in Hosts \cup {Nobody} : [m EXCEPT !.stale = o] \in Memory
           /\ \A o \in Hosts \cup {Nobody}, l \in Labels : [m EXCEPT !.stale = o, !.next = l] \in Memory
           /\ \A l \in Labels, b \in BOOLEAN : [m EXCEPT !.next = l, !.refused = b] \in Memory
           /\ \A e \in Entries : [m EXCEPT !.seen = e] \in Memory
           /\ [m EXCEPT !.fresh = TRUE] \in Memory
           /\ m.base \in Checkpoints /\ m.stale \in Hosts \cup {Nobody} /\ m.next \in Labels
           /\ m.fresh \in BOOLEAN /\ m.saving \in Entries
  BY DEF Memory

LEMMA MovedType ==
    ASSUME RecoveryTypeOK, PlaceOK, NEW h \in Hosts, NEW l, NEW m, Moved(h, l, m)
    PROVE  /\ pc' \in [Hosts -> Labels] /\ mem' \in [Hosts -> Memory]
           /\ pc'[h] = l /\ mem'[h] = m
           /\ \A g \in Hosts \ {h} : pc'[g] = pc[g] /\ mem'[g] = mem[g]
           /\ PlaceOK'
  <1>1. pc' \in [Hosts -> Labels] /\ mem' \in [Hosts -> Memory]
    BY DEF RecoveryTypeOK, Moved
  <1>2. pc'[h] = l /\ mem'[h] = m
    BY DEF RecoveryTypeOK, Moved
  <1>3. \A g \in Hosts \ {h} : pc'[g] = pc[g] /\ mem'[g] = mem[g]
    BY DEF RecoveryTypeOK, Moved
  <1>4. PlaceOK'
    BY <1>1, <1>2, <1>3 DEF PlaceOK, Moved
  <1> QED
    BY <1>1, <1>2, <1>3, <1>4

--------------------------------------------------------------------------------
(* Steps that touch neither the claim nor its reclaim lock.                      *)

LEMMA QuietStep ==
    ASSUME IInv, NEW h \in Hosts, Quiet(h), RestOK, UNCHANGED <<claim, reclaim>>
    PROVE  IInv'
  <1>1. PICK l, m : QuietTo(h, l, m)
    BY DEF Quiet
  <1>2. /\ pc' \in [Hosts -> Labels] /\ mem' \in [Hosts -> Memory] /\ PlaceOK'
        /\ pc'[h] = l /\ mem'[h] = m
        /\ \A g \in Hosts \ {h} : pc'[g] = pc[g] /\ mem'[g] = mem[g]
    BY <1>1, MovedType DEF QuietTo, IInv
  <1>3. RecoveryTypeOK'
    BY <1>2 DEF RestOK, RecoveryTypeOK, IInv, config
  <1>4. ClaimOK'
    <2>1. claim.by \in Hosts /\ ~Alive(claim.by) => ~Alive(claim.by)'
      BY <1>1, <1>2 DEF QuietTo, IInv, ClaimOK, Alive
    <2>2. claim.by \in Hosts => pc'[claim.by] # "unborn"
      BY <1>1, <1>2 DEF QuietTo, IInv, ClaimOK
    <2> QED
      BY <1>1, <1>2, <2>1, <2>2 DEF QuietTo, IInv, ClaimOK, Reclaiming
  <1> QED
    BY <1>2, <1>3, <1>4 DEF IInv

LEMMA WriteStep ==
    ASSUME IInv, NEW h \in Hosts, NEW state \in States, NEW intent \in {"none"} \cup Terminal,
           NEW l \in Labels, Write(h, state, intent, l),
           pc[h] # "dead",
           l \in AfterRecord,
           l \in Ending => mem[h].goal \in Terminal,
           l \in {"check"} \cup Entering \cup Executing => Owning(pc[h], mem[h]),
           l \in {"plan", "accept", "refuse"} /\ ~mem[h].fresh => Owning(pc[h], mem[h])
    PROVE  IInv'
  <1> DEFINE ck == [seq |-> top.seq + 1, state |-> state, intent |-> intent]
             m  == [mem[h] EXCEPT !.base = ck, !.next = l]
  <1>1. ck \in Checkpoints
    BY RecoveryAssumption DEF IInv, RecoveryTypeOK, Write, Checkpoints
  <1>2. mem[h] \in Memory
    BY DEF IInv, RecoveryTypeOK
  <1>3. m \in Memory
    BY <1>1, <1>2, FieldType
  <1>4. m.goal = mem[h].goal /\ m.next = l /\ m.fresh = mem[h].fresh
    BY <1>2 DEF Memory
  <1>5. pc' = [pc EXCEPT ![h] = "record"] /\ mem' = [mem EXCEPT ![h] = m]
    BY DEF Write, Goto
  <1>6. tries' = 0 /\ top' = ck /\ UNCHANGED <<index, claim, reclaim, lock, config>>
    BY DEF Write
  <1> HIDE DEF m, ck
  <1>7. RestOK
    BY <1>1, <1>6, RecoveryAssumption DEF RestOK, IInv, RecoveryTypeOK
  <1>8. Moved(h, "record", m)
    BY <1>3, <1>4, <1>5, LabelType DEF Moved, Placed, PositionOf, Returning, AfterRecord
  <1>9. QuietTo(h, "record", m)
    BY <1>4, <1>8 DEF QuietTo, Owning, PositionOf, Returning, AfterRecord
  <1> QED
    BY <1>6, <1>7, <1>9, QuietStep DEF Quiet

LEMMA RestStep ==
    ASSUME IInv, NEW h \in Hosts, Quiet(h), UNCHANGED <<disk, tries, config>>
    PROVE  IInv'
  <1>1. RestOK /\ UNCHANGED <<claim, reclaim>>
    BY DEF RestOK, IInv, RecoveryTypeOK, disk
  <1> QED
    BY <1>1, QuietStep

LEMMA RefuseGivesUp ==
    ASSUME IInv, NEW h \in Hosts, Refuse(h), pc[h] # "dead"
    PROVE  \E l, m : QuietTo(h, l, m) /\ ~Owning(l, m)
  <1>1. mem[h] \in Memory /\ mem[h].fresh \in BOOLEAN
    BY FieldType DEF IInv, RecoveryTypeOK
  <1>2. {"release", "idle", "unlock", "unreclaim"} \subseteq Labels
    BY LabelType DEF Leaving
  <1> DEFINE m == IF mem[h].fresh THEN [mem[h] EXCEPT !.next = "release"] ELSE Blank
             l == IF mem[h].fresh THEN "unlock" ELSE "idle"
  <1>3. m \in Memory /\ m.next = IF mem[h].fresh THEN "release" ELSE "idle"
    BY <1>1, <1>2, FieldType, BlankType DEF Memory
  <1>4. l \in Labels
    BY <1>2
  <1>5. l # "unreclaim" /\ l # "record" /\ PositionOf(l, m) \in {"release", "idle"}
    BY <1>3 DEF PositionOf, Returning
  <1>6. l \in {"unlock", "idle"} /\ (l = "unlock" => m.next = "release")
    BY <1>3
  <1>7. \/ pc' = [pc EXCEPT ![h] = "unreclaim"] /\ mem' = [mem EXCEPT ![h] = [m EXCEPT !.next = l]] /\ reclaim = h
        \/ pc' = [pc EXCEPT ![h] = l] /\ mem' = [mem EXCEPT ![h] = m]
    BY DEF Refuse, Goto
  <1> HIDE DEF m, l
  <1>8. [m EXCEPT !.next = l] \in Memory /\ [m EXCEPT !.next = l].next = l
    BY <1>3, <1>4, FieldType DEF Memory
  <1>9. CASE pc' = [pc EXCEPT ![h] = "unreclaim"] /\ mem' = [mem EXCEPT ![h] = [m EXCEPT !.next = l]] /\ reclaim = h
    <2> DEFINE u == [m EXCEPT !.next = l]
    <2>1. u \in Memory /\ u.next = l
      BY <1>8
    <2>2. mem' = [mem EXCEPT ![h] = u]
      BY <1>9
    <2> HIDE DEF u
    <2>3. PositionOf("unreclaim", u) \in {"unlock", "idle"}
      BY <1>6, <2>1 DEF PositionOf, Returning
    <2>4. Placed("unreclaim", u)
      BY <1>6, <2>1, <2>3 DEF Placed, Ending
    <2>5. ~Owning("unreclaim", u)
      BY <2>3 DEF Owning, Entering, Executing
    <2>6. QuietTo(h, "unreclaim", u)
      BY <1>2, <1>9, <2>1, <2>2, <2>4, <2>5 DEF QuietTo, Moved
    <2> QED
      BY <2>5, <2>6
  <1>10. CASE pc' = [pc EXCEPT ![h] = l] /\ mem' = [mem EXCEPT ![h] = m]
    <2>1. ~Owning(l, m)
      BY <1>5 DEF Owning, Entering, Executing
    <2>2. Placed(l, m)
      BY <1>5, <1>6 DEF Placed, Ending
    <2>3. QuietTo(h, l, m)
      BY <1>3, <1>4, <1>6, <1>10, <2>1, <2>2 DEF QuietTo, Moved
    <2> QED
      BY <2>1, <2>3
  <1> QED
    BY <1>7, <1>9, <1>10

LEMMA RefuseQuiet ==
    ASSUME IInv, NEW h \in Hosts, Refuse(h), pc[h] # "dead"
    PROVE  Quiet(h)
  BY RefuseGivesUp DEF Quiet

\* h moves to l and remembers what it did.
LEMMA GotoQuiet ==
    ASSUME IInv, NEW h \in Hosts, NEW l \in Labels, Goto(h, l), UNCHANGED mem,
           pc[h] \notin Returning \cup {"dead"},
           l \notin Returning \cup {"unborn", "fill", "reread", "archive"},
           l \in Ending => mem[h].goal \in Terminal,
           l \in {"check"} \cup Entering \cup Executing => Owning(pc[h], mem[h]),
           l \in {"plan", "accept", "refuse"} /\ ~mem[h].fresh => Owning(pc[h], mem[h])
    PROVE  Quiet(h)
  <1>1. mem' = [mem EXCEPT ![h] = mem[h]] /\ mem[h] \in Memory
    BY DEF IInv, RecoveryTypeOK
  <1>2. QuietTo(h, l, mem[h])
    BY <1>1 DEF QuietTo, Moved, Placed, Goto, PositionOf, Owning, Returning
  <1> QED
    BY <1>2 DEF Quiet

LEMMA SaveStep ==
    ASSUME IInv, NEW h \in Hosts, Save(h)
    PROVE  IInv'
  <1> DEFINE m == [mem[h] EXCEPT !.dirty = FALSE, !.saving = NoEntry]
  <1>1. mem[h] \in Memory /\ mem[h].saving \in Entries
    BY FieldType DEF IInv, RecoveryTypeOK
  <1>2. m \in Memory
    BY <1>1, FieldType, BlankType
  <1>3. m.goal = mem[h].goal /\ m.next = mem[h].next /\ m.fresh = mem[h].fresh
    BY <1>1 DEF Memory
  <1>4. mem' = [mem EXCEPT ![h] = m] /\ pc' = [pc EXCEPT ![h] = pc[h]] /\ index' = mem[h].saving
    BY DEF Save, IInv, RecoveryTypeOK
  <1> HIDE DEF m
  <1>5. pc[h] \in Labels
    BY DEF IInv, RecoveryTypeOK
  <1>6. RecoveryTypeOK'
    BY <1>1, <1>2, <1>4 DEF Save, IInv, RecoveryTypeOK, config
  <1>7. /\ pc' = pc
        /\ \A g \in Hosts : PositionOf(pc[g], mem'[g]) = PositionOf(pc[g], mem[g])
                            /\ mem'[g].goal = mem[g].goal /\ mem'[g].fresh = mem[g].fresh
                            /\ mem'[g].next = mem[g].next
    BY <1>2, <1>3, <1>4 DEF Save, PositionOf, IInv, RecoveryTypeOK
  <1>8. PlaceOK'
    BY <1>7 DEF PlaceOK, Placed, IInv
  <1>9. ClaimOK'
    BY <1>7 DEF ClaimOK, IInv, Save, Owning, Alive, Reclaiming
  <1> QED
    BY <1>6, <1>8, <1>9 DEF IInv

--------------------------------------------------------------------------------
(* A shell's life.                                                               *)

LEMMA LaunchStep ==
    ASSUME IInv, NEW h \in Hosts, Launch(h)
    PROVE  IInv'
  <1>1. Quiet(h)
    BY GotoQuiet, LabelType DEF Launch, Returning, Ending, Entering, Executing
  <1> QED
    BY <1>1, RestStep DEF Launch

LEMMA DieStep ==
    ASSUME IInv, NEW h \in Hosts, Die(h)
    PROVE  IInv'
  <1>1. mem[h] \in Memory /\ index \in Entries /\ top \in Checkpoints
    BY DEF IInv, RecoveryTypeOK
  <1> DEFINE m == Blank
  <1>2. m \in Memory /\ m.goal = "none"
    BY <1>1, BlankType
  <1>3. pc' = [pc EXCEPT ![h] = "dead"] /\ mem' = [mem EXCEPT ![h] = m] /\ UNCHANGED <<disk, tries, config>>
    BY DEF Die, Goto
  <1> HIDE DEF m
  <1>4. QuietTo(h, "dead", m)
    BY <1>2, <1>3, LabelType DEF Die, At, QuietTo, Moved, Placed, PositionOf, Returning, Ending, Owning, Entering, Executing, Alive
  <1> QED
    BY <1>3, <1>4, RestStep DEF Quiet

--------------------------------------------------------------------------------
(* resume(), to the claim.                                                       *)

LEMMA LookStep ==
    ASSUME IInv, NEW h \in Hosts, Look(h)
    PROVE  IInv'
  <1>1. mem[h] \in Memory /\ index \in Entries /\ top \in Checkpoints
    BY DEF IInv, RecoveryTypeOK
  <1> DEFINE m == Update(Blank, Reconciled(index, top))
  <1>2. m \in Memory
    BY <1>1, BlankType, UpdateType, EntryType
  <1>3. pc' = [pc EXCEPT ![h] = "cleanup"] /\ mem' = [mem EXCEPT ![h] = m] /\ UNCHANGED <<disk, tries, config>>
    BY DEF Look, Goto
  <1> HIDE DEF m
  <1>4. QuietTo(h, "cleanup", m)
    BY <1>2, <1>3, LabelType DEF Look, At, QuietTo, Moved, Placed, PositionOf, Returning, Ending, Owning, Entering, Executing, Looking
  <1> QED
    BY <1>3, <1>4, RestStep DEF Quiet

LEMMA RetryCleanupStep ==
    ASSUME IInv, NEW h \in Hosts, RetryCleanup(h)
    PROVE  IInv'
  <1>1. mem[h] \in Memory /\ index \in Entries /\ top \in Checkpoints
    BY DEF IInv, RecoveryTypeOK
  <1>2. top.intent \in {"none"} \cup Terminal
    BY <1>1 DEF Checkpoints
  <1> DEFINE m == [mem[h] EXCEPT !.base = top, !.goal = top.intent]
             l == IF top.intent = "none" THEN "look again" ELSE "cleaning up"
  <1>3. m \in Memory /\ m.goal = top.intent
    BY <1>1, <1>2, FieldType DEF Memory
  <1>4. l \in {"look again", "cleaning up"} /\ (l = "cleaning up" => m.goal \in Terminal)
    BY <1>2, <1>3
  <1>5. pc' = [pc EXCEPT ![h] = l] /\ mem' = [mem EXCEPT ![h] = m] /\ UNCHANGED <<disk, tries, config>>
    BY DEF RetryCleanup, Goto
  <1> HIDE DEF m, l
  <1>6. QuietTo(h, l, m)
    BY <1>3, <1>4, <1>5, LabelType DEF RetryCleanup, Looking, At, QuietTo, Moved, Placed, PositionOf, Returning, Ending, Owning, Entering, Executing
  <1> QED
    BY <1>5, <1>6, RestStep DEF Quiet

LEMMA RefreshStep ==
    ASSUME IInv, NEW h \in Hosts, Refresh(h)
    PROVE  IInv'
  <1>1. mem[h] \in Memory /\ index \in Entries /\ top \in Checkpoints
    BY DEF IInv, RecoveryTypeOK
  <1> DEFINE m == [mem[h] EXCEPT !.base = top]
  <1>2. m \in Memory /\ m.goal = mem[h].goal
    BY <1>1, FieldType DEF Memory
  <1>3. pc' = [pc EXCEPT ![h] = "cleaning up"] /\ mem' = [mem EXCEPT ![h] = m] /\ UNCHANGED <<disk, tries, config>>
    BY DEF Refresh, Goto
  <1> HIDE DEF m
  <1>5. Placed(pc[h], mem[h])
    BY DEF IInv, PlaceOK
  <1>4. QuietTo(h, "cleaning up", m)
    BY <1>2, <1>3, <1>5, LabelType DEF Refresh, At, QuietTo, Moved, Placed, PositionOf, Returning, Ending, Owning, Entering, Executing, Looking
  <1> QED
    BY <1>3, <1>4, RestStep DEF Quiet

LEMMA RetryEntryStep ==
    ASSUME IInv, NEW h \in Hosts, RetryEntry(h)
    PROVE  IInv'
  <1>1. mem[h].base \in Checkpoints /\ Placed(pc[h], mem[h])
    BY FieldType DEF IInv, RecoveryTypeOK, PlaceOK
  <1>2. mem[h].base.state \in States /\ mem[h].base.intent \in {"none"} \cup Terminal
    BY <1>1 DEF Checkpoints
  <1> QED
    BY <1>1, <1>2, WriteStep, LabelType DEF RetryEntry, At, Placed, PositionOf, Returning, Ending, Looking, Entering, Executing, AfterRecord

LEMMA RetryEndsStep ==
    ASSUME IInv, NEW h \in Hosts, RetryEnds(h)
    PROVE  IInv'
  <1>1. mem[h].base \in Checkpoints /\ Placed(pc[h], mem[h])
    BY FieldType DEF IInv, RecoveryTypeOK, PlaceOK
  <1>2. mem[h].base.intent \in {"none"} \cup Terminal
    BY <1>1 DEF Checkpoints
  <1>3. mem[h].goal \in States /\ "BLOCKED" \in States /\ "look again" \in Labels
    BY <1>1, LabelType DEF RetryEnds, At, Placed, PositionOf, Returning, Ending, States, Looking
  <1>4. "look again" \notin Ending \cup {"check"} \cup Entering \cup Executing \cup {"plan", "accept", "refuse"}
    BY DEF Ending, Entering, Executing
  <1>5. pc[h] # "dead" /\ "look again" \in AfterRecord
    BY DEF RetryEnds, At, AfterRecord
  <1> QED
    BY <1>2, <1>3, <1>4, <1>5, WriteStep DEF RetryEnds

LEMMA RetryFailsStep ==
    ASSUME IInv, NEW h \in Hosts, RetryFails(h)
    PROVE  IInv'
  <1>1. mem[h] \in Memory /\ index \in Entries /\ top \in Checkpoints
    BY DEF IInv, RecoveryTypeOK
  <1> DEFINE m == Block(mem[h])
  <1>2. m \in Memory
    BY <1>1, BlockType
  <1>3. pc' = [pc EXCEPT ![h] = "look again"] /\ mem' = [mem EXCEPT ![h] = m] /\ UNCHANGED <<disk, tries, config>>
    BY DEF RetryFails, Goto
  <1> HIDE DEF m
  <1>4. QuietTo(h, "look again", m)
    BY <1>2, <1>3, LabelType DEF RetryFails, At, QuietTo, Moved, Placed, PositionOf, Returning, Ending, Owning, Entering, Executing, Looking
  <1> QED
    BY <1>3, <1>4, RestStep DEF Quiet

LEMMA LookAgainStep ==
    ASSUME IInv, NEW h \in Hosts, LookAgain(h)
    PROVE  IInv'
  <1>1. mem[h] \in Memory /\ index \in Entries /\ top \in Checkpoints
    BY DEF IInv, RecoveryTypeOK
  <1> DEFINE m == [Update(Blank, Reconciled(index, top)) EXCEPT !.seen = Reconciled(index, top)]
  <1>2. m \in Memory
    BY <1>1, BlankType, UpdateType, EntryType, FieldType
  <1>3. pc' = [pc EXCEPT ![h] = "choose"] /\ mem' = [mem EXCEPT ![h] = m] /\ UNCHANGED <<disk, tries, config>>
    BY DEF LookAgain, Goto
  <1> HIDE DEF m
  <1>4. QuietTo(h, "choose", m)
    BY <1>2, <1>3, LabelType DEF LookAgain, At, QuietTo, Moved, Placed, PositionOf, Returning, Ending, Owning, Entering, Executing, Looking
  <1> QED
    BY <1>3, <1>4, RestStep DEF Quiet

LEMMA ChooseStep ==
    ASSUME IInv, NEW h \in Hosts, Choose(h)
    PROVE  IInv'
  <1>1. index \in Entries /\ top \in Checkpoints /\ pc[h] = "choose" /\ UNCHANGED <<disk, tries, config>>
    BY DEF IInv, RecoveryTypeOK, Choose, At
  <1>2. PICK m, l : /\ mem' = [mem EXCEPT ![h] = m] /\ pc' = [pc EXCEPT ![h] = l]
                    /\ m \in {Blank, Block(Blank), [Blank EXCEPT !.base = top]}
                    /\ l \in {"idle", "claim"}
    BY DEF Choose, Goto
  <1>3. Block(Blank) \in Memory /\ [Blank EXCEPT !.base = top] \in Memory
    BY <1>1, BlankType, BlockType, FieldType
  <1>5. m \in Memory
    BY <1>2, <1>3, BlankType
  <1>4. QuietTo(h, l, m)
    BY <1>1, <1>2, <1>5, LabelType DEF Claiming, At, QuietTo, Moved, Placed, PositionOf, Returning, Ending, Owning, Entering, Executing
  <1> QED
    BY <1>1, <1>4, RestStep DEF Quiet

--------------------------------------------------------------------------------
(* resume(), from the claim.                                                     *)

LEMMA BeginStep ==
    ASSUME IInv, NEW h \in Hosts, Begin(h)
    PROVE  IInv'
  <1>1. mem[h] \in Memory /\ index \in Entries /\ pc[h] = "begin" /\ UNCHANGED <<disk, tries, config>>
    BY DEF IInv, RecoveryTypeOK, Begin, At
  <1>2. [index EXCEPT !.state = "BLOCKED"] \in Entries
    BY <1>1 DEF Entries, States
  <1>3. index.attempts < MaxAttempts => [index EXCEPT !.attempts = @ + 1] \in Entries
    BY <1>1, RecoveryAssumption DEF Entries
  <1>4. PICK m, l : /\ mem' = [mem EXCEPT ![h] = m] /\ pc' = [pc EXCEPT ![h] = l] /\ m \in Memory
                    /\ l \in {"validate", "release"}
    BY <1>1, <1>2, <1>3, BlankType, UpdateType DEF Begin, Goto
  <1>5. QuietTo(h, l, m)
    BY <1>1, <1>4, LabelType DEF Leaving, At, QuietTo, Moved, Placed, PositionOf, Returning, Ending, Owning, Entering, Executing
  <1> QED
    BY <1>1, <1>5, RestStep DEF Quiet

LEMMA ValidateStep ==
    ASSUME IInv, NEW h \in Hosts, Validate(h)
    PROVE  IInv'
  <1>1. /\ index \in Entries /\ pc[h] = "validate" /\ UNCHANGED <<disk, config>>
        /\ top \in Checkpoints /\ lock \in Hosts \cup {Nobody} /\ tries \in 0..(MaxAttempts + 1)
    BY DEF IInv, RecoveryTypeOK, Validate, At
  <1>2. tries' \in 0..(MaxAttempts + 1)
    BY <1>1, RecoveryAssumption DEF Validate
  <1>3. RestOK
    BY <1>1, <1>2 DEF RestOK, disk
  <1>4. CASE Goto(h, "enter") /\ UNCHANGED mem
    BY <1>1, <1>3, <1>4, GotoQuiet, QuietStep, LabelType DEF disk, Returning, Ending, Entering, Executing, Owning, PositionOf
  <1>5. CASE mem' = [mem EXCEPT ![h] = Block(Blank)] /\ Goto(h, "release")
    <2>1. Block(Blank) \in Memory
      BY <1>1, BlankType, BlockType
    <2>2. QuietTo(h, "release", Block(Blank))
      BY <1>1, <1>5, <2>1, LabelType DEF Goto, Leaving, At, QuietTo, Moved, Placed, PositionOf, Returning, Ending, Owning, Entering, Executing
    <2> QED
      BY <1>1, <1>3, <2>2, QuietStep DEF Quiet, disk
  <1> QED
    BY <1>4, <1>5 DEF Validate

--------------------------------------------------------------------------------
(* run(), to its first checkpoint.                                               *)

LEMMA RunStep ==
    ASSUME IInv, NEW h \in Hosts, Run(h)
    PROVE  IInv'
  <1>1. /\ index \in Entries /\ UNCHANGED <<top, index, claim, reclaim, tries, config>>
        /\ top \in Checkpoints /\ lock \in Hosts \cup {Nobody} /\ tries \in 0..(MaxAttempts + 1)
    BY DEF IInv, RecoveryTypeOK, Run
  <1>2. mem[h] \in Memory /\ mem[h].fresh \in BOOLEAN
    BY FieldType DEF IInv, RecoveryTypeOK
  <1>3. RestOK
    BY <1>1 DEF RestOK, Run, TakeLock
  <1> DEFINE m == [Blank EXCEPT !.fresh = TRUE]
  <1>4. m \in Memory /\ m.fresh = TRUE
    BY BlankType, FieldType DEF Memory
  <1>5. pc[h] = "idle" /\ pc' = [pc EXCEPT ![h] = "plan"] /\ mem' = [mem EXCEPT ![h] = m]
    BY DEF Run, At, Goto
  <1> HIDE DEF m
  <1>6. QuietTo(h, "plan", m)
    BY <1>4, <1>5, LabelType DEF At, QuietTo, Moved, Placed, PositionOf, Returning, Ending, Owning, Entering, Executing
  <1> QED
    BY <1>1, <1>3, <1>6, QuietStep DEF Quiet

LEMMA RefusedQuiet ==
    ASSUME IInv, NEW h \in Hosts, NEW l \in {"release", "unlock"}, RunRefused(h, l), pc[h] # "dead"
    PROVE  Quiet(h)
  <1>1. mem[h] \in Memory /\ mem[h].fresh \in BOOLEAN
    BY FieldType DEF IInv, RecoveryTypeOK
  <1> DEFINE m == [mem[h] EXCEPT !.next = "release", !.refused = ~mem[h].fresh]
  <1>2. m \in Memory /\ m.next = "release"
    <2>1. "release" \in Labels
      BY LabelType DEF Leaving
    <2>2. (~mem[h].fresh) \in BOOLEAN
      OBVIOUS
    <2>3. m \in Memory
      BY <1>1, <2>1, <2>2, FieldType
    <2> QED
      BY <1>1, <2>3 DEF Memory
  <1>3. pc' = [pc EXCEPT ![h] = l] /\ mem' = [mem EXCEPT ![h] = m]
    BY DEF RunRefused, Goto
  <1> HIDE DEF m
  <1>4. QuietTo(h, l, m)
    BY <1>2, <1>3, LabelType DEF Leaving, At, QuietTo, Moved, Placed, PositionOf, Returning, Ending, Owning, Entering, Executing
  <1> QED
    BY <1>4 DEF Quiet

LEMMA EnterStep ==
    ASSUME IInv, NEW h \in Hosts, Enter(h)
    PROVE  IInv'
  <1>1. /\ index \in Entries /\ UNCHANGED <<top, index, claim, reclaim, tries, config>>
        /\ top \in Checkpoints /\ lock \in Hosts \cup {Nobody} /\ tries \in 0..(MaxAttempts + 1)
    BY DEF IInv, RecoveryTypeOK, Enter
  <1>2. mem[h] \in Memory /\ mem[h].fresh \in BOOLEAN
    BY FieldType DEF IInv, RecoveryTypeOK
  <1>3. pc[h] = "enter" /\ RestOK
    BY <1>1 DEF RestOK, Enter, At, TakeLock
  <1>4. CASE Goto(h, "plan") /\ UNCHANGED mem
    BY <1>1, <1>3, <1>4, GotoQuiet, QuietStep, LabelType DEF Returning, Ending, Entering, Executing, Owning, PositionOf
  <1>5. CASE RunRefused(h, "release")
    BY <1>1, <1>3, <1>5, RefusedQuiet, QuietStep
  <1> QED
    BY <1>4, <1>5 DEF Enter

LEMMA PlanStep ==
    ASSUME IInv, NEW h \in Hosts, Plan(h)
    PROVE  IInv'
  <1>1. mem[h] \in Memory /\ Placed(pc[h], mem[h])
    BY DEF IInv, RecoveryTypeOK, PlaceOK
  <1> QED
    BY <1>1, WriteStep, FieldType, LabelType DEF Plan, At, Placed, PositionOf, Returning, Ending, Owning, Entering, Executing, States, AfterRecord

LEMMA PlanRefusedStep ==
    ASSUME IInv, NEW h \in Hosts, PlanRefused(h)
    PROVE  IInv'
  BY RefusedQuiet, RestStep DEF PlanRefused, At

LEMMA VerifyRefusedStep ==
    ASSUME IInv, NEW h \in Hosts, VerifyRefused(h)
    PROVE  IInv'
  <1>1. mem[h] \in Memory /\ Placed(pc[h], mem[h])
    BY DEF IInv, RecoveryTypeOK, PlaceOK
  <1> QED
    BY <1>1, WriteStep, FieldType, LabelType DEF VerifyRefused, At, Placed, PositionOf, Returning, Ending, Owning, Entering, Executing, States, AfterRecord

LEMMA RefusedStep ==
    ASSUME IInv, NEW h \in Hosts, Refused(h)
    PROVE  IInv'
  BY RefusedQuiet, RestStep DEF Refused, At

LEMMA AcceptStep ==
    ASSUME IInv, NEW h \in Hosts, Accept(h)
    PROVE  IInv'
  <1>1. mem[h] \in Memory /\ index \in Entries /\ top \in Checkpoints
    BY DEF IInv, RecoveryTypeOK
  <1> DEFINE ck == IF mem[h].fresh THEN top ELSE NoCheckpoint
             m == [mem[h] EXCEPT !.base = ck]
             l == IF mem[h].fresh THEN "claim" ELSE "execute"
  <1>2. ck \in Checkpoints
    BY <1>1, BlankType
  <1> HIDE DEF ck
  <1>8. m \in Memory
    BY <1>1, <1>2, FieldType
  <1>3. m \in Memory /\ m.fresh = mem[h].fresh
    BY <1>1, <1>8 DEF Memory
  <1>4. pc' = [pc EXCEPT ![h] = l] /\ mem' = [mem EXCEPT ![h] = m] /\ pc[h] = "accept" /\ UNCHANGED <<disk, tries, config>>
    BY DEF Accept, At, Goto, ck
  <1>5. l \in {"claim", "execute"} /\ (l = "execute" => ~mem[h].fresh)
    OBVIOUS
  <1> HIDE DEF m, l
  <1>6. QuietTo(h, l, m)
    BY <1>3, <1>4, <1>5, LabelType DEF Claiming, At, QuietTo, Moved, Placed, PositionOf, Returning, Ending, Owning, Entering, Executing
  <1> QED
    BY <1>4, <1>6, RestStep DEF Quiet

--------------------------------------------------------------------------------
(* run(), from there to its report.                                              *)

LEMMA ExecuteStep ==
    ASSUME IInv, NEW h \in Hosts, Step(h) \/ Preserve(h)
    PROVE  IInv'
  <1>1. pc[h] = "execute" /\ (Write(h, "ACTIVE", "none", "execute") \/ Write(h, "ACTIVE", "none", "release"))
    BY DEF Step, Preserve, At
  <1>2. "ACTIVE" \in States /\ Owning("execute", mem[h])
    BY DEF States, Owning, PositionOf, Returning, Executing
  <1> QED
    BY <1>1, <1>2, WriteStep, LabelType DEF Ending, Entering, Executing, Leaving, AfterRecord

LEMMA StepBlocksStep ==
    ASSUME IInv, NEW h \in Hosts, StepBlocks(h)
    PROVE  IInv'
  <1>1. Quiet(h)
    BY GotoQuiet, LabelType DEF StepBlocks, At, Returning, Ending, Entering, Executing, Owning, PositionOf
  <1> QED
    BY <1>1, RestStep DEF StepBlocks

LEMMA StepsFailStep ==
    ASSUME IInv, NEW h \in Hosts, StepsFail(h)
    PROVE  IInv'
  <1>1. mem[h] \in Memory /\ index \in Entries /\ top \in Checkpoints
    BY DEF IInv, RecoveryTypeOK
  <1> DEFINE m == [mem[h] EXCEPT !.next = "fail"]
  <1>2. m \in Memory /\ m.next = "fail"
    BY <1>1, FieldType, LabelType DEF Memory, Executing
  <1>3. pc' = [pc EXCEPT ![h] = "unlock"] /\ mem' = [mem EXCEPT ![h] = m] /\ UNCHANGED <<disk, tries, config>>
    BY DEF StepsFail, Goto
  <1> HIDE DEF m
  <1>4. QuietTo(h, "unlock", m)
    BY <1>2, <1>3, LabelType DEF StepsFail, At, QuietTo, Moved, Placed, PositionOf, Returning, Ending, Owning, Entering, Executing
  <1> QED
    BY <1>3, <1>4, RestStep DEF Quiet

LEMMA ConcludeStep ==
    ASSUME IInv, NEW h \in Hosts, Conclude(h)
    PROVE  IInv'
  <1>1. mem[h] \in Memory /\ pc[h] = "execute" /\ UNCHANGED <<disk, tries, config>>
    BY DEF IInv, RecoveryTypeOK, Conclude, At
  <1>2. PICK state \in Terminal : mem' = [mem EXCEPT ![h].goal = state]
    BY DEF Conclude
  <1> DEFINE m == [mem[h] EXCEPT !.goal = state]
  <1>3. m \in Memory /\ m.goal = state
    BY <1>1, <1>2, FieldType DEF Memory
  <1>4. mem' = [mem EXCEPT ![h] = m] /\ pc' = [pc EXCEPT ![h] = "clean"]
    BY <1>2 DEF Conclude, Goto
  <1> HIDE DEF m
  <1>5. QuietTo(h, "clean", m)
    BY <1>1, <1>3, <1>4, LabelType DEF At, QuietTo, Moved, Placed, PositionOf, Returning, Ending, Owning, Entering, Executing
  <1> QED
    BY <1>1, <1>5, RestStep DEF Quiet

LEMMA CleanEntryStep ==
    ASSUME IInv, NEW h \in Hosts, CleanEntry(h)
    PROVE  IInv'
  <1>1. mem[h].goal \in Terminal
    BY DEF IInv, PlaceOK, Placed, PositionOf, Returning, Ending, CleanEntry, At
  <1>2. mem[h].goal \in States /\ {"ACTIVE", "BLOCKED"} \subseteq States
    BY <1>1 DEF States
  <1> QED
    BY <1>1, <1>2, WriteStep, LabelType DEF CleanEntry, At, PositionOf, Returning, Ending, Owning, Entering, Executing, Leaving, AfterRecord

LEMMA CloseStep ==
    ASSUME IInv, NEW h \in Hosts, Close(h)
    PROVE  IInv'
  <1>1. mem[h].goal \in Terminal
    BY DEF IInv, PlaceOK, Placed, PositionOf, Returning, Ending, Close, At
  <1>2. mem[h].goal \in States /\ {"ACTIVE", "BLOCKED"} \subseteq States
    BY <1>1 DEF States
  <1> QED
    BY <1>1, <1>2, WriteStep, LabelType DEF Close, At, PositionOf, Returning, Ending, Owning, Entering, Executing, Leaving, AfterRecord

LEMMA KeepStep ==
    ASSUME IInv, NEW h \in Hosts, Keep(h)
    PROVE  IInv'
  <1>1. mem[h].goal \in Terminal
    BY DEF IInv, PlaceOK, Placed, PositionOf, Returning, Ending, Keep, At
  <1>2. mem[h].goal \in States /\ {"ACTIVE", "BLOCKED"} \subseteq States
    BY <1>1 DEF States
  <1> QED
    BY <1>1, <1>2, WriteStep, LabelType DEF Keep, At, PositionOf, Returning, Ending, Owning, Entering, Executing, Leaving, AfterRecord

LEMMA FailStep ==
    ASSUME IInv, NEW h \in Hosts, Fail(h)
    PROVE  IInv'
  <1>1. mem[h] \in Memory /\ Placed(pc[h], mem[h])
    BY DEF IInv, RecoveryTypeOK, PlaceOK
  <1> QED
    BY <1>1, WriteStep, FieldType, LabelType DEF Fail, At, Placed, PositionOf, Returning, Ending, Owning, Entering, Executing, States, AfterRecord, Leaving

LEMMA EndsStep ==
    ASSUME IInv, NEW h \in Hosts, NEW l \in {"close", "keep"}, Ends(h, l), pc[h] \in {"clean", "stuck"}
    PROVE  IInv'
  <1>1. mem[h] \in Memory /\ Placed(pc[h], mem[h])
    BY DEF IInv, RecoveryTypeOK, PlaceOK
  <1>2. mem[h].goal \in Terminal
    BY <1>1 DEF Placed, PositionOf, Returning, Ending
  <1> DEFINE m == [mem[h] EXCEPT !.next = l]
  <1>3. m \in Memory /\ m.next = l /\ m.goal = mem[h].goal
    <2>1. l \in Labels
      BY LabelType DEF Executing
    <2>2. m \in Memory
      BY <1>1, <2>1, FieldType
    <2> QED
      BY <1>1, <2>2 DEF Memory
  <1>4. UNCHANGED <<disk, tries, config>>
    BY DEF Ends
  <1>5. CASE mem' = [mem EXCEPT ![h] = m] /\ Goto(h, "unlock")
    <2> HIDE DEF m
    <2>1. QuietTo(h, "unlock", m)
      BY <1>2, <1>3, <1>5, LabelType DEF Goto, At, QuietTo, Moved, Placed, PositionOf, Returning, Ending, Owning, Entering, Executing
    <2> QED
      BY <1>4, <2>1, RestStep DEF Quiet
  <1>6. CASE Goto(h, l) /\ UNCHANGED mem
    BY <1>2, <1>4, <1>6, GotoQuiet, RestStep, LabelType DEF Returning, Ending, Entering, Executing, Owning, PositionOf
  <1> QED
    BY <1>5, <1>6 DEF Ends

LEMMA UnlockStep ==
    ASSUME IInv, NEW h \in Hosts, Unlock(h)
    PROVE  IInv'
  <1>1. /\ mem[h] \in Memory /\ Placed(pc[h], mem[h]) /\ pc[h] = "unlock"
        /\ UNCHANGED <<top, index, claim, reclaim, tries, config>>
    BY DEF IInv, RecoveryTypeOK, PlaceOK, Unlock, At
  <1> DEFINE l == mem[h].next
             m == [mem[h] EXCEPT !.next = "idle"]
  <1>2. m \in Memory /\ m.goal = mem[h].goal /\ m.fresh = mem[h].fresh
    <2>1. m \in Memory
      BY <1>1, FieldType, LabelType
    <2> QED
      BY <1>1, <2>1 DEF Memory
  <1>3. l \in {"release", "fail", "close", "keep"} /\ (l \in Ending => mem[h].goal \in Terminal)
    BY <1>1 DEF Placed, PositionOf, Returning
  <1>4. Owning("unlock", mem[h]) <=> l \in Executing
    BY <1>3 DEF Owning, PositionOf, Returning, Entering, Executing
  <1>5. pc' = [pc EXCEPT ![h] = l] /\ mem' = [mem EXCEPT ![h] = m]
    BY DEF Unlock, Goto
  <1>6. RestOK
    BY <1>1 DEF RestOK, Unlock, IInv, RecoveryTypeOK
  <1> HIDE DEF m, l
  <1>7. QuietTo(h, l, m)
    BY <1>1, <1>2, <1>3, <1>4, <1>5, LabelType DEF Leaving, At, QuietTo, Moved, Placed, PositionOf, Returning, Ending, Owning, Entering, Executing
  <1> QED
    BY <1>1, <1>6, <1>7, QuietStep DEF Quiet

LEMMA RecordStep ==
    ASSUME IInv, NEW h \in Hosts, Record(h)
    PROVE  IInv'
  <1>1. /\ mem[h] \in Memory /\ Placed(pc[h], mem[h]) /\ pc[h] = "record" /\ index \in Entries
        /\ mem[h].base \in Checkpoints /\ mem[h].fresh \in BOOLEAN /\ UNCHANGED <<disk, tries, config>>
    BY FieldType DEF IInv, RecoveryTypeOK, PlaceOK, Record, At
  <1> DEFINE l == mem[h].next
             x == [mem[h] EXCEPT !.base = NoCheckpoint, !.next = "idle"]
             y == IF l \in {"refresh", "look again"} THEN Block(x)
                  ELSE IF l = "accept" THEN [x EXCEPT !.next = "release", !.refused = ~x.fresh]
                  ELSE x
             z == Update(x, Recorded(index, mem[h].base))
  <1>2. x \in Memory /\ x.goal = mem[h].goal /\ x.fresh = mem[h].fresh
    <2>1. x \in Memory
      BY <1>1, FieldType, LabelType, BlankType
    <2> QED
      BY <1>1, <2>1 DEF Memory
  <1>3. l \in AfterRecord /\ (l \in Ending => mem[h].goal \in Terminal)
    BY <1>1 DEF Placed, PositionOf, Returning
  <1>4. Owning("record", mem[h]) <=> \/ l \in {"check"} \cup Entering \cup Executing
                                     \/ l \in {"plan", "accept", "refuse"} /\ ~mem[h].fresh
    BY DEF Owning, PositionOf, Returning
  <1>5. z \in Memory /\ z.goal = mem[h].goal /\ z.fresh = mem[h].fresh
    BY <1>1, <1>2, UpdateType, EntryType
  <1>6. y \in Memory /\ y.goal = mem[h].goal /\ y.fresh = mem[h].fresh /\ (l = "accept" => y.next = "release")
    <2> HIDE DEF x
    <2> DEFINE w == [x EXCEPT !.next = "release", !.refused = ~x.fresh]
    <2>1. "release" \in Labels /\ (~x.fresh) \in BOOLEAN
      BY LabelType DEF Leaving
    <2>3. w \in Memory
      BY <1>2, <2>1, FieldType
    <2>4. w.goal = x.goal /\ w.fresh = x.fresh /\ w.next = "release"
      BY <1>2 DEF Memory
    <2>2. Block(x) \in Memory /\ Block(x).goal = x.goal /\ Block(x).fresh = x.fresh
      BY <1>1, <1>2, BlockType
    <2> QED
      BY <1>2, <2>2, <2>3, <2>4
  <1>7. \/ pc' = [pc EXCEPT ![h] = l] /\ mem' = [mem EXCEPT ![h] = z]
        \/ pc' = [pc EXCEPT ![h] = Unrecorded(l)] /\ mem' = [mem EXCEPT ![h] = y]
    BY <1>2 DEF Record, Goto
  <1> HIDE DEF l, x, y, z
  <1>8. CASE pc' = [pc EXCEPT ![h] = l] /\ mem' = [mem EXCEPT ![h] = z]
    <2>1. Placed(l, z) /\ PositionOf(l, z) = l
      BY <1>3, <1>5 DEF Placed, PositionOf, Returning, AfterRecord
    <2>2. QuietTo(h, l, z)
      BY <1>1, <1>3, <1>4, <1>5, <1>8, <2>1, LabelType DEF QuietTo, Moved, Owning, AfterRecord, Looking, Executing, Leaving
    <2> QED
      BY <1>1, <2>2, RestStep DEF Quiet
  <1>9. CASE pc' = [pc EXCEPT ![h] = Unrecorded(l)] /\ mem' = [mem EXCEPT ![h] = y]
    <2> DEFINE u == Unrecorded(l)
    <2>1. /\ u \in {"unlock", "fail", "stuck", "look again", "refuse", "release"}
          /\ u = "unlock" => l = "accept"
          /\ u = "fail" => l = "execute"
          /\ u = "stuck" => l = "clean"
          /\ u = "refuse" => l = "refuse"
      BY <1>3 DEF Unrecorded, AfterRecord
    <2> HIDE DEF u
    <2>2. Placed(u, y)
      BY <1>3, <1>6, <2>1 DEF Placed, PositionOf, Returning, Ending
    <2>3. Owning(u, y) => Owning("record", mem[h])
      BY <1>4, <1>6, <2>1 DEF Owning, PositionOf, Returning, Entering, Executing
    <2>4. u \in Labels
      BY <2>1, LabelType DEF Looking, Executing, Leaving
    <2>5. QuietTo(h, u, y)
      BY <1>1, <1>6, <1>9, <2>1, <2>2, <2>3, <2>4 DEF QuietTo, Moved, u
    <2> QED
      BY <1>1, <2>5, RestStep DEF Quiet
  <1> QED
    BY <1>7, <1>8, <1>9

--------------------------------------------------------------------------------
(* The end of the promise, and of resume().                                      *)

LEMMA ReleasedStep ==
    ASSUME IInv, NEW h \in Hosts, Released(h)
    PROVE  IInv'
  <1>1. mem[h] \in Memory /\ index \in Entries /\ pc[h] = "released" /\ UNCHANGED <<disk, tries, config>>
    BY DEF IInv, RecoveryTypeOK, Released, At
  <1>2. PICK m, l : /\ mem' = [mem EXCEPT ![h] = m] /\ pc' = [pc EXCEPT ![h] = l]
                    /\ m \in {Blank, Update(Blank, index)} /\ l \in {"block", "idle"}
    BY DEF Released, Goto
  <1>3. Blank \in Memory /\ Update(Blank, index) \in Memory
    BY <1>1, BlankType, UpdateType
  <1>4. m \in Memory
    BY <1>2, <1>3
  <1>5. QuietTo(h, l, m)
    BY <1>1, <1>2, <1>4, LabelType DEF Leaving, At, QuietTo, Moved, Placed, PositionOf, Returning, Ending, Owning, Entering, Executing
  <1> QED
    BY <1>1, <1>5, RestStep DEF Quiet

LEMMA BlockRefusedStep ==
    ASSUME IInv, NEW h \in Hosts, BlockRefused(h)
    PROVE  IInv'
  <1>1. mem[h] \in Memory /\ index \in Entries /\ top \in Checkpoints
    BY DEF IInv, RecoveryTypeOK
  <1> DEFINE m == Block(mem[h])
  <1>2. m \in Memory
    BY <1>1, BlockType
  <1>3. pc' = [pc EXCEPT ![h] = "idle"] /\ mem' = [mem EXCEPT ![h] = m] /\ UNCHANGED <<disk, tries, config>>
    BY DEF BlockRefused, Goto
  <1> HIDE DEF m
  <1>4. QuietTo(h, "idle", m)
    BY <1>2, <1>3, LabelType DEF BlockRefused, At, QuietTo, Moved, Placed, PositionOf, Returning, Ending, Owning, Entering, Executing
  <1> QED
    BY <1>3, <1>4, RestStep DEF Quiet

--------------------------------------------------------------------------------
(* acquireClaim() and releaseClaim().                                            *)

LEMMA ClaimStep ==
    ASSUME IInv, NEW h \in Hosts, NEW l, NEW m, Moved(h, l, m), RestOK, pc[h] # "dead", l # "unborn",
           claim' \in [by : Hosts \cup {Nobody}, whole : BOOLEAN], reclaim' \in Hosts \cup {Nobody},
           claim'.by = Nobody => claim' = NoClaim,
           claim'.by \in Hosts /\ claim'.by # claim.by => claim'.by = h,
           l = "fill" => claim' = [by |-> h, whole |-> FALSE],
           Owning(l, m) => claim' = [by |-> h, whole |-> TRUE],
           l \in Reclaiming => reclaim' = h,
           l = "archive" => claim'.by \in Hosts \ {h} /\ ~Alive(claim'.by),
           \A g \in Hosts \ {h} :
              /\ pc[g] = "fill" => claim' = claim
              /\ Owning(pc[g], mem[g]) => claim' = claim
              /\ pc[g] \in Reclaiming => reclaim' = reclaim
              /\ pc[g] = "archive" => claim' = claim
    PROVE  IInv'
  <1>1. /\ pc' \in [Hosts -> Labels] /\ mem' \in [Hosts -> Memory] /\ PlaceOK'
        /\ pc'[h] = l /\ mem'[h] = m
        /\ \A g \in Hosts \ {h} : pc'[g] = pc[g] /\ mem'[g] = mem[g]
    BY MovedType DEF IInv
  <1>2. RecoveryTypeOK'
    BY <1>1 DEF RestOK, RecoveryTypeOK, IInv, config
  <1>3. claim'.by \in Hosts => pc'[claim'.by] # "unborn"
    BY <1>1 DEF IInv, ClaimOK
  <1>4. ASSUME NEW g \in Hosts
        PROVE  /\ pc'[g] = "fill" => claim' = [by |-> g, whole |-> FALSE]
               /\ Owning(pc'[g], mem'[g]) => claim' = [by |-> g, whole |-> TRUE]
               /\ pc'[g] \in Reclaiming => reclaim' = g
    BY <1>1 DEF IInv, ClaimOK
  <1>5. ASSUME NEW g \in Hosts, pc'[g] = "archive"
        PROVE  claim'.by \in Hosts /\ pc'[claim'.by] \in {"unborn", "dead"}
    <2>1. CASE g = h
      BY <1>1, <1>5, <2>1 DEF Alive
    <2>2. CASE g # h
      <3>1. claim' = claim /\ claim.by \in Hosts /\ ~Alive(claim.by)
        BY <1>1, <1>5, <2>2 DEF IInv, ClaimOK
      <3>2. claim.by # h
        BY <3>1 DEF IInv, ClaimOK, Alive
      <3> QED
        BY <1>1, <3>1, <3>2 DEF Alive
    <2> QED
      BY <2>1, <2>2
  <1>6. ClaimOK'
    BY <1>3, <1>4, <1>5 DEF ClaimOK, Alive
  <1> QED
    BY <1>1, <1>2, <1>6 DEF IInv

LEMMA ClaimsStep ==
    ASSUME IInv, NEW h \in Hosts, Claim(h)
    PROVE  IInv'
  <1>1. pc[h] = "claim" /\ UNCHANGED <<disk, tries, config>>
    BY DEF Claim, At
  <1>2. CASE Refuse(h)
    BY <1>1, <1>2, RefuseQuiet, RestStep
  <1>3. CASE Goto(h, "create") /\ UNCHANGED mem
    BY <1>1, <1>3, GotoQuiet, RestStep, LabelType DEF Claiming, Returning, Ending, Entering, Executing
  <1> QED
    BY <1>2, <1>3 DEF Claim, Probe

LEMMA ProbeOwnerStep ==
    ASSUME IInv, NEW h \in Hosts, ProbeOwner(h)
    PROVE  IInv'
  <1>1. pc[h] = "probe" /\ UNCHANGED <<disk, tries, config>>
    BY DEF ProbeOwner, At
  <1>2. CASE Refuse(h)
    BY <1>1, <1>2, RefuseQuiet, RestStep
  <1>3. CASE Goto(h, "reclaim") /\ UNCHANGED mem
    BY <1>1, <1>3, GotoQuiet, RestStep, LabelType DEF Claiming, Returning, Ending, Entering, Executing
  <1> QED
    BY <1>2, <1>3 DEF ProbeOwner, Probe

LEMMA ExistingStep ==
    ASSUME IInv, NEW h \in Hosts, Existing(h)
    PROVE  IInv'
  <1>1. /\ mem[h] \in Memory /\ pc[h] = "existing" /\ UNCHANGED <<disk, tries, config>>
        /\ claim.by \in Hosts \cup {Nobody}
    BY DEF IInv, RecoveryTypeOK, Existing, At
  <1>2. CASE Refuse(h)
    BY <1>1, <1>2, RefuseQuiet, RestStep
  <1>3. CASE mem' = [mem EXCEPT ![h].stale = claim.by] /\ Goto(h, "probe")
    <2> DEFINE m == [mem[h] EXCEPT !.stale = claim.by]
    <2>1. m \in Memory
      BY <1>1, FieldType
    <2>2. mem' = [mem EXCEPT ![h] = m]
      BY <1>3
    <2> HIDE DEF m
    <2>3. QuietTo(h, "probe", m)
      BY <1>1, <1>3, <2>1, <2>2, LabelType DEF Goto, Claiming, At, QuietTo, Moved, Placed, PositionOf, Returning, Ending, Owning, Entering, Executing
    <2> QED
      BY <1>1, <2>3, RestStep DEF Quiet
  <1> QED
    BY <1>2, <1>3 DEF Existing

LEMMA CreateStep ==
    ASSUME IInv, NEW h \in Hosts, Create(h)
    PROVE  IInv'
  <1>1. /\ pc[h] = "create" /\ UNCHANGED <<top, index, reclaim, lock, tries, config>>
        /\ mem[h] \in Memory /\ RestOK
    BY DEF IInv, RecoveryTypeOK, Create, At, RestOK
  <1>2. CASE claim = NoClaim /\ claim' = [by |-> h, whole |-> FALSE] /\ Goto(h, "fill") /\ UNCHANGED mem
    <2>1. Moved(h, "fill", mem[h])
      BY <1>1, <1>2, LabelType DEF IInv, RecoveryTypeOK, Goto, Moved, Placed, PositionOf, Returning, Ending, Claimed
    <2>2. ~Owning("fill", mem[h])
      BY DEF Owning, PositionOf, Returning, Entering, Executing
    <2>3. claim.by = Nobody /\ claim'.by = h /\ h # Nobody
      BY <1>2 DEF NoClaim, Nobody, Hosts
    <2>4. \A g \in Hosts : pc[g] # "fill" /\ ~Owning(pc[g], mem[g]) /\ pc[g] # "archive"
      BY <2>3, RecoveryAssumption DEF IInv, ClaimOK, Nobody, Hosts
    <2> QED
      BY <1>1, <1>2, <2>1, <2>2, <2>3, <2>4, ClaimStep DEF IInv, RecoveryTypeOK, ClaimOK, Reclaiming
  <1>3. CASE Refuse(h) /\ UNCHANGED claim
    BY <1>1, <1>3, RefuseQuiet, QuietStep
  <1>4. CASE Goto(h, "existing") /\ UNCHANGED <<mem, claim>>
    BY <1>1, <1>4, GotoQuiet, QuietStep, LabelType DEF Claiming, Returning, Ending, Entering, Executing
  <1> QED
    BY <1>2, <1>3, <1>4 DEF Create

LEMMA FillStep ==
    ASSUME IInv, NEW h \in Hosts, Fill(h)
    PROVE  IInv'
  <1>1. /\ pc[h] = "fill" /\ UNCHANGED <<top, index, reclaim, lock, mem, tries, config>>
        /\ mem[h] \in Memory /\ RestOK /\ claim' = [claim EXCEPT !.whole = TRUE]
    BY DEF IInv, RecoveryTypeOK, Fill, At, RestOK
  <1>2. Moved(h, "check", mem[h])
    BY <1>1, LabelType DEF IInv, RecoveryTypeOK, Fill, Goto, Moved, Placed, PositionOf, Returning, Ending, Claimed, Claiming
  <1>3. claim = [by |-> h, whole |-> FALSE] /\ claim' = [by |-> h, whole |-> TRUE] /\ h # Nobody
    <2>1. claim = [by |-> h, whole |-> FALSE]
      BY <1>1 DEF IInv, ClaimOK
    <2>2. claim' = [by |-> h, whole |-> TRUE]
      BY <1>1, <2>1
    <2> QED
      BY <2>1, <2>2 DEF Hosts, Nobody
  <1>4. \A g \in Hosts \ {h} : pc[g] # "fill" /\ ~Owning(pc[g], mem[g])
    BY <1>3 DEF IInv, ClaimOK
  <1>5. \A g \in Hosts : pc[g] # "archive"
    BY <1>1, <1>3 DEF IInv, ClaimOK, Alive
  <1> QED
    BY <1>1, <1>2, <1>3, <1>4, <1>5, ClaimStep DEF IInv, RecoveryTypeOK, Reclaiming

LEMMA ArchiveStep ==
    ASSUME IInv, NEW h \in Hosts, Archive(h)
    PROVE  IInv'
  <1>1. /\ pc[h] = "archive" /\ UNCHANGED <<top, index, reclaim, lock, mem, tries, config>>
        /\ mem[h] \in Memory /\ RestOK /\ claim' = NoClaim
    BY DEF IInv, RecoveryTypeOK, Archive, At, RestOK
  <1>2. Moved(h, "create", mem[h])
    BY <1>1, LabelType DEF IInv, RecoveryTypeOK, Archive, Goto, Moved, Placed, PositionOf, Returning, Ending, Claimed, Claiming
  <1>3. claim.by \in Hosts /\ ~Alive(claim.by) /\ reclaim = h
    BY <1>1 DEF IInv, ClaimOK, Reclaiming
  <1>4. ASSUME NEW g \in Hosts
        PROVE  pc[g] # "fill" /\ ~Owning(pc[g], mem[g])
    <2>1. pc[g] = "fill" \/ Owning(pc[g], mem[g]) => g = claim.by
      BY DEF IInv, ClaimOK
    <2>2. Alive(g) \/ (pc[g] # "fill" /\ ~Owning(pc[g], mem[g]))
      BY DEF Alive, Owning, PositionOf, Returning, Entering, Executing
    <2> QED
      BY <1>3, <2>1, <2>2 DEF Alive
  <1>5. \A g \in Hosts \ {h} : pc[g] \notin Reclaiming /\ pc[g] # "archive"
    BY <1>3 DEF IInv, ClaimOK, Reclaiming
  <1>6. ~Owning("create", mem[h])
    BY DEF Owning, PositionOf, Returning, Entering, Executing
  <1>7. claim'.by = Nobody /\ Nobody \notin Hosts /\ claim' \in [by : Hosts \cup {Nobody}, whole : BOOLEAN]
    BY <1>1 DEF NoClaim, Nobody, Hosts
  <1> QED
    BY <1>1, <1>2, <1>4, <1>5, <1>6, <1>7, ClaimStep DEF IInv, RecoveryTypeOK, Reclaiming

LEMMA ReclaimStep ==
    ASSUME IInv, NEW h \in Hosts, Reclaim(h)
    PROVE  IInv'
  <1>1. /\ pc[h] = "reclaim" /\ UNCHANGED <<top, index, claim, lock, tries, config>>
        /\ mem[h] \in Memory /\ RestOK
    BY DEF IInv, RecoveryTypeOK, Reclaim, At, RestOK
  <1>2. CASE Refuse(h) /\ UNCHANGED reclaim
    BY <1>1, <1>2, RefuseQuiet, QuietStep
  <1>3. CASE reclaim = Nobody /\ reclaim' = h /\ Goto(h, "reread") /\ UNCHANGED mem
    <2>1. Moved(h, "reread", mem[h])
      BY <1>1, <1>3, LabelType DEF IInv, RecoveryTypeOK, Goto, Moved, Placed, PositionOf, Returning, Ending, Claiming
    <2>2. ~Owning("reread", mem[h])
      BY DEF Owning, PositionOf, Returning, Entering, Executing
    <2>3. \A g \in Hosts : pc[g] \notin Reclaiming
      BY <1>3 DEF IInv, ClaimOK, Nobody, Hosts
    <2> QED
      BY <1>1, <1>3, <2>1, <2>2, <2>3, ClaimStep DEF IInv, RecoveryTypeOK, ClaimOK, Reclaiming
  <1> QED
    BY <1>2, <1>3 DEF Reclaim

LEMMA RereadStep ==
    ASSUME IInv, NEW h \in Hosts, Reread(h)
    PROVE  IInv'
  <1>1. /\ pc[h] = "reread" /\ UNCHANGED <<disk, tries, config>>
        /\ mem[h] \in Memory /\ RestOK /\ reclaim = h
    BY DEF IInv, RecoveryTypeOK, ClaimOK, Reread, At, RestOK, disk, Reclaiming
  <1>2. CASE Refuse(h)
    BY <1>1, <1>2, RefuseQuiet, RestStep
  <1>3. CASE claim.whole /\ ~Alive(claim.by) /\ Goto(h, "archive") /\ UNCHANGED mem
    <2>1. Moved(h, "archive", mem[h])
      BY <1>1, <1>3, LabelType DEF IInv, RecoveryTypeOK, Goto, Moved, Placed, PositionOf, Returning, Ending, Claiming
    <2>2. ~Owning("archive", mem[h])
      BY DEF Owning, PositionOf, Returning, Entering, Executing
    <2>3. claim.by # Nobody
      BY <1>3 DEF IInv, ClaimOK, NoClaim
    <2>4. claim.by \in Hosts \ {h}
      BY <1>1, <1>3, <2>3 DEF IInv, RecoveryTypeOK, Alive
    <2>5. UNCHANGED <<claim, reclaim>>
      BY <1>1 DEF disk
    <2> QED
      BY <1>1, <1>3, <2>1, <2>2, <2>4, <2>5, ClaimStep DEF IInv, RecoveryTypeOK, ClaimOK, Reclaiming
  <1> QED
    BY <1>2, <1>3 DEF Reread, Probe

LEMMA CheckStep ==
    ASSUME IInv, NEW h \in Hosts, Check(h)
    PROVE  IInv'
  <1>1. /\ pc[h] = "check" /\ UNCHANGED <<top, index, reclaim, lock, tries, config>>
        /\ mem[h] \in Memory /\ mem[h].fresh \in BOOLEAN /\ index \in Entries /\ RestOK
    BY FieldType DEF IInv, RecoveryTypeOK, Check, At, RestOK
  <1>2. claim = [by |-> h, whole |-> TRUE] /\ Owning("check", mem[h])
    BY <1>1 DEF IInv, ClaimOK, Owning, PositionOf, Returning
  <1>3. ASSUME ~Current(h), claim' = NoClaim, Refuse(h)
        PROVE  IInv'
    <2>1. PICK l, m : QuietTo(h, l, m) /\ ~Owning(l, m)
      BY <1>1, <1>3, RefuseGivesUp
    <2>2. \A g \in Hosts \ {h} : pc[g] # "fill" /\ ~Owning(pc[g], mem[g])
      BY <1>2 DEF IInv, ClaimOK
    <2>3. \A g \in Hosts : pc[g] # "archive"
      BY <1>1, <1>2 DEF IInv, ClaimOK, Alive
    <2>4. claim'.by = Nobody /\ Nobody \notin Hosts /\ claim' \in [by : Hosts \cup {Nobody}, whole : BOOLEAN]
      BY <1>3 DEF NoClaim, Nobody, Hosts
    <2> QED
      BY <1>1, <1>3, <2>1, <2>2, <2>3, <2>4, ClaimStep DEF QuietTo, IInv, RecoveryTypeOK, Reclaiming
  <1>4. ASSUME Current(h), UNCHANGED claim,
               Check(h)
        PROVE  IInv'
    <2> DEFINE l == IF mem[h].fresh THEN "execute" ELSE "begin"
               n == IF reclaim = h THEN l ELSE "idle"
               m == [Update(mem[h], index) EXCEPT !.stale = Nobody, !.next = n]
               k == IF reclaim = h THEN "unreclaim" ELSE l
    <2>1. n \in Labels /\ Nobody \in Hosts \cup {Nobody}
      BY LabelType DEF Entering, Executing
    <2>2. Update(mem[h], index) \in Memory
      BY <1>1, UpdateType
    <2> HIDE DEF n
    <2>3. m \in Memory
      BY <2>1, <2>2, FieldType
    <2>4. m.next = n
      BY <2>2 DEF Memory
    <2>5. pc' = [pc EXCEPT ![h] = k] /\ mem' = [mem EXCEPT ![h] = m]
      BY <1>4 DEF Check, Goto, n
    <2>6. k \in {"unreclaim", "execute", "begin"} /\ (k = "unreclaim" => n \in {"execute", "begin"} /\ reclaim = h)
      BY DEF n
    <2> HIDE DEF l, m, k
    <2>7. Placed(k, m)
      BY <2>4, <2>6 DEF Placed, PositionOf, Returning, Ending
    <2>8. QuietTo(h, k, m)
      BY <1>1, <1>2, <2>3, <2>5, <2>6, <2>7, LabelType DEF QuietTo, Moved, Entering, Executing
    <2> QED
      BY <1>1, <1>4, <2>8, QuietStep DEF Quiet
  <1> QED
    BY <1>3, <1>4 DEF Check

LEMMA UnreclaimStep ==
    ASSUME IInv, NEW h \in Hosts, Unreclaim(h)
    PROVE  IInv'
  <1>1. /\ mem[h] \in Memory /\ Placed(pc[h], mem[h]) /\ pc[h] = "unreclaim" /\ reclaim' = Nobody
        /\ UNCHANGED <<top, index, claim, lock, tries, config>> /\ RestOK
    BY DEF IInv, RecoveryTypeOK, PlaceOK, Unreclaim, At, RestOK
  <1> DEFINE l == mem[h].next
             n == IF l = "unlock" THEN "release" ELSE "idle"
             m == [mem[h] EXCEPT !.next = n]
  <1>2. n \in Labels
    BY LabelType DEF Leaving
  <1> HIDE DEF n
  <1>3. m \in Memory
    BY <1>1, <1>2, FieldType
  <1>4. m.next = n /\ m.fresh = mem[h].fresh
    BY <1>1, <1>2 DEF Memory
  <1>5. l \in {"begin", "execute", "unlock", "idle"} /\ (l = "unlock" => n = "release")
    BY <1>1 DEF Placed, n
  <1>6. pc' = [pc EXCEPT ![h] = l] /\ mem' = [mem EXCEPT ![h] = m]
    BY DEF Unreclaim, Goto, n
  <1>7. Owning("unreclaim", mem[h]) <=> l \in {"begin", "execute"}
    BY <1>5 DEF Owning, PositionOf, Returning, Entering, Executing
  <1> HIDE DEF l, m
  <1>8. Placed(l, m) /\ l \in Labels
    BY <1>4, <1>5, LabelType DEF Placed, PositionOf, Returning, Ending, Entering, Executing
  <1>9. Moved(h, l, m)
    BY <1>3, <1>6, <1>8 DEF Moved
  <1>10. Owning(l, m) => claim = [by |-> h, whole |-> TRUE]
    <2>1. Owning(l, m) => l \in {"begin", "execute"}
      BY <1>4, <1>5 DEF Owning, PositionOf, Returning, Entering, Executing
    <2> QED
      BY <1>1, <1>7, <2>1 DEF IInv, ClaimOK
  <1>11. \A g \in Hosts \ {h} : pc[g] \notin Reclaiming
    BY <1>1 DEF IInv, ClaimOK, Reclaiming
  <1> QED
    BY <1>1, <1>5, <1>9, <1>10, <1>11, ClaimStep DEF IInv, RecoveryTypeOK, ClaimOK, Reclaiming

LEMMA ReleaseStep ==
    ASSUME IInv, NEW h \in Hosts, Release(h)
    PROVE  IInv'
  <1>1. /\ pc[h] = "release" /\ UNCHANGED <<top, index, reclaim, lock, mem, tries, config>>
        /\ mem[h] \in Memory /\ RestOK /\ claim' \in {claim, NoClaim}
        /\ claim' # claim => claim.by = h
    BY DEF IInv, RecoveryTypeOK, Release, At, RestOK
  <1>2. Moved(h, "released", mem[h])
    BY <1>1, LabelType DEF IInv, RecoveryTypeOK, Release, Goto, Moved, Placed, PositionOf, Returning, Ending, Leaving
  <1>3. ~Owning("released", mem[h]) /\ ~Owning("release", mem[h])
    BY DEF Owning, PositionOf, Returning, Entering, Executing
  <1>4. \A g \in Hosts \ {h} : /\ pc[g] = "fill" => claim' = claim
                               /\ Owning(pc[g], mem[g]) => claim' = claim
    BY <1>1 DEF IInv, ClaimOK
  <1>5. \A g \in Hosts : pc[g] = "archive" => claim' = claim
    BY <1>1 DEF IInv, ClaimOK, Alive
  <1>6. NoClaim \in [by : Hosts \cup {Nobody}, whole : BOOLEAN] /\ NoClaim.by = Nobody /\ Nobody \notin Hosts
    BY DEF NoClaim, Nobody, Hosts
  <1> QED
    BY <1>1, <1>2, <1>3, <1>4, <1>5, <1>6, ClaimStep DEF IInv, RecoveryTypeOK, ClaimOK, Reclaiming

--------------------------------------------------------------------------------
(* Every step, and the theorems.                                                 *)

LEMMA ShellStep ==
    ASSUME IInv, NEW h \in Hosts, Shell(h)
    PROVE  IInv'
  <1>1. CASE Launch(h) \/ Die(h) \/ Save(h) \/ Record(h)
    BY <1>1, LaunchStep, DieStep, SaveStep, RecordStep
  <1>2. CASE Look(h) \/ RetryCleanup(h) \/ Refresh(h) \/ RetryEntry(h) \/ RetryEnds(h) \/ RetryFails(h) \/ LookAgain(h) \/ Choose(h)
    BY <1>2, LookStep, RetryCleanupStep, RefreshStep, RetryEntryStep, RetryEndsStep, RetryFailsStep, LookAgainStep, ChooseStep
  <1>3. CASE Claim(h) \/ Create(h) \/ Fill(h) \/ Check(h) \/ Existing(h) \/ ProbeOwner(h) \/ Reclaim(h) \/ Reread(h) \/ Archive(h) \/ Unreclaim(h)
    BY <1>3, ClaimsStep, CreateStep, FillStep, CheckStep, ExistingStep, ProbeOwnerStep, ReclaimStep, RereadStep, ArchiveStep, UnreclaimStep
  <1>4. CASE Begin(h) \/ Validate(h) \/ Run(h) \/ Enter(h) \/ Plan(h) \/ PlanRefused(h) \/ VerifyRefused(h) \/ Refused(h) \/ Accept(h)
    BY <1>4, BeginStep, ValidateStep, RunStep, EnterStep, PlanStep, PlanRefusedStep, VerifyRefusedStep, RefusedStep, AcceptStep
  <1>5. CASE Step(h) \/ Preserve(h) \/ StepBlocks(h) \/ StepsFail(h) \/ Conclude(h) \/ CleanEntry(h) \/ Cleaned(h) \/ CleanupBlocks(h) \/ Close(h) \/ Keep(h) \/ Fail(h) \/ Unlock(h)
    BY <1>5, ExecuteStep, StepBlocksStep, StepsFailStep, ConcludeStep, CleanEntryStep, EndsStep, CloseStep, KeepStep, FailStep, UnlockStep DEF Cleaned, CleanupBlocks, At
  <1>6. CASE Release(h) \/ Released(h) \/ BlockRefused(h)
    BY <1>6, ReleaseStep, ReleasedStep, BlockRefusedStep
  <1> QED
    BY <1>1, <1>2, <1>3, <1>4, <1>5, <1>6 DEF Shell

LEMMA Start ==
    ASSUME RecoveryInit
    PROVE  IInv
  <1>1. RecoveryTypeOK
    <2>1. top \in Checkpoints /\ index \in Entries /\ mem \in [Hosts -> Memory]
      BY BlankType DEF RecoveryInit
    <2>2. claim \in [by : Hosts \cup {Nobody}, whole : BOOLEAN]
      BY DEF RecoveryInit, NoClaim
    <2>3. pc \in [Hosts -> Labels]
      BY LabelType DEF RecoveryInit
    <2>4. tries \in 0..(MaxAttempts + 1)
      BY RecoveryAssumption DEF RecoveryInit
    <2> QED
      BY <2>1, <2>2, <2>3, <2>4 DEF RecoveryInit, RecoveryTypeOK
  <1>2. \A h \in Hosts : pc[h] = "unborn" /\ PositionOf(pc[h], mem[h]) = "unborn"
    BY DEF RecoveryInit, PositionOf, Returning
  <1>3. PlaceOK
    BY <1>2 DEF PlaceOK, Placed, Ending
  <1>4. ClaimOK
    <2>1. claim = NoClaim /\ claim.by \notin Hosts
      BY DEF RecoveryInit, NoClaim, Nobody, Hosts
    <2>2. \A h \in Hosts : ~Owning(pc[h], mem[h]) /\ pc[h] \notin Reclaiming /\ pc[h] # "fill" /\ pc[h] # "archive"
      BY <1>2 DEF Owning, Entering, Executing, Reclaiming
    <2> QED
      BY <2>1, <2>2 DEF ClaimOK
  <1> QED
    BY <1>1, <1>3, <1>4 DEF IInv

\* Types, places and the claim together are inductive: whatever acquireClaim() and
\* releaseClaim() do in any number of shells, a claim changes hands only when its owner died.
THEOREM Invariance == RecoverySpec => []IInv
  <1>1. RecoveryInit => IInv
    BY Start
  <1>2. ASSUME IInv, [RecoveryNext]_recoveryVars
        PROVE  IInv'
    <2>1. CASE RecoveryNext
      BY <1>2, <2>1, ShellStep DEF RecoveryNext
    <2>2. CASE UNCHANGED recoveryVars
      BY <1>2, <2>2 DEF recoveryVars, disk, config, IInv, RecoveryTypeOK, PlaceOK, ClaimOK, Alive
    <2> QED
      BY <1>2, <2>1, <2>2
  <1> QED
    BY <1>1, <1>2, PTL DEF RecoverySpec

\* Every variable has its type, in every state of every instance.
THEOREM TypeCorrect == RecoverySpec => []RecoveryTypeOK
  <1>1. IInv => RecoveryTypeOK
    BY DEF IInv
  <1> QED
    BY <1>1, Invariance, PTL

--------------------------------------------------------------------------------
(* A shell that is alone.                                                        *)

\* The places where a shell may find the claim its own.
Holding == {"fill", "check", "plan", "accept", "refuse", "release"} \cup Entering \cup Executing

\* A new episode's run() gets there before it claims.
Resuming == Entering \cup {"plan", "accept"}
Holds(l, m) == PositionOf(l, m) \in Holding /\ (PositionOf(l, m) \in Resuming => ~m.fresh)

\* A shell that lives and is named by the claim is on its way to release it; so an owner
\* that it finds in its way is another one.
HoldOK ==
    \A h \in Hosts :
      /\ ~Alive(h) => ~mem[h].dirty
      /\ mem[h].stale # h
      /\ Alive(h) /\ claim.by = h => Holds(pc[h], mem[h]) /\ (pc[h] # "fill" => claim.whole)

\* The entry as it is once what m remembers was written over i.
Latest(m, i) == IF m.dirty THEN m.saving ELSE i

\* An entry e agrees with the newest checkpoint t, or is behind it; what it counts covers
\* the n recoveries that were validated since.
Sound(e, t, n) ==
    /\ e.seq <= t.seq
    /\ e.seq < t.seq => n = 0
    /\ e.seq = t.seq => n <= e.attempts /\ (e.state = "ACTIVE" => t.state = "ACTIVE")

Follows(i, e) ==
    /\ i.state \in Terminal => e.state = i.state
    /\ i.state = "BLOCKED" => e.state # "ACTIVE"

\* There is work left to resume from t.
Resumable(t) == t.state = "ACTIVE" /\ t.intent = "none"

Working == Claiming \cup Claimed \cup Entering \cup {"execute", "accept"}
WorksAt(l, m) == l \in Working \/ (l = "unreclaim" /\ m.next \in {"begin", "execute"})

\* What a shell at l that remembers m relies on, of the latest entry e and checkpoint t.
Knows(l, m, e, t, n) ==
    /\ l = "record" => /\ m.base = t
                       /\ m.next \in {"accept", "execute"} => Resumable(t)
                       /\ m.next = "look again" => t.state # "ACTIVE"
    /\ WorksAt(l, m) => /\ Resumable(t) /\ e.state = "ACTIVE" /\ e.seq = t.seq
                        /\ PositionOf(l, m) \notin {"accept", "execute"} => m.base = t
    /\ l = "validate" => n < e.attempts
    /\ l = "look again" => e.state # "ACTIVE" \/ t.intent = "none"
    /\ l = "choose" => e = m.seen /\ e.seq = t.seq /\ (e.state = "ACTIVE" => Resumable(t))

\* ... all of which holds when its last update is written, and when it dies before that.
Fine(l, m, i, t, n) ==
    LET e == Latest(m, i) IN Sound(e, t, n) /\ Follows(i, e) /\ Knows(l, m, e, t, n)

LoneOK ==
    ~overlap => /\ \A g, h \in Hosts : Alive(g) /\ Alive(h) => g = h
                /\ Sound(index, top, tries)
                /\ \A h \in Hosts : Alive(h) => Fine(pc[h], mem[h], index, top, tries)

LoneInv == IInv /\ HoldOK /\ LoneOK

\* Where a shell relies on nothing.
Free == Labels \ ({"record", "validate", "look again", "choose", "unreclaim", "unborn", "dead"} \cup Working)

LEMMA FreeLabels ==
    /\ {"idle", "plan", "refuse", "unlock", "cleanup", "refresh", "cleaning up", "clean", "stuck",
        "close", "keep", "fail", "release", "released", "block"} \subseteq Free
    /\ {"claim", "create", "existing", "probe", "reclaim", "reread", "archive", "fill", "check",
        "begin", "validate", "enter", "execute", "accept"} \subseteq Working
    /\ Working \cup Free \cup {"record", "validate", "look again", "choose", "unreclaim", "unborn", "dead"} = Labels
  BY DEF Free, Working, Labels, Looking, Claiming, Claimed, Entering, Executing, Leaving

LEMMA HoldingLabels ==
    Holding = {"fill", "check", "plan", "accept", "refuse", "release", "begin", "validate", "enter",
               "execute", "clean", "stuck", "close", "keep", "fail"}
  BY DEF Holding, Entering, Executing

LEMMA HoldsAt ==
    ASSUME NEW l, l \notin Returning, NEW m
    PROVE  /\ PositionOf(l, m) = l
           /\ l \notin Holding => ~Holds(l, m)
           /\ l \in Holding \ Resuming => Holds(l, m)
           /\ l \in Resuming => (Holds(l, m) <=> ~m.fresh)
           /\ Resuming = {"begin", "validate", "enter", "plan", "accept"}
  BY HoldingLabels DEF PositionOf, Holds, Resuming, Entering

LEMMA FreeFine ==
    ASSUME NEW l \in Free, NEW m, NEW i, NEW t, NEW n, Sound(i, t, n), ~m.dirty \/ m.saving = i
    PROVE  Fine(l, m, i, t, n)
  BY DEF Free, Fine, Latest, Follows, Knows, WorksAt

\* Nothing that is remembered relies on an entry that is blocked.
LEMMA BlockFine ==
    ASSUME NEW l \in Free \cup {"look again"}, NEW m \in Memory, index \in Entries, ~m.dirty, Sound(index, top, tries)
    PROVE  Fine(l, Block(m), index, top, tries)
  <1> DEFINE e == Latest(Block(m), index)
  <1>1. e = IF index.state \in Terminal THEN index ELSE [index EXCEPT !.state = "BLOCKED"]
    BY DEF Latest, Block, Update, Memory
  <1>2. /\ e.seq = index.seq /\ e.attempts = index.attempts /\ e.state # "ACTIVE"
        /\ index.state \in Terminal => e.state = index.state
    BY <1>1 DEF Entries, Terminal
  <1> HIDE DEF e
  <1>3. Sound(e, top, tries) /\ Follows(index, e)
    BY <1>2 DEF Sound, Follows
  <1>4. Knows(l, Block(m), e, top, tries)
    BY <1>2 DEF Knows, Free, WorksAt, Working, Claiming, Claimed, Entering
  <1> QED
    BY <1>3, <1>4 DEF Fine, e

LEMMA ReconciledFine ==
    ASSUME RecoveryTypeOK, Sound(index, top, tries)
    PROVE  LET e == Reconciled(index, top) IN
           /\ Sound(e, top, tries) /\ Follows(index, e) /\ e.seq = top.seq
           /\ e.state = "ACTIVE" => index.state = "ACTIVE" /\ top.state = "ACTIVE"
  <1>1. /\ index \in Entries /\ top \in Checkpoints /\ tries \in 0..(MaxAttempts + 1)
    BY DEF RecoveryTypeOK
  <1> DEFINE e == Reconciled(index, top)
  <1>2. /\ e.seq = top.seq /\ e.attempts = IF top.seq > index.seq THEN 0 ELSE index.attempts
        /\ e.state = IF index.state \in Terminal THEN index.state
                     ELSE IF index.state = "BLOCKED" /\ top.state = "ACTIVE" THEN "BLOCKED" ELSE top.state
    BY DEF Reconciled
  <1> HIDE DEF e
  <1>3. e.state = "ACTIVE" => index.state = "ACTIVE" /\ top.state = "ACTIVE"
    BY <1>1, <1>2 DEF Entries, States, Terminal
  <1>4. Follows(index, e)
    BY <1>1, <1>2 DEF Follows, Terminal
  <1>5. Sound(e, top, tries)
    BY <1>1, <1>2, <1>3, RecoveryAssumption DEF Sound, Entries, Checkpoints
  <1> QED
    BY <1>2, <1>3, <1>4, <1>5 DEF e

\* h alone moves to l and remembers m.
LEMMA LoneStep ==
    ASSUME LoneInv, NEW h \in Hosts, NEW l \in Labels, NEW m \in Memory,
           pc' = [pc EXCEPT ![h] = l], mem' = [mem EXCEPT ![h] = m], overlap' = overlap,
           Alive(h), l # "unborn",
           claim' = claim \/ claim'.by \in {h, Nobody},
           l # "dead" /\ claim'.by = h => Holds(l, m) /\ (l # "fill" => claim'.whole),
           m.stale # h, l = "dead" => ~m.dirty,
           ~overlap => Sound(index', top', tries'),
           ~overlap /\ l # "dead" => Fine(l, m, index', top', tries')
    PROVE  HoldOK' /\ LoneOK'
  <1>1. /\ pc'[h] = l /\ mem'[h] = m
        /\ \A g \in Hosts \ {h} : pc'[g] = pc[g] /\ mem'[g] = mem[g]
    BY DEF LoneInv, IInv, RecoveryTypeOK
  <1>2. HoldOK'
    <2>1. ASSUME NEW g \in Hosts
          PROVE  /\ ~Alive(g)' => ~mem'[g].dirty
                 /\ mem'[g].stale # g
                 /\ Alive(g)' /\ claim'.by = g => Holds(pc'[g], mem'[g]) /\ (pc'[g] # "fill" => claim'.whole)
      <3>1. CASE g = h
        BY <1>1, <3>1 DEF Alive
      <3>2. CASE g # h
        <4>1. claim'.by = g => claim' = claim
          BY <3>2 DEF Hosts, Nobody
        <4> QED
          BY <1>1, <3>2, <4>1 DEF LoneInv, HoldOK, Alive
      <3> QED
        BY <3>1, <3>2
    <2> QED
      BY <2>1 DEF HoldOK
  <1>3. LoneOK'
    <2> SUFFICES ASSUME ~overlap
                 PROVE  /\ \A f, g \in Hosts : Alive(f)' /\ Alive(g)' => f = g
                        /\ Sound(index', top', tries')
                        /\ \A g \in Hosts : Alive(g)' => Fine(pc'[g], mem'[g], index', top', tries')
      BY DEF LoneOK
    <2>1. \A g \in Hosts : Alive(g)' => g = h
      BY <1>1 DEF LoneInv, LoneOK, Alive
    <2> QED
      BY <1>1, <2>1 DEF Alive
  <1> QED
    BY <1>2, <1>3

\* ... and what is on disk stays, except that the claim may be removed.
LEMMA LoneMove ==
    ASSUME LoneInv, NEW h \in Hosts, NEW l \in Labels \ {"unborn", "dead", "fill"}, NEW m \in Memory,
           pc' = [pc EXCEPT ![h] = l], mem' = [mem EXCEPT ![h] = m],
           UNCHANGED <<index, top, tries, config>>, claim' \in {claim, NoClaim},
           Alive(h), pc[h] # "fill",
           Holds(pc[h], mem[h]) /\ claim'.by = h => Holds(l, m),
           m.stale # h,
           ~overlap => Fine(l, m, index, top, tries)
    PROVE  HoldOK' /\ LoneOK'
  <1>1. NoClaim.by = Nobody /\ Nobody # h
    BY DEF NoClaim, Nobody, Hosts
  <1>2. claim'.by = h => Holds(l, m) /\ claim'.whole
    BY <1>1 DEF LoneInv, HoldOK
  <1>3. ~overlap => Sound(index, top, tries)
    BY DEF LoneInv, LoneOK
  <1> QED
    BY <1>1, <1>2, <1>3, LoneStep DEF config

\* Between its updates, a shell knows all this of the index itself.
LEMMA Here ==
    ASSUME LoneInv, NEW h \in Hosts, NEW l, At(h, l), l \notin {"unborn", "dead"}
    PROVE  /\ Alive(h) /\ pc[h] = l /\ ~mem[h].dirty /\ mem[h] \in Memory /\ mem[h].stale # h /\ Blank.stale # h
           /\ RecoveryTypeOK /\ Placed(l, mem[h])
           /\ ~overlap => Sound(index, top, tries) /\ Knows(l, mem[h], index, top, tries)
  <1>1. Alive(h) /\ pc[h] = l /\ ~mem[h].dirty /\ mem[h] \in Memory /\ mem[h].stale # h /\ RecoveryTypeOK /\ Placed(l, mem[h])
    BY DEF At, Alive, LoneInv, HoldOK, IInv, RecoveryTypeOK, PlaceOK
  <1>2. Blank.stale # h
    BY DEF Blank, Nobody, Hosts
  <1>3. ~overlap => Sound(index, top, tries) /\ Fine(pc[h], mem[h], index, top, tries)
    BY <1>1 DEF LoneInv, LoneOK
  <1> QED
    BY <1>1, <1>2, <1>3 DEF Fine, Latest

--------------------------------------------------------------------------------
(* A shell that is alone: its life, the checkpoints it writes, and what it is refused. *)

LEMMA LoneLaunch ==
    ASSUME LoneInv, NEW h \in Hosts, Launch(h)
    PROVE  HoldOK' /\ LoneOK'
  <1>1. /\ pc' = [pc EXCEPT ![h] = "idle"] /\ pc \in [Hosts -> Labels] /\ pc[h] = "unborn"
        /\ UNCHANGED <<index, top, claim, mem, tries, overlap>> /\ \A g \in Hosts : Alive(g) => overlap
    BY DEF Launch, Goto, LoneInv, IInv, RecoveryTypeOK, disk, config
  <1>2. pc'[h] = "idle" /\ \A g \in Hosts \ {h} : pc'[g] = pc[g]
    BY <1>1
  <1>3. ~mem[h].dirty /\ claim.by # h
    BY <1>1 DEF LoneInv, HoldOK, Alive, IInv, ClaimOK
  <1>4. HoldOK'
    BY <1>1, <1>2, <1>3 DEF LoneInv, HoldOK, Alive
  <1>5. LoneOK'
    <2> SUFFICES ASSUME ~overlap
                 PROVE  /\ \A f, g \in Hosts : Alive(f)' /\ Alive(g)' => f = g
                        /\ Sound(index, top, tries)
                        /\ \A g \in Hosts : Alive(g)' => Fine(pc'[g], mem[g], index, top, tries)
      BY <1>1 DEF LoneOK
    <2>1. \A g \in Hosts : Alive(g)' => g = h
      BY <1>1, <1>2 DEF Alive
    <2>2. Sound(index, top, tries)
      BY DEF LoneInv, LoneOK
    <2>3. Fine("idle", mem[h], index, top, tries)
      BY <1>3, <2>2, FreeFine, FreeLabels
    <2> QED
      BY <1>2, <2>1, <2>2, <2>3
  <1> QED
    BY <1>4, <1>5

LEMMA LoneDie ==
    ASSUME LoneInv, NEW h \in Hosts, Die(h)
    PROVE  HoldOK' /\ LoneOK'
  <1>1. /\ Blank \in Memory /\ ~Blank.dirty /\ Blank.stale # h
    BY BlankType DEF Blank, Nobody, Hosts
  <1>2. /\ pc' = [pc EXCEPT ![h] = "dead"] /\ mem' = [mem EXCEPT ![h] = Blank] /\ Alive(h)
        /\ UNCHANGED <<index, top, claim, tries, overlap>>
    BY DEF Die, Goto, disk, config
  <1>3. ~overlap => Sound(index, top, tries)
    BY DEF LoneInv, LoneOK
  <1> QED
    BY <1>1, <1>2, <1>3, LoneStep, LabelType

\* A shell dies with what it did not write; what it writes is sound.
LEMMA LoneSave ==
    ASSUME LoneInv, NEW h \in Hosts, Save(h)
    PROVE  HoldOK' /\ LoneOK'
  <1> DEFINE m == [mem[h] EXCEPT !.dirty = FALSE, !.saving = NoEntry]
  <1>1. /\ mem[h] \in Memory /\ mem[h].saving \in Entries /\ mem[h].dirty /\ Alive(h) /\ mem[h].stale # h
        /\ UNCHANGED <<top, claim, tries, overlap>> /\ index' = mem[h].saving
        /\ mem' = [mem EXCEPT ![h] = m] /\ pc' = [pc EXCEPT ![h] = pc[h]]
    BY FieldType DEF Save, config, LoneInv, HoldOK, IInv, RecoveryTypeOK
  <1>2. m \in Memory
    BY <1>1, FieldType, BlankType
  <1>3. ~m.dirty /\ m.stale = mem[h].stale /\ m.next = mem[h].next /\ m.base = mem[h].base /\ m.seen = mem[h].seen /\ m.fresh = mem[h].fresh
    BY <1>1 DEF Memory
  <1> HIDE DEF m
  <1>4. PositionOf(pc[h], m) = PositionOf(pc[h], mem[h])
    BY <1>3 DEF PositionOf
  <1>5. claim.by = h => Holds(pc[h], m) /\ (pc[h] # "fill" => claim.whole)
    BY <1>1, <1>3, <1>4 DEF LoneInv, HoldOK, Holds
  <1>6. ~overlap => Sound(index', top, tries) /\ Fine(pc[h], m, index', top, tries)
    <2> SUFFICES ASSUME ~overlap
                 PROVE  Sound(index', top, tries) /\ Fine(pc[h], m, index', top, tries)
      OBVIOUS
    <2> DEFINE e == mem[h].saving
    <2>1. Sound(e, top, tries) /\ Knows(pc[h], mem[h], e, top, tries)
      BY <1>1 DEF LoneInv, LoneOK, Fine, Latest
    <2>2. Knows(pc[h], m, e, top, tries)
      BY <1>3, <1>4, <2>1 DEF Knows, WorksAt
    <2> QED
      BY <1>1, <1>3, <2>1, <2>2 DEF Fine, Latest, Follows
  <1>7. pc[h] \in Labels /\ pc[h] # "unborn" /\ pc[h] # "dead"
    BY <1>1 DEF Alive, LoneInv, IInv, RecoveryTypeOK
  <1> QED
    BY <1>1, <1>2, <1>3, <1>5, <1>6, <1>7, LoneStep

LEMMA NextSeq ==
    ASSUME top \in Checkpoints, index \in Entries
    PROVE  /\ top.seq < MaxSeq => top.seq + 1 \in 0..MaxSeq
           /\ \A ck : Sound(index, top, tries) /\ ck.seq = top.seq + 1 => Sound(index, ck, 0)
  BY RecoveryAssumption DEF Entries, Checkpoints, Sound

LEMMA LoneWrite ==
    ASSUME LoneInv, NEW h \in Hosts, NEW l0, At(h, l0), l0 \notin {"unborn", "dead", "fill"},
           NEW state \in States, NEW intent \in {"none"} \cup Terminal,
           NEW l \in AfterRecord, Write(h, state, intent, l),
           l \in {"refresh", "look again"} => ~Holds(l0, mem[h]),
           l = "accept" => l0 = "plan",
           l \in {"accept", "execute"} => state = "ACTIVE" /\ intent = "none",
           l = "look again" => state # "ACTIVE"
    PROVE  HoldOK' /\ LoneOK'
  <1> DEFINE ck == [seq |-> top.seq + 1, state |-> state, intent |-> intent]
             m  == [mem[h] EXCEPT !.base = ck, !.next = l]
  <1>1. /\ Alive(h) /\ pc[h] = l0 /\ ~mem[h].dirty /\ mem[h] \in Memory /\ mem[h].stale # h
        /\ index \in Entries /\ top \in Checkpoints
        /\ ~overlap => Sound(index, top, tries)
    BY Here DEF RecoveryTypeOK
  <1>2. ck \in Checkpoints /\ ck.seq = top.seq + 1 /\ ck.state = state /\ ck.intent = intent
    <2>1. top.seq < MaxSeq
      BY DEF Write
    <2>2. top.seq + 1 \in 0..MaxSeq
      BY <1>1, <2>1, NextSeq
    <2> QED
      BY <2>2 DEF Checkpoints
  <1>3. /\ pc' = [pc EXCEPT ![h] = "record"] /\ mem' = [mem EXCEPT ![h] = m]
        /\ tries' = 0 /\ top' = ck /\ UNCHANGED <<index, claim, overlap>>
    BY DEF Write, Goto, config
  <1> HIDE DEF ck
  <1>4. l \in Labels
    BY FreeLabels DEF AfterRecord, Working, Free, Claiming, Claimed, Entering, Labels
  <1>5. m \in Memory
    BY <1>1, <1>2, <1>4, FieldType
  <1>6. m.base = ck /\ m.next = l /\ ~m.dirty /\ m.stale = mem[h].stale /\ m.fresh = mem[h].fresh
    BY <1>1 DEF Memory
  <1> HIDE DEF m
  <1>7. PositionOf("record", m) = l
    BY <1>6 DEF PositionOf, Returning
  <1>8. claim.by = h => Holds("record", m) /\ claim.whole
    <2>1. claim.by = h => Holds(l0, mem[h]) /\ claim.whole
      BY <1>1 DEF LoneInv, HoldOK
    <2>2. l \in {"accept", "refuse", "execute", "release", "clean"} => l \in Holding
      BY HoldingLabels
    <2>3. l = "accept" /\ Holds(l0, mem[h]) => ~m.fresh
      BY <1>6, HoldsAt DEF Returning
    <2>4. l # "accept" => l \notin Resuming
      BY DEF AfterRecord, Resuming, Entering
    <2> QED
      BY <1>7, <2>1, <2>2, <2>3, <2>4 DEF AfterRecord, Holds
  <1>9. ~overlap => Sound(index, ck, 0)
    <2>1. ~overlap => Sound(index, top, tries)
      BY <1>1
    <2> QED
      BY <1>1, <1>2, <2>1, NextSeq
  <1>10. Knows("record", m, index, ck, 0)
    BY <1>2, <1>6 DEF Knows, WorksAt, Working, Claiming, Claimed, Entering, Resumable
  <1>11. ~overlap => Fine("record", m, index, ck, 0)
    BY <1>6, <1>9, <1>10 DEF Fine, Latest, Follows
  <1>12. "record" \in Labels
    BY LabelType
  <1> QED
    BY <1>1, <1>3, <1>5, <1>6, <1>7, <1>8, <1>9, <1>11, <1>12, LoneStep

\* A shell that is refused gives up what it was after.
LEMMA LoneRefuse ==
    ASSUME LoneInv, NEW h \in Hosts, NEW l0, At(h, l0), l0 \notin {"unborn", "dead", "fill"}, Refuse(h),
           claim' \in {claim, NoClaim}, claim' = claim => ~Holds(l0, mem[h]),
           UNCHANGED <<index, top, tries, config>>
    PROVE  HoldOK' /\ LoneOK'
  <1>1. /\ Alive(h) /\ pc[h] = l0 /\ ~mem[h].dirty /\ mem[h] \in Memory /\ mem[h].stale # h /\ Blank.stale # h
        /\ ~overlap => Sound(index, top, tries)
    BY Here
  <1>0. claim'.by # h \/ ~Holds(pc[h], mem[h])
    BY <1>1 DEF NoClaim, Nobody, Hosts
  <1> DEFINE m == IF mem[h].fresh THEN [mem[h] EXCEPT !.next = "release"] ELSE Blank
             l == IF mem[h].fresh THEN "unlock" ELSE "idle"
  <1>2. l \in {"unlock", "idle"} /\ {"unlock", "idle", "release", "unreclaim"} \subseteq Labels /\ {"unlock", "idle"} \subseteq Free
    BY LabelType, FreeLabels DEF Leaving
  <1>3. m \in Memory /\ ~m.dirty /\ m.stale # h
    <2>1. Blank \in Memory /\ ~Blank.dirty
      BY BlankType
    <2>2. [mem[h] EXCEPT !.next = "release"] \in Memory
      BY <1>1, <1>2, FieldType
    <2>3. [mem[h] EXCEPT !.next = "release"].dirty = mem[h].dirty /\ [mem[h] EXCEPT !.next = "release"].stale = mem[h].stale
      BY <1>1 DEF Memory
    <2> QED
      BY <1>1, <2>1, <2>2, <2>3
  <1>4. \/ pc' = [pc EXCEPT ![h] = "unreclaim"] /\ mem' = [mem EXCEPT ![h] = [m EXCEPT !.next = l]]
        \/ pc' = [pc EXCEPT ![h] = l] /\ mem' = [mem EXCEPT ![h] = m]
    BY DEF Refuse, Goto
  <1> HIDE DEF m, l
  <1>5. CASE pc' = [pc EXCEPT ![h] = l] /\ mem' = [mem EXCEPT ![h] = m]
    <2>1. ~overlap => Fine(l, m, index, top, tries)
      BY <1>1, <1>2, <1>3, FreeFine
    <2> QED
      BY <1>0, <1>1, <1>2, <1>3, <1>5, <2>1, LoneMove
  <1>6. CASE pc' = [pc EXCEPT ![h] = "unreclaim"] /\ mem' = [mem EXCEPT ![h] = [m EXCEPT !.next = l]]
    <2> DEFINE u == [m EXCEPT !.next = l]
    <2>1. u \in Memory
      BY <1>2, <1>3, FieldType
    <2>2. ~u.dirty /\ u.stale # h /\ u.next = l
      BY <1>3 DEF Memory
    <2>3. mem' = [mem EXCEPT ![h] = u]
      BY <1>6
    <2> HIDE DEF u
    <2>4. ~WorksAt("unreclaim", u)
      BY <1>2, <2>2 DEF WorksAt, Working, Claiming, Claimed, Entering
    <2>5. ~overlap => Fine("unreclaim", u, index, top, tries)
      BY <1>1, <2>2, <2>4 DEF Fine, Latest, Follows, Knows
    <2> QED
      BY <1>0, <1>1, <1>2, <1>6, <2>1, <2>2, <2>3, <2>5, LoneMove
  <1> QED
    BY <1>4, <1>5, <1>6

\* h goes on to l, and remembers what it did.
LEMMA LoneGoto ==
    ASSUME LoneInv, NEW h \in Hosts, NEW l0 \in Labels \ {"unborn", "dead", "fill", "record", "unlock", "unreclaim"}, At(h, l0),
           NEW l \in Labels \ {"unborn", "dead", "fill", "record", "unlock", "validate", "look again", "choose", "unreclaim"},
           Goto(h, l), UNCHANGED <<mem, index, top, tries, config>>, claim' \in {claim, NoClaim},
           l0 \in Holding /\ claim'.by = h => l \in Holding,
           l \in Resuming => l0 \in Resuming,
           l \in Working => l0 \in Working /\ l0 \notin {"accept", "execute"}
    PROVE  HoldOK' /\ LoneOK'
  <1>1. /\ Alive(h) /\ pc[h] = l0 /\ ~mem[h].dirty /\ mem[h] \in Memory /\ mem[h].stale # h
        /\ ~overlap => Sound(index, top, tries) /\ Knows(l0, mem[h], index, top, tries)
    BY Here
  <1>2. pc' = [pc EXCEPT ![h] = l] /\ mem' = [mem EXCEPT ![h] = mem[h]]
    BY DEF Goto, LoneInv, IInv, RecoveryTypeOK
  <1>3. l \in Working \/ l \in Free
    BY FreeLabels
  <1>4. PositionOf(l0, mem[h]) = l0 /\ PositionOf(l, mem[h]) = l
    BY DEF PositionOf, Returning
  <1>6. Holds(l0, mem[h]) /\ claim'.by = h => Holds(l, mem[h])
    BY <1>4 DEF Holds
  <1>5. ~overlap => Fine(l, mem[h], index, top, tries)
    <2>1. CASE l \in Free
      BY <1>1, <2>1, FreeFine
    <2>2. CASE l \in Working
      BY <1>1, <1>4, <2>2 DEF Fine, Latest, Follows, Knows, WorksAt
    <2> QED
      BY <1>3, <2>1, <2>2
  <1> QED
    BY <1>1, <1>2, <1>5, <1>6, LoneMove

\* A claim that h leaves alone after it removed its own is another's.
LEMMA LoneEpisodeMoves ==
    ASSUME LoneInv, NEW h \in Hosts, StepBlocks(h) \/ Archive(h) \/ Release(h)
    PROVE  HoldOK' /\ LoneOK'
  <1>1. CASE StepBlocks(h)
    <2>1. At(h, "execute") /\ Goto(h, "fail") /\ UNCHANGED <<mem, index, top, tries, config>> /\ claim' \in {claim, NoClaim}
      BY <1>1 DEF StepBlocks, disk
    <2>2. "execute" \in Labels /\ "fail" \in Labels /\ "fail" \in Holding /\ "fail" \notin Working /\ "fail" \notin Resuming
      BY HoldingLabels, LabelType, FreeLabels DEF Executing, Free, Resuming, Entering
    <2> QED
      BY <2>1, <2>2, LoneGoto
  <1>2. CASE Archive(h)
    <2>1. At(h, "archive") /\ Goto(h, "create") /\ UNCHANGED <<mem, index, top, tries, config>> /\ claim' \in {claim, NoClaim}
      BY <1>2 DEF Archive
    <2>2. "archive" \in Labels /\ "create" \in Labels /\ "archive" \notin Holding /\ "archive" \in Working /\ "create" \notin Resuming
      BY HoldingLabels, LabelType, FreeLabels DEF Claiming, Resuming, Entering
    <2> QED
      BY <2>1, <2>2, LoneGoto
  <1>3. CASE Release(h)
    <2>1. At(h, "release") /\ Goto(h, "released") /\ claim' \in {claim, NoClaim} /\ UNCHANGED <<mem, index, top, tries, config>>
      BY <1>3 DEF Release
    <2>2. claim'.by # h
      <3>1. claim.by = h => claim.whole /\ NoClaim.by # h
        BY <2>1 DEF LoneInv, HoldOK, At, Alive, NoClaim, Nobody, Hosts
      <3> QED
        BY <1>3, <3>1 DEF Release
    <2>3. "release" \in Labels /\ "released" \in Labels /\ "released" \notin Working /\ "released" \notin Resuming
      BY LabelType, FreeLabels DEF Leaving, Free, Resuming, Entering
    <2> QED
      BY <2>1, <2>2, <2>3, LoneGoto
  <1> QED
    BY <1>1, <1>2, <1>3

--------------------------------------------------------------------------------
(* ... at the claim.                                                             *)

\* What is said of the places around a claim.
LEMMA ClaimingLabels ==
    /\ {"claim", "create", "existing", "probe", "reclaim", "reread", "archive", "check"} \subseteq
         Working \ {"accept", "execute"}
    /\ {"claim", "create", "existing", "probe", "reclaim", "reread", "archive", "check", "fill", "begin", "validate", "enter"} \subseteq
         Labels \ {"unborn", "dead", "record", "unlock", "unreclaim"}
    /\ {"claim", "create", "existing", "probe", "reclaim", "reread", "archive"} \cap (Holding \cup Resuming \cup Returning) = {}
  BY HoldingLabels DEF Working, Labels, Claiming, Claimed, Entering, Resuming, Returning

LEMMA LoneClaims ==
    ASSUME LoneInv, NEW h \in Hosts, Claim(h) \/ ProbeOwner(h) \/ Reclaim(h) \/ Reread(h)
    PROVE  HoldOK' /\ LoneOK'
  <1> SUFFICES ASSUME NEW l0 \in {"claim", "probe", "reclaim", "reread"}, At(h, l0),
                      UNCHANGED <<index, top, claim, tries, config>>,
                      \/ Refuse(h)
                      \/ \E l \in {"create", "reclaim", "reread", "archive"} : Goto(h, l) /\ UNCHANGED mem
               PROVE  HoldOK' /\ LoneOK'
    BY DEF Claim, ProbeOwner, Reclaim, Reread, Probe, disk
  <1>1. l0 \in Working \ {"accept", "execute"} /\ l0 \in Labels \ {"unborn", "dead", "fill", "record", "unlock", "unreclaim"} /\ l0 \notin Holding
    BY ClaimingLabels
  <1>2. ~Holds(l0, mem[h])
    BY <1>1, ClaimingLabels, HoldsAt
  <1>3. CASE Refuse(h)
    BY <1>1, <1>2, <1>3, LoneRefuse
  <1>4. CASE \E l \in {"create", "reclaim", "reread", "archive"} : Goto(h, l) /\ UNCHANGED mem
    <2>1. PICK l \in {"create", "reclaim", "reread", "archive"} : Goto(h, l) /\ UNCHANGED mem
      BY <1>4
    <2>2. l \in Labels \ {"unborn", "dead", "fill", "record", "unlock", "validate", "look again", "choose", "unreclaim"} /\ l \notin Resuming
      BY ClaimingLabels
    <2> QED
      BY <1>1, <2>1, <2>2, LoneGoto
  <1> QED
    BY <1>3, <1>4

LEMMA LoneCreate ==
    ASSUME LoneInv, NEW h \in Hosts, Create(h)
    PROVE  HoldOK' /\ LoneOK'
  <1>1. At(h, "create") /\ UNCHANGED <<index, top, tries, config>>
    BY DEF Create
  <1>2. PositionOf("create", mem[h]) = "create" /\ "create" \notin Holding /\ "create" \in Working /\ ~Holds("create", mem[h])
    BY ClaimingLabels, HoldsAt
  <1>3. CASE Refuse(h) /\ UNCHANGED claim
    BY <1>1, <1>2, <1>3, LoneRefuse
  <1>4. CASE Goto(h, "existing") /\ UNCHANGED <<mem, claim>>
    BY <1>1, <1>2, <1>4, LoneGoto, ClaimingLabels
  <1>5. CASE claim' = [by |-> h, whole |-> FALSE] /\ Goto(h, "fill") /\ UNCHANGED mem
    <2>1. /\ Alive(h) /\ pc[h] = "create" /\ ~mem[h].dirty /\ mem[h] \in Memory /\ mem[h].stale # h
          /\ ~overlap => Sound(index, top, tries) /\ Knows("create", mem[h], index, top, tries)
      BY <1>1, Here
    <2>2. pc' = [pc EXCEPT ![h] = "fill"] /\ mem' = [mem EXCEPT ![h] = mem[h]] /\ UNCHANGED <<index, top, tries, overlap>> /\ claim'.by = h
      BY <1>1, <1>5 DEF Goto, LoneInv, IInv, RecoveryTypeOK, config
    <2>3. "fill" \in Labels /\ Holds("fill", mem[h]) /\ PositionOf("fill", mem[h]) = "fill"
      BY ClaimingLabels, HoldingLabels, HoldsAt DEF Returning
    <2>4. ~overlap => Fine("fill", mem[h], index, top, tries)
      BY <1>2, <2>1, <2>3 DEF Fine, Latest, Follows, Knows, WorksAt, Working, Claimed
    <2> QED
      BY <2>1, <2>2, <2>3, <2>4, LoneStep
  <1> QED
    BY <1>3, <1>4, <1>5 DEF Create

LEMMA LoneFill ==
    ASSUME LoneInv, NEW h \in Hosts, Fill(h)
    PROVE  HoldOK' /\ LoneOK'
  <1>1. At(h, "fill") /\ UNCHANGED <<index, top, tries, mem, overlap>> /\ claim' = [claim EXCEPT !.whole = TRUE] /\ Goto(h, "check")
    BY DEF Fill, config
  <1>2. /\ Alive(h) /\ pc[h] = "fill" /\ ~mem[h].dirty /\ mem[h] \in Memory /\ mem[h].stale # h
        /\ ~overlap => Sound(index, top, tries) /\ Knows("fill", mem[h], index, top, tries)
    BY <1>1, Here
  <1>3. claim'.by = h /\ claim'.whole
    BY <1>1, <1>2 DEF LoneInv, IInv, ClaimOK
  <1>4. pc' = [pc EXCEPT ![h] = "check"] /\ mem' = [mem EXCEPT ![h] = mem[h]]
    BY <1>1 DEF Goto, LoneInv, IInv, RecoveryTypeOK
  <1>5. "check" \in Labels /\ Holds("check", mem[h]) /\ \A l \in {"fill", "check"} : PositionOf(l, mem[h]) = l /\ l \in Working
    BY ClaimingLabels, HoldingLabels, HoldsAt DEF Returning, Working, Claimed
  <1>6. ~overlap => Fine("check", mem[h], index, top, tries)
    BY <1>2, <1>5 DEF Fine, Latest, Follows, Knows, WorksAt
  <1> QED
    BY <1>1, <1>2, <1>3, <1>4, <1>5, <1>6, LoneStep

\* The owner of an existing claim is another shell.
LEMMA LoneExisting ==
    ASSUME LoneInv, NEW h \in Hosts, Existing(h)
    PROVE  HoldOK' /\ LoneOK'
  <1>1. At(h, "existing") /\ UNCHANGED <<index, top, claim, tries, config>>
    BY DEF Existing, disk
  <1>2. /\ Alive(h) /\ pc[h] = "existing" /\ ~mem[h].dirty /\ mem[h] \in Memory /\ RecoveryTypeOK
        /\ ~overlap => Sound(index, top, tries) /\ Knows("existing", mem[h], index, top, tries)
    BY <1>1, Here
  <1>3. /\ PositionOf("existing", mem[h]) = "existing" /\ ~Holds("existing", mem[h]) /\ "existing" \in Working
        /\ "probe" \in Labels /\ "probe" \in Working
    BY ClaimingLabels, HoldsAt
  <1>4. CASE Refuse(h)
    BY <1>1, <1>3, <1>4, LoneRefuse
  <1>5. CASE mem' = [mem EXCEPT ![h].stale = claim.by] /\ Goto(h, "probe")
    <2> DEFINE m == [mem[h] EXCEPT !.stale = claim.by]
    <2>1. claim.by # h /\ claim.by \in Hosts \cup {Nobody}
      BY <1>2, <1>3 DEF LoneInv, HoldOK, RecoveryTypeOK
    <2>2. m \in Memory /\ m.stale # h /\ ~m.dirty /\ m.base = mem[h].base /\ m.next = mem[h].next
      <3>1. m \in Memory
        BY <1>2, <2>1, FieldType
      <3> QED
        BY <1>2, <2>1, <3>1 DEF Memory
    <2>3. pc' = [pc EXCEPT ![h] = "probe"] /\ mem' = [mem EXCEPT ![h] = m]
      BY <1>5 DEF Goto
    <2> HIDE DEF m
    <2>4. PositionOf("probe", m) = "probe"
      BY DEF PositionOf, Returning
    <2>5. ~overlap => Fine("probe", m, index, top, tries)
      BY <1>2, <1>3, <2>2, <2>4 DEF Fine, Latest, Follows, Knows, WorksAt
    <2> QED
      BY <1>1, <1>2, <1>3, <2>2, <2>3, <2>5, LoneMove
  <1> QED
    BY <1>4, <1>5 DEF Existing

\* The claim is kept by a shell whose entry is current, and the last entry stays what it was.
LEMMA LoneCheck ==
    ASSUME LoneInv, NEW h \in Hosts, Check(h)
    PROVE  HoldOK' /\ LoneOK'
  <1>1. At(h, "check") /\ UNCHANGED <<index, top, tries, config>>
    BY DEF Check
  <1>2. /\ Alive(h) /\ pc[h] = "check" /\ ~mem[h].dirty /\ mem[h] \in Memory /\ RecoveryTypeOK
        /\ ~overlap => Sound(index, top, tries) /\ Knows("check", mem[h], index, top, tries)
    BY <1>1, Here
  <1>3. CASE claim' = NoClaim /\ Refuse(h)
    <2>1. claim' \in {claim, NoClaim} /\ (claim' = claim => ~Holds("check", mem[h]))
      BY <1>2, <1>3 DEF LoneInv, IInv, ClaimOK, Owning, PositionOf, Returning, NoClaim, Nobody, Hosts
    <2> QED
      BY <1>1, <1>3, <2>1, LoneRefuse
  <1>4. CASE Current(h) /\ UNCHANGED claim
    <2> DEFINE r == IF mem[h].fresh THEN "execute" ELSE "begin"
               l == IF reclaim = h THEN "unreclaim" ELSE r
               n == IF reclaim = h THEN r ELSE "idle"
               m == [Update(mem[h], index) EXCEPT !.stale = Nobody, !.next = n]
    <2>1. pc' = [pc EXCEPT ![h] = l] /\ mem' = [mem EXCEPT ![h] = m]
      BY <1>4 DEF Check, Goto
    <2>2. r \in {"execute", "begin"} /\ n \in Labels /\ l \in Labels
      BY LabelType DEF Entering, Executing
    <2>3. Update(mem[h], index) \in Memory /\ Nobody \in Hosts \cup {Nobody} /\ Nobody # h
      BY <1>2, UpdateType DEF RecoveryTypeOK, Nobody, Hosts
    <2>4. m \in Memory
      BY <2>2, <2>3, FieldType
    <2>5. m.dirty /\ m.saving = index /\ m.stale = Nobody /\ m.next = n /\ m.base = mem[h].base /\ m.fresh = mem[h].fresh
      BY <1>2, <2>3 DEF Update, Memory
    <2> HIDE DEF m
    <2>6. PositionOf(l, m) = r /\ l \in {"unreclaim", "execute", "begin"} /\ r \in Holding
      BY <2>2, <2>5, HoldingLabels DEF PositionOf, Returning
    <2>7. Holds(l, m)
      BY <2>5, <2>6 DEF Holds, Resuming, Entering
    <2> HIDE DEF l, r, n
    <2>8. ~overlap => Fine(l, m, index, top, tries)
      <3>1. "check" \in Working /\ PositionOf("check", mem[h]) = "check"
        BY ClaimingLabels DEF PositionOf, Returning
      <3> QED
        BY <1>2, <2>5, <2>6, <3>1 DEF Fine, Latest, Follows, Knows, WorksAt
    <2> QED
      BY <1>1, <1>2, <1>4, <2>1, <2>2, <2>3, <2>4, <2>5, <2>6, <2>7, <2>8, LoneMove
  <1> QED
    BY <1>3, <1>4 DEF Check

--------------------------------------------------------------------------------
(* ... where it looks.                                                           *)

LEMMA FreeKnows ==
    ASSUME NEW l \in Free, NEW m, NEW e, NEW t, NEW n
    PROVE  Knows(l, m, e, t, n)
  BY DEF Free, Knows, WorksAt

\* What an update that is about to be written leaves of a memory.
LEMMA Updated ==
    ASSUME NEW m \in Memory, NEW e \in Entries
    PROVE  LET u == Update(m, e) IN
           u.dirty /\ u.saving = e /\ u.stale = m.stale /\ u.base = m.base /\ u.seen = m.seen /\ u.next = m.next
  BY DEF Update, Memory

\* The places where a shell looks; it owns nothing there.
LEMMA LookingLabels ==
    /\ Looking \cup {"idle", "block"} \subseteq Labels \ {"unborn", "dead", "fill", "record", "unlock", "unreclaim"}
    /\ \A l \in Looking \cup {"idle", "block"} : \A m : ~Holds(l, m)
    /\ Looking = {"cleanup", "refresh", "cleaning up", "look again", "choose"}
  BY HoldingLabels DEF Looking, Labels, Leaving, Holds, PositionOf, Returning

LEMMA LoneLook ==
    ASSUME LoneInv, NEW h \in Hosts, Look(h)
    PROVE  HoldOK' /\ LoneOK'
  <1> DEFINE e == Reconciled(index, top)
             m == Update(Blank, e)
  <1>1. /\ At(h, "idle") /\ UNCHANGED <<index, top, claim, tries, config>>
        /\ pc' = [pc EXCEPT ![h] = "cleanup"] /\ mem' = [mem EXCEPT ![h] = m]
    BY DEF Look, Goto, disk
  <1>2. /\ Alive(h) /\ pc[h] = "idle" /\ RecoveryTypeOK /\ Blank.stale # h
        /\ ~overlap => Sound(index, top, tries)
    BY <1>1, Here
  <1>3. e \in Entries
    BY <1>2, EntryType DEF RecoveryTypeOK
  <1>4. m \in Memory /\ m.dirty /\ m.saving = e /\ m.stale # h
    BY <1>2, <1>3, BlankType, UpdateType, Updated
  <1>5. ~overlap => Sound(e, top, tries) /\ Follows(index, e)
    BY <1>2, ReconciledFine
  <1> HIDE DEF m, e
  <1>6. "cleanup" \in Labels \ {"unborn", "dead", "fill"} /\ "cleanup" \in Free /\ ~Holds("idle", mem[h])
    BY LookingLabels, FreeLabels
  <1>7. ~overlap => Fine("cleanup", m, index, top, tries)
    BY <1>4, <1>5, <1>6, FreeKnows DEF Fine, Latest
  <1> QED
    BY <1>1, <1>2, <1>4, <1>6, <1>7, LoneMove

LEMMA LoneRetryCleanup ==
    ASSUME LoneInv, NEW h \in Hosts, RetryCleanup(h) \/ Refresh(h)
    PROVE  HoldOK' /\ LoneOK'
  <1> SUFFICES ASSUME NEW l0 \in {"cleanup", "refresh"}, At(h, l0), UNCHANGED <<index, top, claim, tries, config>>,
                      NEW g \in {"none"} \cup Terminal, NEW m, mem' = [mem EXCEPT ![h] = m],
                      m \in {[mem[h] EXCEPT !.base = top], [mem[h] EXCEPT !.base = top, !.goal = g]},
                      NEW l \in {"look again", "cleaning up"}, Goto(h, l),
                      l = "look again" => top.intent = "none"
               PROVE  HoldOK' /\ LoneOK'
    <2>1. CASE RetryCleanup(h)
      <3>1. top.intent \in {"none"} \cup Terminal
        BY DEF LoneInv, IInv, RecoveryTypeOK, Checkpoints
      <3> QED
        BY <2>1, <3>1 DEF RetryCleanup, disk
    <2>2. CASE Refresh(h)
      BY <2>2 DEF Refresh, disk
    <2> QED
      BY <2>1, <2>2
  <1>1. /\ Alive(h) /\ pc[h] = l0 /\ mem[h] \in Memory /\ ~mem[h].dirty /\ RecoveryTypeOK /\ mem[h].stale # h
        /\ ~overlap => Sound(index, top, tries)
    BY Here
  <1>2. m \in Memory
    <2>1. top \in Checkpoints
      BY <1>1 DEF RecoveryTypeOK
    <2>2. [mem[h] EXCEPT !.base = top] \in Memory /\ [mem[h] EXCEPT !.base = top, !.goal = g] \in Memory
      BY <1>1, <2>1, FieldType
    <2> QED
      BY <2>2
  <1>3. ~m.dirty /\ m.stale # h
    BY <1>1 DEF Memory
  <1>4. l0 \in Looking /\ l \in Labels \ {"unborn", "dead", "fill"} /\ ~Holds(l0, mem[h])
    BY LookingLabels
  <1>5. ~overlap => Fine(l, m, index, top, tries)
    <2>1. l \in Free \/ l = "look again"
      BY FreeLabels
    <2>2. l = "look again" => Knows(l, m, index, top, tries)
      BY DEF Knows, WorksAt, Working, Claiming, Claimed, Entering
    <2> QED
      BY <1>1, <1>3, <2>1, <2>2, FreeKnows DEF Fine, Latest, Follows
  <1> QED
    BY <1>1, <1>2, <1>3, <1>4, <1>5, LoneMove DEF Goto

\* The entry is blocked, and the shell goes where it is not asked about.
LEMMA LoneBlocks ==
    ASSUME LoneInv, NEW h \in Hosts, NEW l0, At(h, l0), l0 \notin {"unborn", "dead", "fill"},
           NEW l \in Labels \ {"unborn", "dead", "fill", "record", "unlock", "unreclaim"}, l \in Free \cup {"look again"},
           NEW m \in Memory, ~m.dirty, m.stale # h, mem' = [mem EXCEPT ![h] = Block(m)], Goto(h, l),
           UNCHANGED <<index, top, claim, tries, config>>,
           Holds(l0, mem[h]) => l \in Holding \ Resuming
    PROVE  HoldOK' /\ LoneOK'
  <1>1. /\ Alive(h) /\ pc[h] = l0 /\ mem[h] \in Memory /\ ~mem[h].dirty /\ RecoveryTypeOK
        /\ ~overlap => Sound(index, top, tries)
    BY Here
  <1>3. index \in Entries
    BY <1>1 DEF RecoveryTypeOK
  <1>4. Block(m) \in Memory /\ Block(m).stale # h
    BY <1>3, BlockType, Updated DEF Block, Update, Memory
  <1>5. ~overlap => Fine(l, Block(m), index, top, tries)
    BY <1>1, <1>3, BlockFine
  <1>6. Holds(l0, mem[h]) => Holds(l, Block(m))
    BY HoldsAt DEF Returning
  <1> QED
    BY <1>1, <1>4, <1>5, <1>6, LoneMove DEF Goto

LEMMA LoneFailures ==
    ASSUME LoneInv, NEW h \in Hosts, RetryFails(h) \/ BlockRefused(h)
    PROVE  HoldOK' /\ LoneOK'
  <1>1. CASE RetryFails(h)
    <2>1. At(h, "cleaning up") /\ mem' = [mem EXCEPT ![h] = Block(mem[h])] /\ Goto(h, "look again") /\ UNCHANGED <<index, top, claim, tries, config>>
          /\ mem[h] \in Memory /\ ~mem[h].dirty /\ mem[h].stale # h
      BY <1>1, Here DEF RetryFails, disk
    <2>2. ~Holds("cleaning up", mem[h]) /\ "look again" \in Labels
      BY LookingLabels
    <2> QED
      BY <2>1, <2>2, LoneBlocks
  <1>2. CASE BlockRefused(h)
    <2>1. At(h, "block") /\ mem' = [mem EXCEPT ![h] = Block(mem[h])] /\ Goto(h, "idle") /\ UNCHANGED <<index, top, claim, tries, config>>
          /\ mem[h] \in Memory /\ ~mem[h].dirty /\ mem[h].stale # h
      BY <1>2, Here DEF BlockRefused, disk
    <2>2. ~Holds("block", mem[h]) /\ "idle" \in Labels /\ "idle" \in Free
      BY LookingLabels, FreeLabels
    <2> QED
      BY <2>1, <2>2, LoneBlocks
  <1> QED
    BY <1>1, <1>2

\* What it reconciles now is active only if the work that is left can be resumed.
LEMMA LoneLookAgain ==
    ASSUME LoneInv, NEW h \in Hosts, LookAgain(h)
    PROVE  HoldOK' /\ LoneOK'
  <1> DEFINE e == Reconciled(index, top)
             u == Update(Blank, e)
             m == [u EXCEPT !.seen = e]
  <1>1. /\ At(h, "look again") /\ UNCHANGED <<index, top, claim, tries, config>>
        /\ pc' = [pc EXCEPT ![h] = "choose"] /\ mem' = [mem EXCEPT ![h] = m]
    BY DEF LookAgain, Goto, disk
  <1>2. /\ Alive(h) /\ pc[h] = "look again" /\ RecoveryTypeOK /\ Blank.stale # h
        /\ ~overlap => Sound(index, top, tries) /\ Knows("look again", mem[h], index, top, tries)
    BY <1>1, Here
  <1>3. e \in Entries
    BY <1>2, EntryType DEF RecoveryTypeOK
  <1>4. u \in Memory /\ u.dirty /\ u.saving = e /\ u.stale # h
    BY <1>2, <1>3, BlankType, UpdateType, Updated
  <1>5. m \in Memory
    BY <1>3, <1>4, FieldType
  <1>6. m.dirty /\ m.saving = e /\ m.stale # h /\ m.seen = e
    BY <1>3, <1>4 DEF Memory
  <1>7. ~overlap => /\ Sound(e, top, tries) /\ Follows(index, e) /\ e.seq = top.seq
                    /\ e.state = "ACTIVE" => index.state = "ACTIVE" /\ top.state = "ACTIVE"
    BY <1>2, ReconciledFine
  <1> HIDE DEF m, e, u
  <1>8. "choose" \in Labels \ {"unborn", "dead", "fill"} /\ ~Holds("look again", mem[h])
    BY LookingLabels
  <1>9. ~overlap => Knows("choose", m, e, top, tries)
    <2>1. ~WorksAt("choose", m)
      BY DEF WorksAt, Working, Claiming, Claimed, Entering
    <2>2. ~overlap => (e.state = "ACTIVE" => Resumable(top))
      BY <1>2, <1>7 DEF Knows, Resumable
    <2> QED
      BY <1>6, <1>7, <2>1, <2>2 DEF Knows
  <1>10. ~overlap => Fine("choose", m, index, top, tries)
    BY <1>6, <1>7, <1>9 DEF Fine, Latest
  <1> QED
    BY <1>1, <1>2, <1>5, <1>6, <1>8, <1>10, LoneMove

\* What it chooses by is the entry on disk; it is about the newest checkpoint.
LEMMA LoneChoose ==
    ASSUME LoneInv, NEW h \in Hosts, Choose(h)
    PROVE  HoldOK' /\ LoneOK'
  <1>1. At(h, "choose") /\ UNCHANGED <<index, top, claim, tries, config>>
    BY DEF Choose, disk
  <1>2. /\ Alive(h) /\ pc[h] = "choose" /\ RecoveryTypeOK /\ Blank.stale # h
        /\ ~overlap => Sound(index, top, tries) /\ Knows("choose", mem[h], index, top, tries)
    BY <1>1, Here
  <1>3. /\ ~Holds("choose", mem[h]) /\ {"idle", "claim"} \subseteq Labels \ {"unborn", "dead", "fill", "record", "unlock", "unreclaim"}
        /\ "idle" \in Free /\ Blank \in Memory /\ ~Blank.dirty
    BY LookingLabels, ClaimingLabels, FreeLabels, BlankType
  <1>4. PICK entry \in {mem[h].seen, index} :
          \/ mem' = [mem EXCEPT ![h] = Blank] /\ Goto(h, "idle")
          \/ mem' = [mem EXCEPT ![h] = Block(Blank)] /\ Goto(h, "idle")
          \/ /\ entry.state = "ACTIVE" /\ entry.seq = top.seq
             /\ mem' = [mem EXCEPT ![h] = [Blank EXCEPT !.base = top]] /\ Goto(h, "claim")
    BY DEF Choose
  <1>5. CASE mem' = [mem EXCEPT ![h] = Blank] /\ Goto(h, "idle")
    <2>1. ~overlap => Fine("idle", Blank, index, top, tries)
      BY <1>2, <1>3, FreeFine
    <2> QED
      BY <1>1, <1>2, <1>3, <1>5, <2>1, LoneMove DEF Goto
  <1>6. CASE mem' = [mem EXCEPT ![h] = Block(Blank)] /\ Goto(h, "idle")
    BY <1>1, <1>2, <1>3, <1>6, LoneBlocks
  <1>7. CASE entry.state = "ACTIVE" /\ entry.seq = top.seq /\ mem' = [mem EXCEPT ![h] = [Blank EXCEPT !.base = top]] /\ Goto(h, "claim")
    <2> DEFINE m == [Blank EXCEPT !.base = top]
    <2>1. m \in Memory
      BY <1>2, <1>3, FieldType DEF RecoveryTypeOK
    <2>2. ~m.dirty /\ m.stale # h /\ m.base = top
      BY <1>2, <1>3 DEF Memory
    <2>3. mem' = [mem EXCEPT ![h] = m]
      BY <1>7
    <2> HIDE DEF m
    <2>4. ~overlap => Knows("claim", m, index, top, tries)
      BY <1>2, <1>7, <2>2 DEF Knows, WorksAt
    <2>5. ~overlap => Fine("claim", m, index, top, tries)
      BY <1>2, <2>2, <2>4 DEF Fine, Latest, Follows
    <2> QED
      BY <1>1, <1>2, <1>3, <1>7, <2>1, <2>2, <2>3, <2>5, LoneMove DEF Goto
  <1> QED
    BY <1>4, <1>5, <1>6, <1>7

--------------------------------------------------------------------------------
(* ... from its claim to its release.                                            *)

\* A recovery is counted before it is validated, and refused once there were too many.
LEMMA LoneBegin ==
    ASSUME LoneInv, NEW h \in Hosts, Begin(h)
    PROVE  HoldOK' /\ LoneOK'
  <1>1. At(h, "begin") /\ UNCHANGED <<index, top, claim, tries, config>>
    BY DEF Begin, disk
  <1>2. /\ Alive(h) /\ pc[h] = "begin" /\ RecoveryTypeOK /\ Blank.stale # h /\ mem[h] \in Memory /\ mem[h].stale # h
        /\ ~overlap => Sound(index, top, tries) /\ Knows("begin", mem[h], index, top, tries)
    BY <1>1, Here
  <1>3. index \in Entries /\ tries \in 0..(MaxAttempts + 1)
    BY <1>2 DEF RecoveryTypeOK
  <1>4. /\ "begin" \in Working /\ PositionOf("begin", mem[h]) = "begin"
        /\ Holds("release", Blank) /\ "release" \in Holding \ Resuming
        /\ {"validate", "release"} \subseteq Labels \ {"unborn", "dead", "fill"}
        /\ "release" \in Free /\ "validate" \in Working
    <2>1. Holds("release", Blank) /\ "release" \in Holding \ Resuming /\ PositionOf("begin", mem[h]) = "begin"
      BY HoldingLabels, HoldsAt DEF Returning
    <2> QED
      BY <2>1, FreeLabels, LabelType DEF Entering, Leaving
  <1>5. CASE /\ index.state = "ACTIVE" /\ index.attempts < MaxAttempts
             /\ mem' = [mem EXCEPT ![h] = Update(mem[h], [index EXCEPT !.attempts = @ + 1])] /\ Goto(h, "validate")
    <2> DEFINE e == [index EXCEPT !.attempts = @ + 1]
               m == Update(mem[h], e)
    <2>1. /\ e \in Entries /\ e.seq = index.seq /\ e.state = "ACTIVE" /\ e.attempts = index.attempts + 1
      BY <1>3, <1>5, RecoveryAssumption DEF Entries
    <2>2. m \in Memory /\ m.dirty /\ m.saving = e /\ m.stale # h /\ m.base = mem[h].base /\ m.fresh = mem[h].fresh
      BY <1>2, <2>1, UpdateType, Updated
    <2>3. mem' = [mem EXCEPT ![h] = m]
      BY <1>5
    <2> HIDE DEF m, e
    <2>4. PositionOf("validate", m) = "validate" /\ (Holds("begin", mem[h]) => Holds("validate", m))
      BY <2>2, HoldsAt DEF Returning
    <2>5. ~overlap => Sound(e, top, tries) /\ tries < e.attempts
      <3> SUFFICES ASSUME ~overlap PROVE Sound(e, top, tries) /\ tries < e.attempts
        OBVIOUS
      <3>1. index.seq = top.seq /\ Sound(index, top, tries) /\ Resumable(top)
        BY <1>2, <1>4 DEF Knows, WorksAt
      <3> QED
        BY <1>3, <2>1, <3>1 DEF Sound, Resumable, Entries
    <2>6. ~overlap => Knows("validate", m, e, top, tries)
      BY <1>2, <1>4, <2>1, <2>2, <2>4, <2>5 DEF Knows, WorksAt
    <2>7. ~overlap => Follows(index, e)
      BY <1>5, <2>1 DEF Follows, Terminal
    <2>8. ~overlap => Fine("validate", m, index, top, tries)
      BY <2>2, <2>5, <2>6, <2>7 DEF Fine, Latest
    <2> QED
      BY <1>1, <1>2, <1>4, <1>5, <2>2, <2>3, <2>4, <2>8, LoneMove DEF Goto
  <1>6. CASE /\ index.state = "ACTIVE"
             /\ mem' = [mem EXCEPT ![h] = Update(Blank, [index EXCEPT !.state = "BLOCKED"])] /\ Goto(h, "release")
    <2>1. Block(Blank) = Update(Blank, [index EXCEPT !.state = "BLOCKED"])
      BY <1>6 DEF Block, Terminal
    <2>2. mem' = [mem EXCEPT ![h] = Block(Blank)]
      BY <1>6, <2>1
    <2>3. "release" \in Labels
      BY <1>4
    <2> QED
      BY <1>1, <1>2, <1>4, <1>6, <2>2, <2>3, BlankType, LoneBlocks
  <1>7. CASE mem' = [mem EXCEPT ![h] = Blank] /\ Goto(h, "release")
    <2>1. ~overlap => Fine("release", Blank, index, top, tries)
      BY <1>2, <1>4, BlankType, FreeFine
    <2> QED
      BY <1>1, <1>2, <1>4, <1>7, <2>1, BlankType, LoneMove DEF Goto
  <1> QED
    BY <1>5, <1>6, <1>7 DEF Begin

\* What was counted covers the recovery that is validated now.
LEMMA LoneValidate ==
    ASSUME LoneInv, NEW h \in Hosts, Validate(h)
    PROVE  HoldOK' /\ LoneOK'
  <1>1. /\ At(h, "validate") /\ UNCHANGED <<index, top, claim, overlap>>
        /\ tries' = IF tries > MaxAttempts THEN tries ELSE tries + 1
    BY DEF Validate, disk, config
  <1>2. /\ Alive(h) /\ pc[h] = "validate" /\ RecoveryTypeOK /\ Blank.stale # h /\ mem[h] \in Memory /\ mem[h].stale # h /\ ~mem[h].dirty
        /\ ~overlap => Sound(index, top, tries) /\ Knows("validate", mem[h], index, top, tries)
    BY <1>1, Here
  <1>3. index \in Entries /\ tries \in 0..(MaxAttempts + 1) /\ top \in Checkpoints
    BY <1>2 DEF RecoveryTypeOK
  <1>4. /\ "validate" \in Working /\ "enter" \in Working /\ PositionOf("validate", mem[h]) = "validate"
        /\ Holds("validate", mem[h]) => Holds("enter", mem[h])
        /\ \A m : Holds("release", m)
        /\ {"enter", "release"} \subseteq Labels \ {"unborn", "dead", "fill"}
        /\ "release" \in Free /\ \A m : PositionOf("release", m) = "release" /\ PositionOf("enter", m) = "enter"
    <2>1. ASSUME NEW m
          PROVE  Holds("release", m) /\ PositionOf("release", m) = "release" /\ PositionOf("enter", m) = "enter"
      BY HoldingLabels DEF Holds, PositionOf, Returning, Resuming, Entering
    <2>2. PositionOf("validate", mem[h]) = "validate" /\ (Holds("validate", mem[h]) => Holds("enter", mem[h]))
      BY HoldsAt DEF Returning
    <2> QED
      BY <2>1, <2>2, FreeLabels, LabelType DEF Entering, Leaving
  <1>5. ~overlap => Sound(index, top, tries')
    <2> SUFFICES ASSUME ~overlap PROVE Sound(index, top, tries')
      OBVIOUS
    <2>1. index.seq = top.seq /\ Sound(index, top, tries) /\ Resumable(top) /\ tries < index.attempts
      BY <1>2, <1>4 DEF Knows, WorksAt
    <2> QED
      BY <1>1, <1>3, <2>1, RecoveryAssumption DEF Sound, Resumable, Entries, Checkpoints
  <1>6. claim.by = h => claim.whole /\ Holds("validate", mem[h])
    BY <1>2 DEF LoneInv, HoldOK
  <1>7. CASE Goto(h, "enter") /\ UNCHANGED mem
    <2>1. pc' = [pc EXCEPT ![h] = "enter"] /\ mem' = [mem EXCEPT ![h] = mem[h]]
      BY <1>7 DEF Goto, LoneInv, IInv, RecoveryTypeOK
    <2>2. ~overlap => Fine("enter", mem[h], index, top, tries')
      BY <1>2, <1>4, <1>5 DEF Fine, Latest, Follows, Knows, WorksAt
    <2> QED
      BY <1>1, <1>2, <1>4, <1>5, <1>6, <2>1, <2>2, LoneStep
  <1>8. CASE mem' = [mem EXCEPT ![h] = Block(Blank)] /\ Goto(h, "release")
    <2>1. Block(Blank) \in Memory /\ Block(Blank).stale # h
      <3>1. Block(Blank) \in Memory
        BY <1>3, BlankType, BlockType
      <3>2. Block(Blank).stale = Blank.stale
        BY BlankType DEF Block, Update, Memory
      <3> QED
        BY <1>2, <3>1, <3>2
    <2>2. ~overlap => Fine("release", Block(Blank), index, top, tries')
      <3> SUFFICES ASSUME ~overlap PROVE Fine("release", Block(Blank), index, top, tries')
        OBVIOUS
      <3> DEFINE e == Latest(Block(Blank), index)
      <3>1. e = IF index.state \in Terminal THEN index ELSE [index EXCEPT !.state = "BLOCKED"]
        BY BlankType DEF Latest, Block, Update, Memory
      <3>2. /\ e.seq = index.seq /\ e.attempts = index.attempts /\ e.state # "ACTIVE"
            /\ index.state \in Terminal => e.state = index.state
        BY <1>3, <3>1 DEF Entries, Terminal
      <3> HIDE DEF e
      <3>3. Sound(e, top, tries') /\ Follows(index, e)
        BY <1>5, <3>2 DEF Sound, Follows
      <3> QED
        BY <1>4, <3>3, FreeKnows DEF Fine, e
    <2> QED
      BY <1>1, <1>2, <1>4, <1>5, <1>6, <1>8, <2>1, <2>2, LoneStep DEF Goto
  <1> QED
    BY <1>7, <1>8 DEF Validate

LEMMA LoneUnreclaim ==
    ASSUME LoneInv, NEW h \in Hosts, Unreclaim(h)
    PROVE  HoldOK' /\ LoneOK'
  <1>1. At(h, "unreclaim") /\ UNCHANGED <<index, top, claim, tries, config>>
    BY DEF Unreclaim
  <1>2. /\ Alive(h) /\ pc[h] = "unreclaim" /\ RecoveryTypeOK /\ mem[h] \in Memory /\ mem[h].stale # h /\ ~mem[h].dirty /\ Placed("unreclaim", mem[h])
        /\ ~overlap => Sound(index, top, tries) /\ Knows("unreclaim", mem[h], index, top, tries)
    BY <1>1, Here
  <1> DEFINE l == mem[h].next
             n == IF l = "unlock" THEN "release" ELSE "idle"
             m == [mem[h] EXCEPT !.next = n]
  <1>3. l \in {"begin", "execute", "unlock", "idle"} /\ n \in Labels
    BY <1>2, LabelType DEF Placed, Leaving
  <1>4. pc' = [pc EXCEPT ![h] = l] /\ mem' = [mem EXCEPT ![h] = m]
    BY DEF Unreclaim, Goto
  <1>5. m \in Memory
    BY <1>2, <1>3, FieldType
  <1>6. ~m.dirty /\ m.stale = mem[h].stale /\ m.base = mem[h].base /\ m.next = n /\ m.fresh = mem[h].fresh
    BY <1>2, <1>3 DEF Memory
  <1>7. l \in Labels
    BY <1>3, LabelType DEF Entering, Executing
  <1>8. PositionOf("unreclaim", mem[h]) = l
    BY DEF PositionOf, Returning
  <1>9. PositionOf(l, m) = IF l = "unlock" THEN "release" ELSE l
    BY <1>3, <1>6 DEF PositionOf, Returning
  <1> HIDE DEF l, m
  <1>10. Holds("unreclaim", mem[h]) => Holds(l, m)
    BY <1>3, <1>6, <1>8, <1>9, HoldingLabels DEF Holds, Resuming, Entering
  <1>11. ~overlap => Fine(l, m, index, top, tries)
    <2>1. CASE l \in {"unlock", "idle"}
      BY <1>2, <1>6, <2>1, FreeFine, FreeLabels
    <2>2. CASE l \in {"begin", "execute"}
      <3>1. PositionOf(l, m) = l
        BY <1>9, <2>2
      <3>2. WorksAt("unreclaim", mem[h]) /\ PositionOf("unreclaim", mem[h]) = l
        BY <1>8, <2>2 DEF WorksAt, l
      <3> QED
        BY <1>2, <1>6, <2>2, <3>1, <3>2 DEF Fine, Latest, Follows, Knows
    <2> QED
      BY <1>3, <2>1, <2>2
  <1> QED
    BY <1>1, <1>2, <1>3, <1>4, <1>5, <1>6, <1>7, <1>8, <1>10, <1>11, LoneMove

\* h goes where it relies on nothing.
LEMMA LoneFree ==
    ASSUME LoneInv, NEW h \in Hosts, NEW l0, At(h, l0), l0 \notin {"unborn", "dead", "fill"},
           NEW l \in Free, NEW m \in Memory, ~m.dirty \/ m.saving = index, m.stale # h,
           Goto(h, l), mem' = [mem EXCEPT ![h] = m], UNCHANGED <<index, top, claim, tries, config>>,
           Holds(l0, mem[h]) => Holds(l, m)
    PROVE  HoldOK' /\ LoneOK'
  <1>1. Alive(h) /\ pc[h] = l0 /\ (~overlap => Sound(index, top, tries))
    BY Here
  <1>2. l \in Labels \ {"unborn", "dead", "fill"}
    BY DEF Free, Working, Claimed
  <1>3. ~overlap => Fine(l, m, index, top, tries)
    BY <1>1, FreeFine
  <1> QED
    BY <1>1, <1>2, <1>3, LoneMove DEF Goto

\* Where the end of a run leads, it may still hold its claim.
LEMMA LoneToRelease ==
    ASSUME NEW m \in Memory, NEW l \in {"release", "fail", "close", "keep"}, NEW b \in BOOLEAN
    PROVE  /\ "unlock" \in Free /\ l \in Free /\ l \in Labels
           /\ Holds(l, m) /\ Holds("unlock", [m EXCEPT !.next = l]) /\ Holds("unlock", [m EXCEPT !.next = l, !.refused = b])
           /\ Holds(l, [m EXCEPT !.next = l, !.refused = b])
  <1>1. l \in Holding \ Resuming /\ l \notin Returning
    BY HoldingLabels DEF Resuming, Entering, Returning
  <1>2. ASSUME NEW n
        PROVE  Holds(l, n) /\ (n.next = l => Holds("unlock", n))
    BY <1>1 DEF Holds, PositionOf, Returning
  <1>3. [m EXCEPT !.next = l].next = l /\ [m EXCEPT !.next = l, !.refused = b].next = l
    BY DEF Memory
  <1>4. "unlock" \in Free /\ l \in Free
    BY FreeLabels
  <1> QED
    BY <1>2, <1>3, <1>4 DEF Free

LEMMA LoneRefused ==
    ASSUME LoneInv, NEW h \in Hosts, NEW l \in {"release", "unlock"}, RunRefused(h, l),
           NEW l0, At(h, l0), l0 \notin {"unborn", "dead", "fill"}, UNCHANGED <<index, top, claim, tries, config>>
    PROVE  HoldOK' /\ LoneOK'
  <1>1. mem[h] \in Memory /\ ~mem[h].dirty /\ mem[h].stale # h
    BY Here
  <1> DEFINE b == ~mem[h].fresh
             m == [mem[h] EXCEPT !.next = "release", !.refused = b]
  <1>2. b \in BOOLEAN /\ mem' = [mem EXCEPT ![h] = m] /\ Goto(h, l)
    BY <1>1, FieldType DEF RunRefused
  <1> HIDE DEF b
  <1>3. m \in Memory /\ l \in Free /\ Holds(l, m)
    BY <1>1, <1>2, LoneToRelease, FieldType
  <1>4. ~m.dirty /\ m.stale # h
    BY <1>1, <1>2 DEF Memory
  <1> QED
    BY <1>2, <1>3, <1>4, LoneFree

\* A new episode's run() owns nothing before it is accepted, and holds no claim.
LEMMA LoneRun ==
    ASSUME LoneInv, NEW h \in Hosts, Run(h)
    PROVE  HoldOK' /\ LoneOK'
  <1> DEFINE m == [Blank EXCEPT !.fresh = TRUE]
  <1>1. At(h, "idle") /\ UNCHANGED <<index, top, claim, tries, config>> /\ Goto(h, "plan") /\ mem' = [mem EXCEPT ![h] = m]
    BY DEF Run
  <1>2. Blank.stale # h
    BY <1>1, Here
  <1>3. m \in Memory
    BY BlankType, FieldType
  <1>4. ~m.dirty /\ m.stale # h
    BY <1>2, BlankType DEF Memory
  <1>5. "plan" \in Free /\ ~Holds("idle", mem[h])
    BY FreeLabels, LookingLabels
  <1> QED
    BY <1>1, <1>3, <1>4, <1>5, LoneFree

LEMMA LoneEnter ==
    ASSUME LoneInv, NEW h \in Hosts, Enter(h) \/ PlanRefused(h) \/ Refused(h)
    PROVE  HoldOK' /\ LoneOK'
  <1>1. CASE Enter(h)
    <2>1. At(h, "enter") /\ UNCHANGED <<index, top, claim, tries, config>>
      BY <1>1 DEF Enter
    <2>2. CASE Goto(h, "plan") /\ UNCHANGED mem
      <3>1. /\ "enter" \in Labels /\ "plan" \in Labels /\ "plan" \in Holding /\ "plan" \in Resuming /\ "enter" \in Resuming
            /\ "plan" \notin Working
        BY HoldingLabels, LabelType, FreeLabels DEF Entering, Resuming, Free
      <3> QED
        BY <2>1, <2>2, <3>1, LoneGoto
    <2>3. CASE RunRefused(h, "release")
      BY <2>1, <2>3, LoneRefused
    <2> QED
      BY <1>1, <2>2, <2>3 DEF Enter
  <1>2. CASE PlanRefused(h)
    BY <1>2, LoneRefused DEF PlanRefused, disk
  <1>3. CASE Refused(h)
    BY <1>3, LoneRefused DEF Refused, disk
  <1> QED
    BY <1>1, <1>2, <1>3

\* The checkpoint it reads back is the one it wrote.
LEMMA LoneAccept ==
    ASSUME LoneInv, NEW h \in Hosts, Accept(h)
    PROVE  HoldOK' /\ LoneOK'
  <1> DEFINE ck == IF mem[h].fresh THEN top ELSE NoCheckpoint
             l == IF mem[h].fresh THEN "claim" ELSE "execute"
             m == [mem[h] EXCEPT !.base = ck]
  <1>1. At(h, "accept") /\ UNCHANGED <<index, top, claim, tries, config>> /\ Goto(h, l) /\ mem' = [mem EXCEPT ![h] = m]
    BY DEF Accept, disk
  <1>2. /\ Alive(h) /\ pc[h] = "accept" /\ mem[h] \in Memory /\ ~mem[h].dirty /\ mem[h].stale # h /\ RecoveryTypeOK
        /\ ~overlap => Sound(index, top, tries) /\ Knows("accept", mem[h], index, top, tries)
    BY <1>1, Here
  <1>3. ck \in Checkpoints /\ (mem[h].fresh => ck = top) /\ (mem[h].fresh <=> l = "claim") /\ l \in {"claim", "execute"}
    BY <1>2, BlankType DEF RecoveryTypeOK
  <1> HIDE DEF ck, l
  <1>4. m \in Memory
    BY <1>2, <1>3, FieldType
  <1>5. ~m.dirty /\ m.stale # h /\ m.base = ck /\ m.fresh = mem[h].fresh
    BY <1>2, <1>3 DEF Memory
  <1> HIDE DEF m
  <1>6. Holds("accept", mem[h]) => Holds(l, m)
    BY <1>3, HoldsAt, HoldingLabels DEF Returning
  <1>7. l \in Labels \ {"unborn", "dead", "fill"}
    BY <1>3, LabelType DEF Claiming, Executing
  <1>8. ~overlap => Fine(l, m, index, top, tries)
    <2>1. "accept" \in Working /\ PositionOf(l, m) = l
      BY <1>3, FreeLabels, HoldsAt DEF Returning
    <2>2. ~overlap => Resumable(top) /\ index.state = "ACTIVE" /\ index.seq = top.seq
      BY <1>2, <2>1 DEF Knows, WorksAt
    <2>3. ~overlap => Knows(l, m, index, top, tries)
      BY <1>3, <1>5, <2>1, <2>2 DEF Knows
    <2> QED
      BY <1>2, <1>5, <2>3 DEF Fine, Latest, Follows
  <1> QED
    BY <1>1, <1>2, <1>4, <1>5, <1>6, <1>7, <1>8, LoneMove DEF Goto

LEMMA LoneStepsFail ==
    ASSUME LoneInv, NEW h \in Hosts, StepsFail(h) \/ Conclude(h)
    PROVE  HoldOK' /\ LoneOK'
  <1>1. At(h, "execute") /\ UNCHANGED <<index, top, claim, tries, config>>
    BY DEF StepsFail, Conclude, disk
  <1>2. mem[h] \in Memory /\ ~mem[h].dirty /\ mem[h].stale # h
    BY <1>1, Here
  <1>3. CASE StepsFail(h)
    <2> DEFINE m == [mem[h] EXCEPT !.next = "fail"]
    <2>1. "fail" \in Labels /\ "unlock" \in Free /\ Holds("unlock", m)
      BY <1>2, LoneToRelease
    <2>2. m \in Memory
      BY <1>2, <2>1, FieldType
    <2>3. ~m.dirty /\ m.stale # h
      BY <1>2 DEF Memory
    <2>4. Goto(h, "unlock") /\ mem' = [mem EXCEPT ![h] = m]
      BY <1>3 DEF StepsFail
    <2> QED
      BY <1>1, <2>1, <2>2, <2>3, <2>4, LoneFree
  <1>4. CASE Conclude(h)
    <2>1. PICK state \in Terminal : mem' = [mem EXCEPT ![h].goal = state]
      BY <1>4 DEF Conclude
    <2> DEFINE m == [mem[h] EXCEPT !.goal = state]
    <2>2. m \in Memory
      BY <1>2, FieldType
    <2>3. ~m.dirty /\ m.stale # h
      BY <1>2 DEF Memory
    <2>4. Goto(h, "clean") /\ mem' = [mem EXCEPT ![h] = m]
      BY <1>4, <2>1 DEF Conclude
    <2>5. "clean" \in Free /\ Holds("clean", m)
      BY FreeLabels, HoldingLabels DEF Holds, PositionOf, Returning, Resuming, Entering
    <2> QED
      BY <1>1, <2>2, <2>3, <2>4, <2>5, LoneFree
  <1> QED
    BY <1>3, <1>4

LEMMA LoneEnds ==
    ASSUME LoneInv, NEW h \in Hosts, Cleaned(h) \/ CleanupBlocks(h)
    PROVE  HoldOK' /\ LoneOK'
  <1>1. PICK l0 \in {"clean", "stuck"}, l \in {"close", "keep"} : At(h, l0) /\ Ends(h, l)
    BY DEF Cleaned, CleanupBlocks
  <1>2. mem[h] \in Memory /\ ~mem[h].dirty /\ mem[h].stale # h
    BY <1>1, Here
  <1>3. UNCHANGED <<index, top, claim, tries, config>>
    BY <1>1 DEF Ends, disk
  <1>4. l \in Labels /\ l \in Free /\ "unlock" \in Free /\ Holds(l, mem[h]) /\ Holds("unlock", [mem[h] EXCEPT !.next = l])
    BY <1>2, LoneToRelease
  <1>5. CASE Goto(h, l) /\ UNCHANGED mem
    <2>1. mem' = [mem EXCEPT ![h] = mem[h]]
      BY <1>5 DEF LoneInv, IInv, RecoveryTypeOK
    <2> QED
      BY <1>1, <1>2, <1>3, <1>4, <1>5, <2>1, LoneFree
  <1>6. CASE mem' = [mem EXCEPT ![h].next = l] /\ Goto(h, "unlock")
    <2> DEFINE m == [mem[h] EXCEPT !.next = l]
    <2>1. m \in Memory
      BY <1>2, <1>4, FieldType
    <2>2. ~m.dirty /\ m.stale # h
      BY <1>2, <1>4 DEF Memory
    <2> QED
      BY <1>1, <1>3, <1>4, <1>6, <2>1, <2>2, LoneFree
  <1> QED
    BY <1>1, <1>5, <1>6 DEF Ends

LEMMA LoneUnlock ==
    ASSUME LoneInv, NEW h \in Hosts, Unlock(h)
    PROVE  HoldOK' /\ LoneOK'
  <1> DEFINE l == mem[h].next
             m == [mem[h] EXCEPT !.next = "idle"]
  <1>1. At(h, "unlock") /\ UNCHANGED <<index, top, claim, tries, config>> /\ Goto(h, l) /\ mem' = [mem EXCEPT ![h] = m]
    BY DEF Unlock
  <1>2. mem[h] \in Memory /\ ~mem[h].dirty /\ mem[h].stale # h /\ Placed("unlock", mem[h])
    BY <1>1, Here
  <1>3. m \in Memory
    BY <1>2, LabelType, FieldType
  <1>4. ~m.dirty /\ m.stale # h
    BY <1>2 DEF Memory
  <1>5. l \in {"release", "fail", "close", "keep"}
    BY <1>2 DEF Placed
  <1> HIDE DEF l
  <1>6. l \in Free /\ Holds(l, m)
    BY <1>3, <1>5, LoneToRelease
  <1> QED
    BY <1>1, <1>3, <1>4, <1>6, LoneFree

LEMMA LoneReleased ==
    ASSUME LoneInv, NEW h \in Hosts, Released(h)
    PROVE  HoldOK' /\ LoneOK'
  <1>1. /\ At(h, "released") /\ UNCHANGED <<index, top, claim, tries, config>>
        /\ \E l \in {"block", "idle"} : Goto(h, l)
        /\ \E m \in {Blank, Update(Blank, index)} : mem' = [mem EXCEPT ![h] = m]
    BY DEF Released, disk
  <1>2. Blank.stale # h /\ index \in Entries
    BY <1>1, Here DEF RecoveryTypeOK
  <1>3. \A m \in {Blank, Update(Blank, index)} : m \in Memory /\ (~m.dirty \/ m.saving = index) /\ m.stale # h
    BY <1>2, BlankType, UpdateType, Updated
  <1>4. {"block", "idle"} \subseteq Free /\ ~Holds("released", mem[h])
    BY FreeLabels, HoldingLabels DEF Holds, PositionOf, Returning
  <1> QED
    BY <1>1, <1>3, <1>4, LoneFree

\* The entry that is recorded is about the checkpoint this shell wrote, the newest.
LEMMA RecordedFine ==
    ASSUME RecoveryTypeOK, Sound(index, top, tries), Recordable(index, top)
    PROVE  LET e == Recorded(index, top) IN
           Sound(e, top, tries) /\ Follows(index, e) /\ e.seq = top.seq /\ e.state = top.state
  <1>1. /\ index \in Entries /\ top \in Checkpoints /\ tries \in 0..(MaxAttempts + 1)
    BY DEF RecoveryTypeOK
  <1> DEFINE e == Recorded(index, top)
  <1>2. e.seq = top.seq /\ e.state = top.state /\ e.attempts = IF top.seq > index.seq THEN 0 ELSE index.attempts
    BY DEF Recorded
  <1> HIDE DEF e
  <1>3. Sound(e, top, tries)
    BY <1>1, <1>2, RecoveryAssumption DEF Sound, Entries, Checkpoints
  <1>4. Follows(index, e)
    BY <1>2 DEF Follows, Recordable
  <1> QED
    BY <1>2, <1>3, <1>4 DEF e

LEMMA LoneRecord ==
    ASSUME LoneInv, NEW h \in Hosts, Record(h)
    PROVE  HoldOK' /\ LoneOK'
  <1> DEFINE l == mem[h].next
             ck == mem[h].base
             m == [mem[h] EXCEPT !.base = NoCheckpoint, !.next = "idle"]
  <1>1. At(h, "record") /\ UNCHANGED <<index, top, claim, tries, config>>
    BY DEF Record, disk
  <1>2. /\ Alive(h) /\ pc[h] = "record" /\ mem[h] \in Memory /\ ~mem[h].dirty /\ mem[h].stale # h /\ RecoveryTypeOK /\ Placed("record", mem[h])
        /\ ~overlap => Sound(index, top, tries) /\ Knows("record", mem[h], index, top, tries)
    BY <1>1, Here
  <1>3. ck \in Checkpoints /\ index \in Entries /\ l \in AfterRecord
    BY <1>2, FieldType DEF RecoveryTypeOK, Placed
  <1>4. m \in Memory
    BY <1>2, LabelType, BlankType, FieldType
  <1>5. ~m.dirty /\ m.stale # h /\ m.fresh = mem[h].fresh
    BY <1>2 DEF Memory
  <1>6. Holds("record", mem[h]) <=> l \in Holding /\ (l \in Resuming => ~mem[h].fresh)
    BY DEF Holds, PositionOf, Returning
  <1>7. ~overlap => /\ ck = top
                    /\ l \in {"accept", "execute"} => Resumable(top)
                    /\ l = "look again" => top.state # "ACTIVE"
    BY <1>2 DEF Knows
  <1>8. \/ /\ Recordable(index, ck)
           /\ Goto(h, l) /\ mem' = [mem EXCEPT ![h] = Update(m, Recorded(index, ck))]
        \/ /\ Goto(h, Unrecorded(l))
           /\ mem' = [mem EXCEPT ![h] = IF l \in {"refresh", "look again"} THEN Block(m)
                                        ELSE IF l = "accept" THEN [m EXCEPT !.next = "release", !.refused = ~m.fresh]
                                        ELSE m]
    BY DEF Record
  <1> HIDE DEF l, ck, m
  <1>9. CASE /\ Recordable(index, ck)
             /\ Goto(h, l) /\ mem' = [mem EXCEPT ![h] = Update(m, Recorded(index, ck))]
    <2> DEFINE e == Recorded(index, ck)
               u == Update(m, e)
    <2>1. e \in Entries
      BY <1>3, EntryType
    <2>2. u \in Memory /\ u.dirty /\ u.saving = e /\ u.stale # h /\ u.fresh = mem[h].fresh
      BY <1>4, <1>5, <2>1, UpdateType, Updated
    <2>3. mem' = [mem EXCEPT ![h] = u]
      BY <1>9
    <2>4. ~overlap => Sound(e, top, tries) /\ Follows(index, e) /\ e.seq = top.seq /\ e.state = top.state
      BY <1>2, <1>7, <1>9, RecordedFine
    <2> HIDE DEF u, e
    <2>5. l \notin Returning /\ l \in Labels \ {"unborn", "dead", "fill"}
      BY <1>3, FreeLabels DEF AfterRecord, Returning, Free, Working
    <2>6. Holds("record", mem[h]) => Holds(l, u)
      BY <1>6, <2>2, <2>5, HoldsAt DEF Holds
    <2>7. ~overlap => Knows(l, u, e, top, tries)
      <3>1. CASE l \in {"accept", "execute"}
        <4>1. PositionOf(l, u) = l
          BY <2>5, HoldsAt
        <4> QED
          BY <1>7, <2>4, <3>1, <4>1 DEF Knows, Resumable
      <3>2. CASE l = "look again"
        BY <1>7, <2>4, <3>2 DEF Knows, WorksAt, Working, Claiming, Claimed, Entering
      <3>3. CASE l \notin {"accept", "execute", "look again"}
        BY <1>3, <3>3, FreeLabels, FreeKnows DEF AfterRecord
      <3> QED
        BY <3>1, <3>2, <3>3
    <2>8. ~overlap => Fine(l, u, index, top, tries)
      BY <2>2, <2>4, <2>7 DEF Fine, Latest
    <2> QED
      BY <1>1, <1>2, <1>9, <2>2, <2>3, <2>5, <2>6, <2>8, LoneMove DEF Goto
  <1>10. CASE /\ Goto(h, Unrecorded(l)) /\ l \in {"refresh", "look again"} /\ mem' = [mem EXCEPT ![h] = Block(m)]
    <2>1. Goto(h, "look again") /\ ~Holds("record", mem[h]) /\ "look again" \in Labels
      BY <1>6, <1>10, HoldingLabels, LookingLabels DEF Unrecorded
    <2> QED
      BY <1>1, <1>4, <1>5, <1>10, <2>1, LoneBlocks
  <1>11. CASE /\ Goto(h, Unrecorded(l)) /\ l = "accept" /\ mem' = [mem EXCEPT ![h] = [m EXCEPT !.next = "release", !.refused = ~m.fresh]]
    <2> DEFINE b == ~m.fresh
               u == [m EXCEPT !.next = "release", !.refused = b]
    <2>1. b \in BOOLEAN /\ mem' = [mem EXCEPT ![h] = u] /\ Goto(h, "unlock")
      BY <1>4, <1>11, FieldType DEF Unrecorded
    <2> HIDE DEF b
    <2>2. "release" \in Labels /\ "unlock" \in Free /\ Holds("unlock", u)
      BY <1>4, <2>1, LoneToRelease
    <2>3. u \in Memory
      BY <1>4, <2>1, <2>2, FieldType
    <2>4. ~u.dirty /\ u.stale # h
      BY <1>4, <1>5, <2>1 DEF Memory
    <2> QED
      BY <1>1, <2>1, <2>2, <2>3, <2>4, LoneFree
  <1>12. CASE /\ Goto(h, Unrecorded(l)) /\ l \notin {"refresh", "look again", "accept"} /\ mem' = [mem EXCEPT ![h] = m]
    <2> DEFINE k == Unrecorded(l)
    <2>1. k \in {"fail", "stuck", "refuse", "release"}
      BY <1>3, <1>12 DEF Unrecorded, AfterRecord
    <2> HIDE DEF k
    <2>2. k \in Free /\ Holds(k, m)
      BY <2>1, FreeLabels, HoldingLabels DEF Holds, PositionOf, Returning, Resuming, Entering
    <2>3. Goto(h, k)
      BY <1>12 DEF k
    <2> QED
      BY <1>1, <1>4, <1>5, <1>12, <2>2, <2>3, LoneFree
  <1> QED
    BY <1>8, <1>9, <1>10, <1>11, <1>12

\* The checkpoints a shell writes.
LEMMA LoneWrites ==
    ASSUME LoneInv, NEW h \in Hosts,
           \/ RetryEntry(h) \/ RetryEnds(h) \/ Plan(h) \/ VerifyRefused(h) \/ Step(h) \/ Preserve(h)
           \/ CleanEntry(h) \/ Close(h) \/ Keep(h) \/ Fail(h)
    PROVE  HoldOK' /\ LoneOK'
  <1>1. /\ "ACTIVE" \in States /\ "BLOCKED" \in States /\ Terminal \subseteq States /\ "ACTIVE" \notin Terminal
        /\ mem[h].base \in Checkpoints
    BY FieldType DEF States, Terminal, LoneInv, IInv, RecoveryTypeOK
  <1>2. mem[h].base.state \in States /\ mem[h].base.intent \in {"none"} \cup Terminal /\ mem[h].goal \in {"none"} \cup Terminal
    BY <1>1 DEF Checkpoints, LoneInv, IInv, RecoveryTypeOK, Memory
  <1>3. ~Holds("cleaning up", mem[h])
    BY LookingLabels
  <1>4. CASE RetryEntry(h)
    BY <1>2, <1>3, <1>4, LoneWrite DEF RetryEntry, AfterRecord
  <1>5. CASE RetryEnds(h)
    <2>1. At(h, "cleaning up")
      BY <1>5 DEF RetryEnds
    <2>2. mem[h].goal \in Terminal
      <3>1. Placed("cleaning up", mem[h])
        BY <2>1, Here
      <3> QED
        BY <3>1 DEF Placed, PositionOf, Returning, Ending
    <2>3. mem[h].goal \in States /\ mem[h].goal # "ACTIVE" /\ "look again" \in AfterRecord
      BY <1>1, <2>2 DEF AfterRecord
    <2>4. CASE Write(h, mem[h].goal, "none", "look again")
      BY <1>3, <2>1, <2>3, <2>4, LoneWrite
    <2>5. CASE Write(h, "BLOCKED", mem[h].base.intent, "look again")
      BY <1>1, <1>2, <1>3, <2>1, <2>3, <2>5, LoneWrite
    <2> QED
      BY <1>5, <2>4, <2>5 DEF RetryEnds
  <1>6. CASE Plan(h)
    BY <1>1, <1>6, LoneWrite DEF Plan, AfterRecord
  <1>7. CASE VerifyRefused(h)
    BY <1>1, <1>7, LoneWrite DEF VerifyRefused, AfterRecord
  <1>8. CASE Step(h)
    BY <1>1, <1>8, LoneWrite DEF Step, AfterRecord
  <1>9. CASE Preserve(h)
    BY <1>1, <1>9, LoneWrite DEF Preserve, AfterRecord
  <1>10. CASE CleanEntry(h)
    BY <1>1, <1>2, <1>10, LoneWrite DEF CleanEntry, AfterRecord
  <1>11. CASE Close(h)
    <2>1. At(h, "close") /\ Write(h, mem[h].goal, "none", "release")
      BY <1>11 DEF Close
    <2>2. Placed("close", mem[h])
      BY <2>1, Here
    <2>3. mem[h].goal \in States
      BY <1>1, <2>2 DEF Placed, PositionOf, Returning, Ending
    <2> QED
      BY <2>1, <2>3, LoneWrite DEF AfterRecord
  <1>12. CASE Keep(h)
    BY <1>1, <1>2, <1>12, LoneWrite DEF Keep, AfterRecord
  <1>13. CASE Fail(h)
    BY <1>1, <1>13, LoneWrite DEF Fail, AfterRecord
  <1> QED
    BY <1>4, <1>5, <1>6, <1>7, <1>8, <1>9, <1>10, <1>11, <1>12, <1>13

LEMMA LoneShellStep ==
    ASSUME LoneInv, NEW h \in Hosts, Shell(h)
    PROVE  HoldOK' /\ LoneOK'
  <1>1. CASE Launch(h) \/ Die(h) \/ Save(h) \/ Record(h)
    BY <1>1, LoneLaunch, LoneDie, LoneSave, LoneRecord
  <1>2. CASE Look(h) \/ RetryCleanup(h) \/ Refresh(h) \/ RetryEntry(h) \/ RetryEnds(h) \/ RetryFails(h) \/ LookAgain(h) \/ Choose(h)
    BY <1>2, LoneLook, LoneRetryCleanup, LoneWrites, LoneFailures, LoneLookAgain, LoneChoose
  <1>3. CASE Claim(h) \/ Create(h) \/ Fill(h) \/ Check(h) \/ Existing(h) \/ ProbeOwner(h) \/ Reclaim(h) \/ Reread(h) \/ Archive(h) \/ Unreclaim(h)
    BY <1>3, LoneClaims, LoneCreate, LoneFill, LoneCheck, LoneExisting, LoneEpisodeMoves, LoneUnreclaim
  <1>4. CASE Begin(h) \/ Validate(h) \/ Run(h) \/ Enter(h) \/ Plan(h) \/ PlanRefused(h) \/ VerifyRefused(h) \/ Refused(h) \/ Accept(h)
    BY <1>4, LoneBegin, LoneValidate, LoneRun, LoneEnter, LoneWrites, LoneAccept
  <1>5. CASE Step(h) \/ Preserve(h) \/ StepBlocks(h) \/ StepsFail(h) \/ Conclude(h) \/ CleanEntry(h) \/ Cleaned(h) \/ CleanupBlocks(h) \/ Close(h) \/ Keep(h) \/ Fail(h) \/ Unlock(h)
    BY <1>5, LoneWrites, LoneEpisodeMoves, LoneStepsFail, LoneEnds, LoneUnlock
  <1>6. CASE Release(h) \/ Released(h) \/ BlockRefused(h)
    BY <1>6, LoneEpisodeMoves, LoneReleased, LoneFailures
  <1> QED
    BY <1>1, <1>2, <1>3, <1>4, <1>5, <1>6 DEF Shell

--------------------------------------------------------------------------------
(* ... and what it finds.                                                        *)

LEMMA LoneStart ==
    ASSUME RecoveryInit
    PROVE  HoldOK /\ LoneOK
  <1>1. \A h \in Hosts : /\ ~Alive(h) /\ ~mem[h].dirty /\ mem[h].stale # h
    BY DEF RecoveryInit, Alive, Blank, Nobody, Hosts
  <1>2. Sound(index, top, tries)
    BY DEF RecoveryInit, Sound, NoEntry, NoCheckpoint
  <1> QED
    BY <1>1, <1>2 DEF HoldOK, LoneOK

\* What a shell that is alone relies on, and what the entry and the checkpoints say of each
\* other however its predecessors ended.
THEOREM LoneInvariance == RecoverySpec => []LoneInv
  <1>1. RecoveryInit => HoldOK /\ LoneOK
    BY LoneStart
  <1>2. ASSUME IInv, HoldOK /\ LoneOK, [RecoveryNext]_recoveryVars
        PROVE  (HoldOK /\ LoneOK)'
    <2>1. CASE RecoveryNext
      BY <1>2, <2>1, LoneShellStep DEF RecoveryNext, LoneInv
    <2>2. CASE UNCHANGED recoveryVars
      BY <1>2, <2>2 DEF recoveryVars, disk, config, HoldOK, LoneOK, Alive
    <2> QED
      BY <1>2, <2>1, <2>2
  <1>3. IInv /\ HoldOK /\ LoneOK <=> LoneInv
    BY DEF LoneInv
  <1> QED
    BY <1>1, <1>2, <1>3, Invariance, PTL DEF RecoverySpec

\* A shell that is alone resumes from the newest checkpoint and only work that is left, finds
\* an active entry about that checkpoint wherever startExecution(), acquireClaim() and
\* beginRecoveryAttempt() look at it, never finds itself in its way, and tries a bounded number
\* of recoveries: whatever its predecessors wrote and did not record before they died.
THEOREM LoneShellResumes == RecoverySpec => []LoneShellIsCurrent
  <1>1. ASSUME LoneInv
        PROVE  LoneShellIsCurrent
    <2> SUFFICES ASSUME ~overlap
                 PROVE  /\ ResumesWhatIsLeft
                        /\ \A h \in Hosts :
                             /\ At(h, "choose") => index = mem[h].seen /\ index.seq = top.seq
                             /\ At(h, "claim") \/ At(h, "check") => Current(h)
                             /\ At(h, "begin") \/ At(h, "execute") => index.state = "ACTIVE" /\ index.seq = top.seq
                             /\ pc[h] \in {"probe", "reclaim", "reread"} => mem[h].stale # h
                        /\ tries <= MaxAttempts
      BY DEF LoneShellIsCurrent
    <2>1. ResumesWhatIsLeft
      <3> SUFFICES ASSUME NEW h \in Hosts, pc[h] \in Entering
                   PROVE  mem[h].base = top /\ top.state = "ACTIVE" /\ top.intent = "none"
        BY DEF ResumesWhatIsLeft
      <3>1. Alive(h) /\ pc[h] \in Working /\ PositionOf(pc[h], mem[h]) \notin {"accept", "execute"}
        BY DEF Alive, Entering, Working, PositionOf, Returning
      <3>2. Knows(pc[h], mem[h], Latest(mem[h], index), top, tries)
        BY <1>1, <3>1 DEF LoneInv, LoneOK, Fine
      <3> QED
        BY <3>1, <3>2 DEF Knows, WorksAt, Resumable
    <2>2. ASSUME NEW h \in Hosts
          PROVE  /\ At(h, "choose") => index = mem[h].seen /\ index.seq = top.seq
                 /\ At(h, "claim") \/ At(h, "check") => Current(h)
                 /\ At(h, "begin") \/ At(h, "execute") => index.state = "ACTIVE" /\ index.seq = top.seq
                 /\ pc[h] \in {"probe", "reclaim", "reread"} => mem[h].stale # h
      <3>1. At(h, "choose") => Knows("choose", mem[h], index, top, tries)
        BY <1>1, Here
      <3>2. ASSUME NEW l \in {"claim", "check", "begin", "execute"}, At(h, l)
            PROVE  /\ index.state = "ACTIVE" /\ index.seq = top.seq
                   /\ l # "execute" => mem[h].base = top
        <4>1. Knows(l, mem[h], index, top, tries)
          BY <1>1, <3>2, Here
        <4>2. l \in Working /\ PositionOf(l, mem[h]) = l
          BY FreeLabels DEF PositionOf, Returning
        <4> QED
          BY <4>1, <4>2 DEF Knows, WorksAt
      <3>3. mem[h].stale # h
        BY <1>1 DEF LoneInv, HoldOK
      <3> QED
        BY <3>1, <3>2, <3>3 DEF Knows, Current
    <2>3. tries <= MaxAttempts
      <3>1. Sound(index, top, tries) /\ index \in Entries /\ top \in Checkpoints /\ tries \in 0..(MaxAttempts + 1)
        BY <1>1 DEF LoneInv, LoneOK, IInv, RecoveryTypeOK
      <3> QED
        BY <3>1, RecoveryAssumption DEF Sound, Entries, Checkpoints
    <2> QED
      BY <2>1, <2>2, <2>3
  <1> QED
    BY <1>1, LoneInvariance, PTL

\* The index is only ever written whole.
LEMMA OnlySaves ==
    ASSUME NEW h \in Hosts, Shell(h)
    PROVE  index' = index \/ Save(h)
  <1>1. CASE Launch(h) \/ Die(h) \/ Save(h) \/ Record(h)
    BY <1>1 DEF Launch, Die, Record, disk
  <1>2. CASE Look(h) \/ RetryCleanup(h) \/ Refresh(h) \/ RetryEntry(h) \/ RetryEnds(h) \/ RetryFails(h) \/ LookAgain(h) \/ Choose(h)
    BY <1>2 DEF Look, RetryCleanup, Refresh, RetryEntry, RetryEnds, RetryFails, LookAgain, Choose, Write, disk
  <1>3. CASE Claim(h) \/ Create(h) \/ Fill(h) \/ Check(h) \/ Existing(h) \/ ProbeOwner(h) \/ Reclaim(h) \/ Reread(h) \/ Archive(h) \/ Unreclaim(h)
    BY <1>3 DEF Claim, Create, Fill, Check, Existing, ProbeOwner, Reclaim, Reread, Archive, Unreclaim, disk
  <1>4. CASE Begin(h) \/ Validate(h) \/ Run(h) \/ Enter(h) \/ Plan(h) \/ PlanRefused(h) \/ VerifyRefused(h) \/ Refused(h) \/ Accept(h)
    BY <1>4 DEF Begin, Validate, Run, Enter, Plan, PlanRefused, VerifyRefused, Refused, Accept, Write, disk
  <1>5. CASE Step(h) \/ Preserve(h) \/ StepBlocks(h) \/ StepsFail(h) \/ Conclude(h) \/ CleanEntry(h) \/ Cleaned(h) \/ CleanupBlocks(h) \/ Close(h) \/ Keep(h) \/ Fail(h) \/ Unlock(h)
    BY <1>5 DEF Step, Preserve, StepBlocks, StepsFail, Conclude, CleanEntry, Cleaned, CleanupBlocks, Ends, Close, Keep, Fail, Unlock, Write, disk
  <1>6. CASE Release(h) \/ Released(h) \/ BlockRefused(h)
    BY <1>6 DEF Release, Released, BlockRefused, disk
  <1> QED
    BY <1>1, <1>2, <1>3, <1>4, <1>5, <1>6 DEF Shell

\* The entry that a shell wrote from what it read long before still follows the one it
\* replaces: a cancelled or completed episode stays that (recovery-store.cjs:254), and one that
\* was blocked is not made active by a late recordCheckpoint() or reconcileIndex().
THEOREM EpisodeEndsOnce == RecoverySpec => LifecycleOrder
  <1> DEFINE Order == ~overlap => /\ index.state \in Terminal => index'.state = index.state
                                  /\ index.state = "BLOCKED" => index'.state # "ACTIVE"
  <1>1. ASSUME LoneInv, [RecoveryNext]_recoveryVars
        PROVE  [Order]_recoveryVars
    <2>1. CASE UNCHANGED recoveryVars
      BY <2>1
    <2>2. ASSUME NEW h \in Hosts, Save(h), ~overlap
          PROVE  Follows(index, index')
      <3>1. mem[h].dirty /\ Alive(h) /\ index' = mem[h].saving
        BY <1>1, <2>2 DEF LoneInv, HoldOK, Save
      <3> QED
        BY <1>1, <2>2, <3>1 DEF LoneInv, LoneOK, Fine, Latest
    <2>3. CASE RecoveryNext
      <3>1. PICK h \in Hosts : Shell(h)
        BY <2>3 DEF RecoveryNext
      <3>2. CASE index' = index
        BY <3>2
      <3>3. CASE Save(h)
        BY <2>2, <3>3 DEF Follows
      <3> QED
        BY <3>1, <3>2, <3>3, OnlySaves
    <2> QED
      BY <1>1, <2>1, <2>3
  <1> QED
    BY <1>1, LoneInvariance, PTL DEF RecoverySpec, LifecycleOrder

--------------------------------------------------------------------------------
(* Shells beside each other: what is kept from one another.                      *)

\* Only its owner completes or removes a claim, as a step of its own, as long as it lives:
\* acquireClaim() renames the claim of a dead owner away, under .reclaim
\* (recovery-store.cjs:549), and releaseClaim() removes only its caller's.
THEOREM LiveClaimIsLeftAlone ==
    RecoverySpec => [][\A h \in Hosts : Alive(h) /\ claim.by = h /\ claim' # claim =>
                         pc[h] \in {"fill", "check", "release"} /\ pc'[h] # pc[h]]_recoveryVars
  <1> DEFINE Left(h) == Alive(h) /\ claim.by = h /\ claim' # claim => pc[h] \in {"fill", "check", "release"} /\ pc'[h] # pc[h]
  <1>1. ASSUME IInv, NEW g \in Hosts, Shell(g)
        PROVE  claim' = claim \/ Create(g) \/ Fill(g) \/ Check(g) \/ Archive(g) \/ Release(g)
    <2>1. CASE Launch(g) \/ Die(g) \/ Save(g) \/ Record(g)
      BY <2>1 DEF Launch, Die, Save, Record, disk
    <2>2. CASE Look(g) \/ RetryCleanup(g) \/ Refresh(g) \/ RetryEntry(g) \/ RetryEnds(g) \/ RetryFails(g) \/ LookAgain(g) \/ Choose(g)
      BY <2>2 DEF Look, RetryCleanup, Refresh, RetryEntry, RetryEnds, RetryFails, LookAgain, Choose, Write, disk
    <2>3. CASE Claim(g) \/ Create(g) \/ Fill(g) \/ Check(g) \/ Existing(g) \/ ProbeOwner(g) \/ Reclaim(g) \/ Reread(g) \/ Archive(g) \/ Unreclaim(g)
      BY <2>3 DEF Claim, Existing, ProbeOwner, Reclaim, Reread, Unreclaim, disk
    <2>4. CASE Begin(g) \/ Validate(g) \/ Run(g) \/ Enter(g) \/ Plan(g) \/ PlanRefused(g) \/ VerifyRefused(g) \/ Refused(g) \/ Accept(g)
      BY <2>4 DEF Begin, Validate, Run, Enter, Plan, PlanRefused, VerifyRefused, Refused, Accept, Write, disk
    <2>5. CASE Step(g) \/ Preserve(g) \/ StepBlocks(g) \/ StepsFail(g) \/ Conclude(g) \/ CleanEntry(g) \/ Cleaned(g) \/ CleanupBlocks(g) \/ Close(g) \/ Keep(g) \/ Fail(g) \/ Unlock(g)
      BY <2>5 DEF Step, Preserve, StepBlocks, StepsFail, Conclude, CleanEntry, Cleaned, CleanupBlocks, Ends, Close, Keep, Fail, Unlock, Write, disk
    <2>6. CASE Release(g) \/ Released(g) \/ BlockRefused(g)
      BY <2>6 DEF Released, BlockRefused, disk
    <2> QED
      BY <1>1, <2>1, <2>2, <2>3, <2>4, <2>5, <2>6 DEF Shell
  <1>2. ASSUME IInv, NEW g \in Hosts, Shell(g), NEW h \in Hosts
        PROVE  Left(h)
    <2>1. CASE Create(g)
      BY <2>1 DEF Create, NoClaim, Nobody, Hosts
    <2>2. CASE Fill(g) \/ Check(g)
      <3>1. claim = [by |-> g, whole |-> pc[g] = "check"] /\ pc[g] \in {"fill", "check"}
        BY <1>2, <2>2 DEF Fill, Check, At, IInv, ClaimOK, Owning, PositionOf, Returning
      <3>2. \E l \in {"check", "unreclaim", "execute", "begin", "unlock", "idle"} : Goto(g, l) /\ (pc[g] = "check" => l # "check")
        BY <2>2 DEF Fill, Check, Refuse, At
      <3> QED
        BY <1>2, <3>1, <3>2 DEF Goto, IInv, RecoveryTypeOK
    <2>3. CASE Archive(g)
      BY <1>2, <2>3 DEF Archive, At, IInv, ClaimOK
    <2>4. CASE Release(g)
      <3>1. pc[g] = "release" /\ (claim' # claim => claim.by = g) /\ pc' = [pc EXCEPT ![g] = "released"]
        BY <2>4 DEF Release, At, Goto
      <3> QED
        BY <1>2, <3>1 DEF IInv, RecoveryTypeOK
    <2> QED
      BY <1>1, <1>2, <2>1, <2>2, <2>3, <2>4
  <1>3. ASSUME IInv, [RecoveryNext]_recoveryVars
        PROVE  [\A h \in Hosts : Left(h)]_recoveryVars
    BY <1>2, <1>3 DEF RecoveryNext
  <1> QED
    BY <1>3, Invariance, PTL DEF RecoverySpec

\* A shell works in the workspace, or its detour leads there; a new episode's run() takes
\* the workspace before it claims.
Works(l, m) ==
    \/ PositionOf(l, m) \in InWorkspace
    \/ PositionOf(l, m) \in Claiming \cup Claimed /\ m.fresh

WorkspaceOK == locking => \A h \in Hosts : Works(pc[h], mem[h]) => lock = h

\* h moves to l and remembers m, and works there only if it did before.
LEMMA WorkspaceMove ==
    ASSUME IInv, WorkspaceOK, NEW h \in Hosts, NEW l, NEW m, Goto(h, l), mem' = [mem EXCEPT ![h] = m],
           UNCHANGED <<lock, config>>, Works(l, m) => Works(pc[h], mem[h])
    PROVE  WorkspaceOK'
  <1>1. /\ pc'[h] = l /\ mem'[h] = m
        /\ \A g \in Hosts \ {h} : pc'[g] = pc[g] /\ mem'[g] = mem[g]
    BY DEF IInv, RecoveryTypeOK, Goto
  <1> QED
    BY <1>1 DEF WorkspaceOK, config

\* ... or moves to a place where nobody works.
Outside == Labels \ (InWorkspace \cup Claiming \cup Claimed \cup Returning)

LEMMA WorkspaceLeft ==
    ASSUME IInv, WorkspaceOK, NEW h \in Hosts, NEW l \in Outside, Goto(h, l),
           mem' = mem \/ \E m : mem' = [mem EXCEPT ![h] = m], UNCHANGED <<lock, config>>
    PROVE  WorkspaceOK'
  <1>1. PICK m : mem' = [mem EXCEPT ![h] = m]
    <2>1. mem' = mem => mem' = [mem EXCEPT ![h] = mem[h]]
      BY DEF IInv, RecoveryTypeOK
    <2> QED
      BY <2>1
  <1>2. ~Works(l, m)
    BY DEF Outside, Works, PositionOf
  <1> QED
    BY <1>1, <1>2, WorkspaceMove

LEMMA OutsideLabels ==
    /\ Outside = {"unborn", "idle", "dead", "begin", "validate", "enter", "close", "keep", "fail",
                  "release", "released", "block", "cleanup", "refresh", "cleaning up", "look again", "choose"}
    /\ \A m, l : l \notin Returning => PositionOf(l, m) = l
    /\ (Claiming \cup Claimed) \cap Returning = {} /\ InWorkspace \cap Returning = {}
  BY DEF Outside, InWorkspace, PositionOf, Returning, Labels, Looking, Claiming, Claimed, Entering, Executing, Leaving

\* A detour that leads outside.
LEMMA DetourLeft ==
    ASSUME IInv, WorkspaceOK, NEW h \in Hosts, NEW l \in Returning, NEW m, m.next \in Outside \cup {"unlock"},
           Goto(h, l), mem' = [mem EXCEPT ![h] = m], UNCHANGED <<lock, config>>
    PROVE  WorkspaceOK'
  <1>1. ~Works(l, m)
    BY OutsideLabels DEF Works, PositionOf, InWorkspace, Claiming, Claimed
  <1> QED
    BY <1>1, WorkspaceMove

LEMMA WorkspaceRefuse ==
    ASSUME IInv, WorkspaceOK, NEW h \in Hosts, Refuse(h), UNCHANGED <<lock, config>>
    PROVE  WorkspaceOK'
  <1> DEFINE m == IF mem[h].fresh THEN [mem[h] EXCEPT !.next = "release"] ELSE Blank
             l == IF mem[h].fresh THEN "unlock" ELSE "idle"
  <1>1. mem[h] \in Memory
    BY DEF IInv, RecoveryTypeOK
  <1>2. m \in Memory /\ (l = "unlock" => m.next = "release") /\ l \in {"unlock", "idle"}
    <2>1. "release" \in Labels /\ Blank \in Memory
      BY LabelType, BlankType DEF Leaving
    <2> QED
      BY <1>1, <2>1, FieldType DEF Memory
  <1>3. \/ pc' = [pc EXCEPT ![h] = "unreclaim"] /\ mem' = [mem EXCEPT ![h] = [m EXCEPT !.next = l]]
        \/ pc' = [pc EXCEPT ![h] = l] /\ mem' = [mem EXCEPT ![h] = m]
    BY DEF Refuse, Goto
  <1> HIDE DEF m, l
  <1>4. [m EXCEPT !.next = l].next = l
    BY <1>2 DEF Memory
  <1>5. "unreclaim" \in Returning /\ "unlock" \in Returning /\ {"idle", "release"} \subseteq Outside
    BY OutsideLabels DEF Returning
  <1>6. CASE pc' = [pc EXCEPT ![h] = "unreclaim"] /\ mem' = [mem EXCEPT ![h] = [m EXCEPT !.next = l]]
    BY <1>2, <1>4, <1>5, <1>6, DetourLeft DEF Goto
  <1>7. CASE pc' = [pc EXCEPT ![h] = l] /\ mem' = [mem EXCEPT ![h] = m] /\ l = "unlock"
    BY <1>2, <1>5, <1>7, DetourLeft DEF Goto
  <1>8. CASE pc' = [pc EXCEPT ![h] = l] /\ mem' = [mem EXCEPT ![h] = m] /\ l = "idle"
    BY <1>5, <1>8, WorkspaceLeft DEF Goto
  <1> QED
    BY <1>2, <1>3, <1>6, <1>7, <1>8

LEMMA WorkspaceWrite ==
    ASSUME IInv, WorkspaceOK, NEW h \in Hosts, NEW state, NEW intent, NEW l \in AfterRecord, Write(h, state, intent, l),
           pc[h] \notin Returning, l \in InWorkspace => pc[h] \in InWorkspace
    PROVE  WorkspaceOK'
  <1> DEFINE ck == [seq |-> top.seq + 1, state |-> state, intent |-> intent]
             m  == [mem[h] EXCEPT !.base = ck, !.next = l]
  <1>1. Goto(h, "record") /\ mem' = [mem EXCEPT ![h] = m] /\ UNCHANGED <<lock, config>>
    BY DEF Write
  <1>2. m.next = l
    BY DEF IInv, RecoveryTypeOK, Memory
  <1> HIDE DEF m
  <1>3. Works("record", m) => l \in InWorkspace
    BY <1>2 DEF Works, PositionOf, Returning, AfterRecord, Claiming, Claimed
  <1>4. pc[h] \in InWorkspace => Works(pc[h], mem[h])
    BY OutsideLabels DEF Works
  <1> QED
    BY <1>1, <1>3, <1>4, WorkspaceMove

LEMMA WorkspaceWrites ==
    ASSUME IInv, WorkspaceOK, NEW h \in Hosts,
           \/ RetryEntry(h) \/ RetryEnds(h) \/ Plan(h) \/ VerifyRefused(h) \/ Step(h) \/ Preserve(h)
           \/ CleanEntry(h) \/ Close(h) \/ Keep(h) \/ Fail(h)
    PROVE  WorkspaceOK'
  <1> USE DEF At, AfterRecord, InWorkspace, Returning
  <1>1. CASE RetryEntry(h) \/ RetryEnds(h)
    BY <1>1, WorkspaceWrite DEF RetryEntry, RetryEnds
  <1>2. CASE Plan(h) \/ VerifyRefused(h)
    BY <1>2, WorkspaceWrite DEF Plan, VerifyRefused
  <1>3. CASE Step(h) \/ Preserve(h) \/ CleanEntry(h)
    BY <1>3, WorkspaceWrite DEF Step, Preserve, CleanEntry
  <1>4. CASE Close(h) \/ Keep(h) \/ Fail(h)
    BY <1>4, WorkspaceWrite DEF Close, Keep, Fail
  <1> QED
    BY <1>1, <1>2, <1>3, <1>4

\* Whoever takes the workspace finds it free, and nobody works in it then.
LEMMA WorkspaceTaken ==
    ASSUME IInv, WorkspaceOK, NEW h \in Hosts, TakeLock(h), NEW l, Goto(h, l), NEW m, mem' = [mem EXCEPT ![h] = m], UNCHANGED config
    PROVE  WorkspaceOK'
  <1>1. \A g \in Hosts \ {h} : pc'[g] = pc[g] /\ mem'[g] = mem[g]
    BY DEF IInv, RecoveryTypeOK, Goto
  <1>2. ~locking \/ (lock = Nobody /\ lock' = h)
    BY DEF TakeLock
  <1>3. Nobody \notin Hosts
    BY DEF Nobody, Hosts
  <1> QED
    BY <1>1, <1>2, <1>3 DEF WorkspaceOK, config

LEMMA WorkspaceLooks ==
    ASSUME IInv, WorkspaceOK, NEW h \in Hosts,
           \/ Launch(h) \/ Die(h) \/ Look(h) \/ RetryCleanup(h) \/ Refresh(h) \/ RetryFails(h) \/ LookAgain(h)
           \/ Begin(h) \/ Validate(h) \/ StepBlocks(h) \/ Release(h) \/ Released(h) \/ BlockRefused(h)
    PROVE  WorkspaceOK'
  <1> SUFFICES ASSUME NEW l \in Outside, Goto(h, l), mem' = mem \/ \E m : mem' = [mem EXCEPT ![h] = m], UNCHANGED <<lock, config>>
               PROVE  WorkspaceOK'
    <2>1. CASE Launch(h) \/ Die(h) \/ Look(h) \/ Refresh(h) \/ RetryFails(h) \/ LookAgain(h)
      BY <2>1, OutsideLabels DEF Launch, Die, Look, Refresh, RetryFails, LookAgain, disk
    <2>2. CASE RetryCleanup(h)
      <3>1. mem' = [mem EXCEPT ![h] = [mem[h] EXCEPT !.base = top, !.goal = top.intent]]
        BY <2>2 DEF RetryCleanup
      <3>2. \E l \in {"look again", "cleaning up"} : Goto(h, l)
        BY <2>2 DEF RetryCleanup
      <3>3. UNCHANGED <<lock, config>>
        BY <2>2 DEF RetryCleanup, disk
      <3> QED
        BY <3>1, <3>2, <3>3, OutsideLabels
    <2>3. CASE Begin(h) \/ Validate(h) \/ StepBlocks(h)
      <3>1. \E l \in {"validate", "release", "enter", "fail"} : Goto(h, l)
        BY <2>3 DEF Begin, Validate, StepBlocks
      <3>2. mem' = mem \/ \E m : mem' = [mem EXCEPT ![h] = m]
        BY <2>3 DEF Begin, Validate, StepBlocks
      <3>3. UNCHANGED <<lock, config>>
        BY <2>3 DEF Begin, Validate, StepBlocks, disk
      <3> QED
        BY <3>1, <3>2, <3>3, OutsideLabels
    <2>4. CASE Release(h) \/ Released(h) \/ BlockRefused(h)
      <3>1. \E l \in {"released", "block", "idle"} : Goto(h, l)
        BY <2>4 DEF Release, Released, BlockRefused
      <3>2. mem' = mem \/ \E m : mem' = [mem EXCEPT ![h] = m]
        BY <2>4 DEF Release, Released, BlockRefused
      <3>3. UNCHANGED <<lock, config>>
        BY <2>4 DEF Release, Released, BlockRefused, disk
      <3> QED
        BY <3>1, <3>2, <3>3, OutsideLabels
    <2> QED
      BY <2>1, <2>2, <2>3, <2>4
  <1> QED
    BY WorkspaceLeft

LEMMA WorkspaceSave ==
    ASSUME IInv, WorkspaceOK, NEW h \in Hosts, Save(h)
    PROVE  WorkspaceOK'
  <1> DEFINE m == [mem[h] EXCEPT !.dirty = FALSE, !.saving = NoEntry]
  <1>1. mem[h] \in Memory /\ pc' = pc /\ mem' = [mem EXCEPT ![h] = m] /\ UNCHANGED <<lock, config>> /\ Goto(h, pc[h])
    BY DEF Save, Goto, IInv, RecoveryTypeOK
  <1>2. m.fresh = mem[h].fresh /\ m.next = mem[h].next
    BY <1>1 DEF Memory
  <1> HIDE DEF m
  <1>3. Works(pc[h], m) => Works(pc[h], mem[h])
    BY <1>2 DEF Works, PositionOf
  <1> QED
    BY <1>1, <1>3, WorkspaceMove

\* Where its checkpoint leads a shell, it works only if it was on its way there.
LEMMA WorkspaceRecord ==
    ASSUME IInv, WorkspaceOK, NEW h \in Hosts, Record(h)
    PROVE  WorkspaceOK'
  <1> DEFINE l == mem[h].next
             m == [mem[h] EXCEPT !.base = NoCheckpoint, !.next = "idle"]
  <1>1. mem[h] \in Memory /\ index \in Entries /\ top \in Checkpoints /\ l \in AfterRecord /\ pc[h] = "record"
    BY DEF IInv, RecoveryTypeOK, PlaceOK, Placed, Record, At
  <1>2. m \in Memory /\ mem[h].base \in Checkpoints
    BY <1>1, LabelType, BlankType, FieldType
  <1>3. UNCHANGED <<lock, config>>
    BY DEF Record, disk
  <1>4. Works("record", mem[h]) <=> l \in InWorkspace
    BY <1>1 DEF Works, PositionOf, Returning, AfterRecord, Claiming, Claimed
  <1>5. \/ /\ Goto(h, l) /\ mem' = [mem EXCEPT ![h] = Update(m, Recorded(index, mem[h].base))]
        \/ /\ Goto(h, Unrecorded(l)) /\ l # "accept" /\ \E n : mem' = [mem EXCEPT ![h] = n]
        \/ /\ Goto(h, "unlock") /\ mem' = [mem EXCEPT ![h] = [m EXCEPT !.next = "release", !.refused = ~m.fresh]]
    BY <1>1 DEF Record, Unrecorded
  <1> HIDE DEF m, l
  <1>6. CASE Goto(h, l) /\ mem' = [mem EXCEPT ![h] = Update(m, Recorded(index, mem[h].base))]
    <2>1. \A n : PositionOf(l, n) = l /\ (Works(l, n) => l \in InWorkspace)
      BY <1>1 DEF PositionOf, Returning, AfterRecord, Works, Claiming, Claimed
    <2> QED
      BY <1>1, <1>3, <1>4, <1>6, <2>1, WorkspaceMove
  <1>7. CASE Goto(h, Unrecorded(l)) /\ l # "accept" /\ \E n : mem' = [mem EXCEPT ![h] = n]
    <2> DEFINE k == Unrecorded(l)
    <2>1. k \in {"fail", "stuck", "look again", "release", "refuse"} /\ (k \in InWorkspace => l \in InWorkspace)
      BY <1>1, <1>7 DEF Unrecorded, AfterRecord, InWorkspace
    <2> HIDE DEF k
    <2>2. \A n : Works(k, n) => k \in InWorkspace
      BY <2>1 DEF Works, PositionOf, Returning, Claiming, Claimed
    <2>3. Goto(h, k)
      BY <1>7 DEF k
    <2> QED
      BY <1>1, <1>3, <1>4, <1>7, <2>1, <2>2, <2>3, WorkspaceMove
  <1>8. CASE Goto(h, "unlock") /\ mem' = [mem EXCEPT ![h] = [m EXCEPT !.next = "release", !.refused = ~m.fresh]]
    <2>1. [m EXCEPT !.next = "release", !.refused = ~m.fresh].next = "release"
      BY <1>2 DEF Memory
    <2>2. "release" \in Outside /\ "unlock" \in Returning
      BY OutsideLabels DEF Returning
    <2> QED
      BY <1>3, <1>8, <2>1, <2>2, DetourLeft
  <1> QED
    BY <1>5, <1>6, <1>7, <1>8

\* Whoever claims for a new episode's run() has its workspace; a resumed one does not yet.
LEMMA WorkspaceClaims ==
    ASSUME IInv, WorkspaceOK, NEW h \in Hosts,
           \/ Claim(h) \/ Create(h) \/ Fill(h) \/ Existing(h) \/ ProbeOwner(h) \/ Reclaim(h) \/ Reread(h) \/ Archive(h)
    PROVE  WorkspaceOK'
  <1>1. UNCHANGED <<lock, config>> /\ pc[h] \in Claiming \cup Claimed
    BY DEF Claim, Create, Fill, Existing, ProbeOwner, Reclaim, Reread, Archive, disk, At, Claiming, Claimed
  <1>2. PositionOf(pc[h], mem[h]) = pc[h] /\ mem[h] \in Memory
    BY <1>1, OutsideLabels DEF IInv, RecoveryTypeOK
  <1>3. ASSUME NEW l \in Claiming \cup Claimed, Goto(h, l), NEW m, mem' = [mem EXCEPT ![h] = m], m.fresh = mem[h].fresh
        PROVE  WorkspaceOK'
    <2>1. Works(l, m) => m.fresh
      BY <1>3, OutsideLabels DEF Works, InWorkspace, Claiming, Claimed
    <2>2. mem[h].fresh => Works(pc[h], mem[h])
      BY <1>1, <1>2 DEF Works
    <2> QED
      BY <1>1, <1>3, <2>1, <2>2, WorkspaceMove
  <1>4. CASE Refuse(h)
    BY <1>1, <1>4, WorkspaceRefuse
  <1>5. ASSUME NEW l \in Claiming \cup Claimed, Goto(h, l), UNCHANGED mem
        PROVE  WorkspaceOK'
    <2>1. mem' = [mem EXCEPT ![h] = mem[h]]
      BY <1>5 DEF IInv, RecoveryTypeOK
    <2> QED
      BY <1>3, <1>5, <2>1
  <1>6. CASE Goto(h, "probe") /\ mem' = [mem EXCEPT ![h].stale = claim.by]
    <2>1. [mem[h] EXCEPT !.stale = claim.by].fresh = mem[h].fresh
      BY <1>2 DEF Memory
    <2> QED
      BY <1>3, <1>6, <2>1 DEF Claiming
  <1>7. \/ Refuse(h)
        \/ Goto(h, "probe") /\ mem' = [mem EXCEPT ![h].stale = claim.by]
        \/ \E l \in {"create", "fill", "check", "existing", "reclaim", "reread", "archive"} : Goto(h, l) /\ UNCHANGED mem
    BY DEF Claim, Create, Fill, Existing, ProbeOwner, Reclaim, Reread, Archive, Probe
  <1>8. {"create", "fill", "check", "existing", "reclaim", "reread", "archive"} \subseteq Claiming \cup Claimed
    BY DEF Claiming, Claimed
  <1> QED
    BY <1>4, <1>5, <1>6, <1>7, <1>8

LEMMA WorkspaceChoose ==
    ASSUME IInv, WorkspaceOK, NEW h \in Hosts, Choose(h)
    PROVE  WorkspaceOK'
  <1>1. UNCHANGED <<lock, config>>
    BY DEF Choose, disk
  <1>2. CASE Goto(h, "idle") /\ \E m : mem' = [mem EXCEPT ![h] = m]
    BY <1>1, <1>2, WorkspaceLeft, OutsideLabels
  <1>3. CASE Goto(h, "claim") /\ mem' = [mem EXCEPT ![h] = [Blank EXCEPT !.base = top]]
    <2>1. ~[Blank EXCEPT !.base = top].fresh
      BY BlankType DEF Memory
    <2>2. ~Works("claim", [Blank EXCEPT !.base = top])
      BY <2>1 DEF Works, PositionOf, Returning, InWorkspace
    <2> QED
      BY <1>1, <1>3, <2>2, WorkspaceMove
  <1> QED
    BY <1>2, <1>3 DEF Choose

LEMMA WorkspaceCheck ==
    ASSUME IInv, WorkspaceOK, NEW h \in Hosts, Check(h)
    PROVE  WorkspaceOK'
  <1>1. pc[h] = "check" /\ UNCHANGED <<lock, config>> /\ mem[h] \in Memory /\ index \in Entries
    BY DEF Check, At, IInv, RecoveryTypeOK
  <1>2. CASE Refuse(h)
    BY <1>1, <1>2, WorkspaceRefuse
  <1>3. CASE Current(h) /\ UNCHANGED claim
    <2> DEFINE r == IF mem[h].fresh THEN "execute" ELSE "begin"
               l == IF reclaim = h THEN "unreclaim" ELSE r
               n == IF reclaim = h THEN r ELSE "idle"
               m == [Update(mem[h], index) EXCEPT !.stale = Nobody, !.next = n]
    <2>1. pc' = [pc EXCEPT ![h] = l] /\ mem' = [mem EXCEPT ![h] = m]
      BY <1>3 DEF Check, Goto
    <2>2. m.next = n
      BY <1>1, UpdateType DEF Memory
    <2> HIDE DEF m
    <2>3. PositionOf(l, m) = r
      BY <2>2 DEF PositionOf, Returning
    <2>4. Works(l, m) => mem[h].fresh
      BY <2>3 DEF Works, InWorkspace, Claiming, Claimed
    <2>5. mem[h].fresh => Works("check", mem[h])
      BY OutsideLabels DEF Works, PositionOf, Returning, Claimed
    <2> QED
      BY <1>1, <2>1, <2>4, <2>5, WorkspaceMove DEF Goto
  <1> QED
    BY <1>2, <1>3 DEF Check

LEMMA WorkspaceUnreclaim ==
    ASSUME IInv, WorkspaceOK, NEW h \in Hosts, Unreclaim(h)
    PROVE  WorkspaceOK'
  <1> DEFINE l == mem[h].next
             n == IF l = "unlock" THEN "release" ELSE "idle"
             m == [mem[h] EXCEPT !.next = n]
  <1>1. /\ pc[h] = "unreclaim" /\ UNCHANGED <<lock, config>> /\ mem[h] \in Memory /\ Placed("unreclaim", mem[h])
        /\ Goto(h, l) /\ mem' = [mem EXCEPT ![h] = m]
    BY DEF Unreclaim, At, IInv, RecoveryTypeOK, PlaceOK
  <1>2. l \in {"begin", "execute", "unlock", "idle"} /\ m.next = n
    BY <1>1 DEF Placed, Memory
  <1> HIDE DEF m
  <1>3. Works(l, m) => l = "execute"
    BY <1>2 DEF Works, PositionOf, Returning, InWorkspace, Claiming, Claimed
  <1>4. l = "execute" => Works("unreclaim", mem[h])
    BY DEF Works, PositionOf, Returning, InWorkspace
  <1> QED
    BY <1>1, <1>3, <1>4, WorkspaceMove

LEMMA WorkspaceRefused ==
    ASSUME IInv, WorkspaceOK, NEW h \in Hosts, NEW l \in {"release", "unlock"}, RunRefused(h, l), UNCHANGED <<lock, config>>
    PROVE  WorkspaceOK'
  <1> DEFINE m == [mem[h] EXCEPT !.next = "release", !.refused = ~mem[h].fresh]
  <1>1. mem' = [mem EXCEPT ![h] = m] /\ Goto(h, l) /\ m.next = "release"
    BY DEF RunRefused, IInv, RecoveryTypeOK, Memory
  <1>2. "release" \in Outside /\ "unlock" \in Returning
    BY OutsideLabels DEF Returning
  <1> HIDE DEF m
  <1> QED
    BY <1>1, <1>2, DetourLeft, WorkspaceLeft

LEMMA WorkspaceEnter ==
    ASSUME IInv, WorkspaceOK, NEW h \in Hosts, Run(h) \/ Enter(h) \/ PlanRefused(h) \/ Refused(h)
    PROVE  WorkspaceOK'
  <1>1. CASE Run(h)
    BY <1>1, WorkspaceTaken DEF Run
  <1>2. CASE Enter(h)
    <2>1. mem' = mem => mem' = [mem EXCEPT ![h] = mem[h]]
      BY DEF IInv, RecoveryTypeOK
    <2> QED
      BY <1>2, <2>1, WorkspaceTaken, WorkspaceRefused DEF Enter
  <1>3. CASE PlanRefused(h) \/ Refused(h)
    BY <1>3, WorkspaceRefused DEF PlanRefused, Refused, disk
  <1> QED
    BY <1>1, <1>2, <1>3

LEMMA WorkspaceExecute ==
    ASSUME IInv, WorkspaceOK, NEW h \in Hosts, Accept(h) \/ Conclude(h) \/ StepsFail(h)
    PROVE  WorkspaceOK'
  <1>1. /\ pc[h] \in {"accept", "execute"} /\ UNCHANGED <<lock, config>> /\ mem[h] \in Memory
        /\ Works(pc[h], mem[h])
    BY DEF Accept, Conclude, StepsFail, At, disk, IInv, RecoveryTypeOK, Works, PositionOf, Returning, InWorkspace
  <1>2. \E l, m : Goto(h, l) /\ mem' = [mem EXCEPT ![h] = m]
    BY DEF Accept, Conclude, StepsFail
  <1> QED
    BY <1>1, <1>2, WorkspaceMove

LEMMA WorkspaceEnds ==
    ASSUME IInv, WorkspaceOK, NEW h \in Hosts, Cleaned(h) \/ CleanupBlocks(h)
    PROVE  WorkspaceOK'
  <1>1. /\ pc[h] \in {"clean", "stuck"} /\ UNCHANGED <<lock, config>> /\ Works(pc[h], mem[h])
    BY DEF Cleaned, CleanupBlocks, Ends, At, disk, Works, PositionOf, Returning, InWorkspace
  <1>2. \E l, m : Goto(h, l) /\ mem' = [mem EXCEPT ![h] = m]
    <2>1. mem' = mem => mem' = [mem EXCEPT ![h] = mem[h]]
      BY DEF IInv, RecoveryTypeOK
    <2> QED
      BY <2>1 DEF Cleaned, CleanupBlocks, Ends
  <1> QED
    BY <1>1, <1>2, WorkspaceMove

\* Only the lock of its own is given back.
LEMMA WorkspaceUnlock ==
    ASSUME IInv, WorkspaceOK, NEW h \in Hosts, Unlock(h)
    PROVE  WorkspaceOK'
  <1> DEFINE l == mem[h].next
             m == [mem[h] EXCEPT !.next = "idle"]
  <1>1. /\ pc[h] = "unlock" /\ UNCHANGED config /\ mem[h] \in Memory /\ Placed("unlock", mem[h])
        /\ Goto(h, l) /\ mem' = [mem EXCEPT ![h] = m] /\ lock' = IF lock = h THEN Nobody ELSE lock
    BY DEF Unlock, At, IInv, RecoveryTypeOK, PlaceOK
  <1>2. /\ pc'[h] = l /\ mem'[h] = m
        /\ \A g \in Hosts \ {h} : pc'[g] = pc[g] /\ mem'[g] = mem[g]
    BY <1>1 DEF IInv, RecoveryTypeOK, Goto
  <1>3. ~Works(l, m)
    BY <1>1 DEF Placed, Works, PositionOf, Returning, InWorkspace, Claiming, Claimed
  <1> QED
    BY <1>1, <1>2, <1>3 DEF WorkspaceOK, config

LEMMA WorkspaceStep ==
    ASSUME IInv, WorkspaceOK, NEW h \in Hosts, Shell(h)
    PROVE  WorkspaceOK'
  <1>1. CASE Launch(h) \/ Die(h) \/ Save(h) \/ Record(h)
    BY <1>1, WorkspaceLooks, WorkspaceSave, WorkspaceRecord
  <1>2. CASE Look(h) \/ RetryCleanup(h) \/ Refresh(h) \/ RetryEntry(h) \/ RetryEnds(h) \/ RetryFails(h) \/ LookAgain(h) \/ Choose(h)
    BY <1>2, WorkspaceLooks, WorkspaceWrites, WorkspaceChoose
  <1>3. CASE Claim(h) \/ Create(h) \/ Fill(h) \/ Check(h) \/ Existing(h) \/ ProbeOwner(h) \/ Reclaim(h) \/ Reread(h) \/ Archive(h) \/ Unreclaim(h)
    BY <1>3, WorkspaceClaims, WorkspaceCheck, WorkspaceUnreclaim
  <1>4. CASE Begin(h) \/ Validate(h) \/ Run(h) \/ Enter(h) \/ Plan(h) \/ PlanRefused(h) \/ VerifyRefused(h) \/ Refused(h) \/ Accept(h)
    BY <1>4, WorkspaceLooks, WorkspaceEnter, WorkspaceWrites, WorkspaceExecute
  <1>5. CASE Step(h) \/ Preserve(h) \/ StepBlocks(h) \/ StepsFail(h) \/ Conclude(h) \/ CleanEntry(h) \/ Cleaned(h) \/ CleanupBlocks(h) \/ Close(h) \/ Keep(h) \/ Fail(h) \/ Unlock(h)
    BY <1>5, WorkspaceWrites, WorkspaceLooks, WorkspaceExecute, WorkspaceEnds, WorkspaceUnlock
  <1>6. CASE Release(h) \/ Released(h) \/ BlockRefused(h)
    BY <1>6, WorkspaceLooks
  <1> QED
    BY <1>1, <1>2, <1>3, <1>4, <1>5, <1>6 DEF Shell

\* While lockWorkspace is on, a shell that works in the workspace holds its lock.
LEMMA WorkspaceHolds == RecoverySpec => []WorkspaceOK
  <1>1. RecoveryInit => WorkspaceOK
    <2>1. RecoveryInit => \A h \in Hosts : ~Works(pc[h], mem[h])
      BY OutsideLabels DEF RecoveryInit, Works, InWorkspace, Claiming, Claimed, PositionOf, Returning
    <2> QED
      BY <2>1 DEF WorkspaceOK
  <1>2. ASSUME IInv, WorkspaceOK, [RecoveryNext]_recoveryVars
        PROVE  WorkspaceOK'
    <2>1. CASE RecoveryNext
      BY <1>2, <2>1, WorkspaceStep DEF RecoveryNext
    <2>2. CASE UNCHANGED recoveryVars
      BY <1>2, <2>2 DEF recoveryVars, disk, config, WorkspaceOK
    <2> QED
      BY <1>2, <2>1, <2>2
  <1> QED
    BY <1>1, <1>2, Invariance, PTL DEF RecoverySpec

\* Whoever resumes or runs the episode owns its claim (recovery-store.cjs:464), however many
\* shells start, look, die and take over beside each other; and whoever plans or executes
\* holds the workspace (locking.cjs:118), new episodes included, which have no claim until
\* their first checkpoint is written: two never run it.
THEOREM OneExecutes == RecoverySpec => []OneExecutor
  <1>1. ASSUME IInv, WorkspaceOK
        PROVE  OneExecutor
    <2>1. \A h \in Hosts : pc[h] \in Entering \cup Executing => Owning(pc[h], mem[h])
      BY DEF Owning, PositionOf, Returning, Entering, Executing
    <2>2. \A h \in Hosts : pc[h] \in InWorkspace => Works(pc[h], mem[h])
      BY OutsideLabels DEF Works
    <2> QED
      BY <1>1, <2>1, <2>2 DEF OneExecutor, IInv, ClaimOK, WorkspaceOK
  <1> QED
    BY <1>1, Invariance, WorkspaceHolds, PTL

================================================================================
