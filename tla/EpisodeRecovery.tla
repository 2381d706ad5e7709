---------------------------- MODULE EpisodeRecovery ----------------------------
(* One engineering episode and the shells that may run it, one after another or   *)
(* beside each other: the recovery index and the claim of                         *)
(* app/engineering/recovery-store.cjs, the checkpoints of checkpoint.cjs, the     *)
(* workspace lock of locking.cjs, resume() and startExecution() of                *)
(* app/engineering-host.cjs, and the path of supervisor.cjs from run() to its     *)
(* report. What a step of the plan does is left out: it ends in a checkpoint.     *)
(*                                                                                *)
(* A shell's own code runs without interleaving with itself, but each of its      *)
(* accesses to the disk interleaves with those of the others, and it can die      *)
(* between any two. An index update reads an entry, and Save writes it back.      *)
EXTENDS Integers

CONSTANTS
    Lives,        \* how many shells there are in all, each with one life: they are 1..Lives
    MaxSeq,       \* bound of the model: the number of checkpoints
    MaxAttempts   \* maxAttempts of beginRecoveryAttempt()

ASSUME RecoveryAssumption == Lives \in Nat /\ MaxSeq \in Nat /\ MaxAttempts \in Nat \ {0}

VARIABLES
    top,       \* the newest checkpoint: its sequence, its lifecycle state and its terminal intent
    index,     \* recovery-index.json: the entry of the episode
    claim,     \* claims/<episode>.json: whose it is, and whether its text was written
    reclaim,   \* <claim>.reclaim: who created it
    lock,      \* workspace.lock: who took it
    pc,        \* where each shell is
    mem,       \* what each shell remembers
    tries,     \* recoveries that were validated since the newest checkpoint was written
    overlap,   \* whether a shell may start while another lives
    locking    \* contract.lockWorkspace

disk == <<top, index, claim, reclaim, lock>>
config == <<overlap, locking>>
recoveryVars == <<disk, pc, mem, tries, config>>

Hosts == 1..Lives
Nobody == 0
Terminal == {"COMPLETED", "CANCELLED"}
States == {"ACTIVE", "BLOCKED"} \cup Terminal

Checkpoints == [seq : 0..MaxSeq, state : States, intent : {"none"} \cup Terminal]
Entries == [seq : 0..MaxSeq, state : States, attempts : 0..MaxAttempts]
NoCheckpoint == [seq |-> 0, state |-> "ACTIVE", intent |-> "none"]
NoEntry == [seq |-> 0, state |-> "ACTIVE", attempts |-> 0]
NoClaim == [by |-> Nobody, whole |-> FALSE]

\* resume() to the claim; the claim; resume() from there; run(); its ends.
Looking == {"cleanup", "refresh", "cleaning up", "look again", "choose"}
Claiming == {"claim", "create", "existing", "probe", "reclaim", "reread", "archive"}
Claimed == {"fill", "check"}
Entering == {"begin", "validate", "enter"}
Executing == {"execute", "clean", "stuck", "close", "keep", "fail"}
Leaving == {"release", "released", "block"}
\* Where run() has the workspace to itself: from the plan to the last checkpoint of the work.
InWorkspace == {"plan", "accept", "refuse", "execute", "clean", "stuck"}
Labels == {"unborn", "idle", "dead", "plan", "accept", "refuse", "unlock", "record", "unreclaim"}
            \cup Looking \cup Claiming \cup Claimed \cup Entering \cup Executing \cup Leaving

Memory == [fresh  : BOOLEAN,                  \* it is run() of a new episode, not resume()
           seen   : Entries,                  \* the entry its second reconciliation returned
           base   : Checkpoints,              \* the checkpoint it read, then the one it wrote
           stale  : Hosts \cup {Nobody},      \* the owner it read in an existing claim
           saving : Entries,                  \* the entry it is about to write, if dirty
           dirty  : BOOLEAN,
           next   : Labels,                   \* where record, unreclaim and unlock go on to
           goal   : {"none"} \cup Terminal,   \* cleanupTerminalState
           refused : BOOLEAN]                 \* run() of a resume() was BLOCKED before it was accepted
Blank == [fresh |-> FALSE, seen |-> NoEntry, base |-> NoCheckpoint, stale |-> Nobody,
          saving |-> NoEntry, dirty |-> FALSE, next |-> "idle", goal |-> "none", refused |-> FALSE]

RecoveryTypeOK ==
    /\ top \in Checkpoints
    /\ index \in Entries
    /\ claim \in [by : Hosts \cup {Nobody}, whole : BOOLEAN]
    /\ reclaim \in Hosts \cup {Nobody}
    /\ lock \in Hosts \cup {Nobody}
    /\ pc \in [Hosts -> Labels]
    /\ mem \in [Hosts -> Memory]
    /\ tries \in 0..(MaxAttempts + 1)
    /\ overlap \in BOOLEAN
    /\ locking \in BOOLEAN

RecoveryInit ==
    /\ top = NoCheckpoint /\ index = NoEntry /\ claim = NoClaim
    /\ reclaim = Nobody /\ lock = Nobody
    /\ pc = [h \in Hosts |-> "unborn"]
    /\ mem = [h \in Hosts |-> Blank]
    /\ tries = 0
    /\ overlap \in BOOLEAN /\ locking \in BOOLEAN

--------------------------------------------------------------------------------
(* A shell's life.                                                               *)

Alive(h) == pc[h] \notin {"unborn", "dead"}

\* At h, with its last index update written.
At(h, l) == pc[h] = l /\ ~mem[h].dirty
Goto(h, l) == pc' = [pc EXCEPT ![h] = l]

\* The single instance lock of the shell lets one live at a time; a shell of another
\* profile shares the directory and not the lock. At most two live together here.
Launch(h) ==
    /\ pc[h] = "unborn"
    /\ \A g \in Hosts : g < h => pc[g] # "unborn"
    /\ \A g \in Hosts : Alive(g) => overlap
    /\ \A f, g \in Hosts : Alive(f) /\ Alive(g) => f = g
    /\ Goto(h, "idle")
    /\ UNCHANGED <<disk, mem, tries, config>>

Die(h) ==
    /\ Alive(h)
    /\ Goto(h, "dead")
    /\ mem' = [mem EXCEPT ![h] = Blank]
    /\ UNCHANGED <<disk, tries, config>>

--------------------------------------------------------------------------------
(* The index.                                                                    *)

\* The second half of an update: the whole entry replaces what the index has by now.
Save(h) ==
    /\ mem[h].dirty
    /\ index' = mem[h].saving
    /\ mem' = [mem EXCEPT ![h].dirty = FALSE, ![h].saving = NoEntry]
    /\ UNCHANGED <<top, claim, reclaim, lock, pc, tries, config>>

\* reconcileIndex() of a prior entry and the newest checkpoint. Nothing in the code
\* writes a repairAuthorized checkpoint, so a blocked episode stays blocked.
Reconciled(prior, ck) ==
    [seq      |-> ck.seq,
     state    |-> IF prior.state \in Terminal THEN prior.state
                  ELSE IF prior.state = "BLOCKED" /\ ck.state = "ACTIVE" THEN "BLOCKED" ELSE ck.state,
     attempts |-> IF ck.seq > prior.seq THEN 0 ELSE prior.attempts]

SlipRecordable(prior, ck) ==
    /\ prior.state \notin Terminal
    /\ ck.seq >= prior.seq

\* recordCheckpoint(): what it refuses, and the entry it writes.
Recordable(prior, ck) ==
    /\ prior.state \notin Terminal
    /\ ck.seq >= prior.seq
    /\ prior.state = "BLOCKED" => ck.state # "ACTIVE"

SlipRecorded(prior, ck) == [prior EXCEPT !.state = ck.state]

Recorded(prior, ck) ==
    [seq |-> ck.seq, state |-> ck.state, attempts |-> IF ck.seq > prior.seq THEN 0 ELSE prior.attempts]

\* An update of m's shell: saving is written by Save.
Update(m, entry) == [m EXCEPT !.saving = entry, !.dirty = TRUE]

\* blockEpisode(): a terminal entry is left alone.
Block(m) ==
    IF index.state \in Terminal THEN m ELSE Update(m, [index EXCEPT !.state = "BLOCKED"])

--------------------------------------------------------------------------------
(* Checkpoints.                                                                  *)

\* save() gives the checkpoint the next sequence and renames it into place; the caller
\* goes on to record it, and then to l.
Write(h, state, intent, l) ==
    LET ck == [seq |-> top.seq + 1, state |-> state, intent |-> intent] IN
    /\ top.seq < MaxSeq
    /\ top' = ck
    /\ tries' = 0
    /\ mem' = [mem EXCEPT ![h].base = ck, ![h].next = l]
    /\ Goto(h, "record")
    /\ UNCHANGED <<index, claim, reclaim, lock, config>>

\* Where a checkpoint that cannot be recorded leads: run() is refused at its first and
\* blocked at a step's, a cleanup has a residual, a retried one blocks the entry, and
\* nobody asks after the last checkpoint of a run.
Unrecorded(l) ==
    CASE l = "accept"  -> "unlock"
      [] l = "execute" -> "fail"
      [] l = "clean"   -> "stuck"
      [] l = "refresh" -> "look again"
      [] OTHER -> l

Record(h) ==
    /\ At(h, "record")
    /\ LET l == mem[h].next
           m == [mem[h] EXCEPT !.base = NoCheckpoint, !.next = "idle"]
       IN IF Recordable(index, mem[h].base)
          THEN Goto(h, l) /\ mem' = [mem EXCEPT ![h] = Update(m, Recorded(index, mem[h].base))]
          ELSE /\ Goto(h, Unrecorded(l))
               /\ mem' = [mem EXCEPT ![h] =
                            IF l \in {"refresh", "look again"} THEN Block(m)
                            ELSE IF l = "accept" THEN [m EXCEPT !.next = "release", !.refused = ~m.fresh]
                            ELSE m]
    /\ UNCHANGED <<disk, tries, config>>

--------------------------------------------------------------------------------
(* resume(), to the claim.                                                       *)

\* The index and the checkpoints are read, and the index is written whole.
Look(h) ==
    /\ At(h, "idle")
    /\ top.seq > 0
    /\ mem' = [mem EXCEPT ![h] = Update(Blank, Reconciled(index, top))]
    /\ Goto(h, "cleanup")
    /\ UNCHANGED <<disk, tries, config>>

\* retryPendingTerminalCleanup(): a newest checkpoint with a terminal intent is an
\* episode that had ended, and only its cleanup is left.
RetryCleanup(h) ==
    /\ At(h, "cleanup")
    /\ mem' = [mem EXCEPT ![h].base = top, ![h].goal = top.intent]
    /\ Goto(h, IF top.intent = "none" THEN "look again" ELSE "cleaning up")
    /\ UNCHANGED <<disk, tries, config>>

\* What it writes next is made from the checkpoint that is the newest by then.
Refresh(h) ==
    /\ At(h, "refresh")
    /\ mem' = [mem EXCEPT ![h].base = top]
    /\ Goto(h, "cleaning up")
    /\ UNCHANGED <<disk, tries, config>>

\* Each entry of the registry is written as it changes; the last checkpoint carries
\* the terminal state, or the block; or the cleanup cannot be done or written at all.
RetryEntry(h) ==
    /\ At(h, "cleaning up")
    /\ Write(h, mem[h].base.state, mem[h].base.intent, "refresh")

RetryEnds(h) ==
    /\ At(h, "cleaning up")
    /\ \/ Write(h, mem[h].goal, "none", "look again")
       \/ Write(h, "BLOCKED", mem[h].base.intent, "look again")

RetryFails(h) ==
    /\ At(h, "cleaning up")
    /\ mem' = [mem EXCEPT ![h] = Block(@)]
    /\ Goto(h, "look again")
    /\ UNCHANGED <<disk, tries, config>>

LookAgain(h) ==
    /\ At(h, "look again")
    /\ mem' = [mem EXCEPT ![h] = [Update(Blank, Reconciled(index, top)) EXCEPT !.seen = Reconciled(index, top)]]
    /\ Goto(h, "choose")
    /\ UNCHANGED <<disk, tries, config>>

\* The entry is what the reconciliation returned, or is read again when the episode is
\* named; the checkpoint is read again, and an entry that is not about it is blocked,
\* whoever may own the episode.
Choose(h) ==
    /\ At(h, "choose")
    /\ \E entry \in {mem[h].seen, index} :
         \/ /\ entry.state # "ACTIVE"
            /\ mem' = [mem EXCEPT ![h] = Blank]
            /\ Goto(h, "idle")
         \/ /\ entry.state = "ACTIVE" /\ entry.seq # top.seq
            /\ mem' = [mem EXCEPT ![h] = Block(Blank)]
            /\ Goto(h, "idle")
         \/ /\ entry.state = "ACTIVE" /\ entry.seq = top.seq
            /\ mem' = [mem EXCEPT ![h] = [Blank EXCEPT !.base = top]]
            /\ Goto(h, "claim")
    /\ UNCHANGED <<disk, tries, config>>

--------------------------------------------------------------------------------
(* acquireClaim(), of resume() or of a new episode's first checkpoint.           *)

\* A refusal, whatever its code: the reclaim lock is removed first, if h has it; a new episode's run() is
\* blocked, which releases the workspace and the claim, if it is h's.
Refuse(h) ==
    LET m == IF mem[h].fresh THEN [mem[h] EXCEPT !.next = "release"] ELSE Blank
        l == IF mem[h].fresh THEN "unlock" ELSE "idle"
    IN IF reclaim = h
       THEN mem' = [mem EXCEPT ![h] = [m EXCEPT !.next = l]] /\ Goto(h, "unreclaim")
       ELSE mem' = [mem EXCEPT ![h] = m] /\ Goto(h, l)

Current(h) == index.state = "ACTIVE" /\ index.seq = mem[h].base.seq

Claim(h) ==
    /\ At(h, "claim")
    /\ IF Current(h) THEN Goto(h, "create") /\ UNCHANGED mem
       ELSE Refuse(h)
    /\ UNCHANGED <<disk, tries, config>>

\* The claim is created exclusively; its text follows.
Create(h) ==
    /\ At(h, "create")
    /\ \/ /\ claim = NoClaim
          /\ claim' = [by |-> h, whole |-> FALSE]
          /\ Goto(h, "fill")
          /\ UNCHANGED mem
       \/ /\ claim # NoClaim
          /\ IF reclaim = h THEN Refuse(h)
             ELSE Goto(h, "existing") /\ UNCHANGED mem
          /\ UNCHANGED claim
    /\ UNCHANGED <<top, index, reclaim, lock, tries, config>>

Fill(h) ==
    /\ At(h, "fill")
    /\ claim' = [claim EXCEPT !.whole = TRUE]
    /\ Goto(h, "check")
    /\ UNCHANGED <<top, index, reclaim, lock, mem, tries, config>>

\* The episode may have changed meanwhile: then the claim is removed. Otherwise the
\* entry is written back with its owner (which nothing here depends on).
Check(h) ==
    /\ At(h, "check")
    /\ \/ /\ Current(h)
          /\ LET l == IF mem[h].fresh THEN "execute" ELSE "begin" IN
             /\ mem' = [mem EXCEPT ![h] = [Update(@, index) EXCEPT !.stale = Nobody,
                                            !.next = IF reclaim = h THEN l ELSE "idle"]]
             /\ Goto(h, IF reclaim = h THEN "unreclaim" ELSE l)
          /\ UNCHANGED claim
       \/ /\ ~Current(h)
          /\ claim' = NoClaim
          /\ Refuse(h)
    /\ UNCHANGED <<top, index, reclaim, lock, tries, config>>

Existing(h) ==
    /\ At(h, "existing")
    /\ IF claim.whole
       THEN mem' = [mem EXCEPT ![h].stale = claim.by] /\ Goto(h, "probe")
       ELSE Refuse(h)
    /\ UNCHANGED <<disk, tries, config>>

\* isOwnerAlive(): a live owner is never taken for dead; a dead one may be unknown.
Probe(h, owner, l) ==
    \/ Alive(owner) /\ Refuse(h)
    \/ Refuse(h)
    \/ ~Alive(owner) /\ Goto(h, l) /\ UNCHANGED mem

ProbeOwner(h) ==
    /\ At(h, "probe")
    /\ Probe(h, mem[h].stale, "reclaim")
    /\ UNCHANGED <<disk, tries, config>>

Reclaim(h) ==
    /\ At(h, "reclaim")
    /\ IF reclaim = Nobody THEN reclaim' = h /\ Goto(h, "reread") /\ UNCHANGED mem
       ELSE Refuse(h) /\ UNCHANGED reclaim
    /\ UNCHANGED <<top, index, claim, lock, tries, config>>

SlipReread(h) ==
    /\ At(h, "reread")
    /\ Goto(h, "archive")
    /\ UNCHANGED <<disk, mem, tries, config>>

\* Under the reclaim lock the claim is read and its owner probed again.
Reread(h) ==
    /\ At(h, "reread")
    /\ IF ~claim.whole THEN Refuse(h)
       ELSE IF claim.by # mem[h].stale THEN Refuse(h)
       ELSE Probe(h, claim.by, "archive")
    /\ UNCHANGED <<disk, tries, config>>

\* The claim file, whatever it is by now, is renamed away.
Archive(h) ==
    /\ At(h, "archive")
    /\ claim' = NoClaim
    /\ Goto(h, "create")
    /\ UNCHANGED <<top, index, reclaim, lock, mem, tries, config>>

Unreclaim(h) ==
    /\ At(h, "unreclaim")
    /\ reclaim' = Nobody
    /\ Goto(h, mem[h].next)
    /\ mem' = [mem EXCEPT ![h].next = IF mem[h].next = "unlock" THEN "release" ELSE "idle"]
    /\ UNCHANGED <<top, index, claim, lock, tries, config>>

--------------------------------------------------------------------------------
(* resume(), from the claim.                                                     *)

SlipBegin(h) ==
    /\ At(h, "begin")
    /\ index.state = "ACTIVE"
    /\ mem' = [mem EXCEPT ![h] = Update(@, [index EXCEPT !.attempts = @ + 1])]
    /\ Goto(h, "validate")
    /\ UNCHANGED <<disk, tries, config>>

\* beginRecoveryAttempt().
Begin(h) ==
    /\ At(h, "begin")
    /\ \/ /\ index.state = "ACTIVE" /\ index.attempts < MaxAttempts
          /\ mem' = [mem EXCEPT ![h] = Update(@, [index EXCEPT !.attempts = @ + 1])]
          /\ Goto(h, "validate")
       \/ /\ index.state = "ACTIVE" /\ index.attempts >= MaxAttempts
          /\ mem' = [mem EXCEPT ![h] = Update(Blank, [index EXCEPT !.state = "BLOCKED"])]
          /\ Goto(h, "release")
       \/ /\ index.state # "ACTIVE"
          /\ mem' = [mem EXCEPT ![h] = Blank]
          /\ Goto(h, "release")
    /\ UNCHANGED <<disk, tries, config>>

\* The descriptor is compatible, or the episode is blocked.
Validate(h) ==
    /\ At(h, "validate")
    /\ tries' = IF tries > MaxAttempts THEN tries ELSE tries + 1
    /\ \/ Goto(h, "enter") /\ UNCHANGED mem
       \/ /\ mem' = [mem EXCEPT ![h] = Block(Blank)]
          /\ Goto(h, "release")
    /\ UNCHANGED <<disk, config>>

--------------------------------------------------------------------------------
(* run(), to its first checkpoint.                                               *)

\* run() of resume() returns BLOCKED: resume() blocks the episode once the claim has
\* been released.
RunRefused(h, l) ==
    /\ mem' = [mem EXCEPT ![h] = [@ EXCEPT !.next = "release", !.refused = ~mem[h].fresh]]
    /\ Goto(h, l)

\* The workspace is there, and its lock is free: stealStaleLock is off.
TakeLock(h) ==
    \/ locking /\ lock = Nobody /\ lock' = h
    \/ ~locking /\ UNCHANGED lock

\* A person starts an episode: there is one in this model.
Run(h) ==
    /\ At(h, "idle")
    /\ top.seq = 0
    /\ TakeLock(h)
    /\ mem' = [mem EXCEPT ![h] = [Blank EXCEPT !.fresh = TRUE]]
    /\ Goto(h, "plan")
    /\ UNCHANGED <<top, index, claim, reclaim, tries, config>>

Enter(h) ==
    /\ At(h, "enter")
    /\ \/ TakeLock(h) /\ Goto(h, "plan") /\ UNCHANGED mem
       \/ RunRefused(h, "release") /\ UNCHANGED lock
    /\ UNCHANGED <<top, index, claim, reclaim, tries, config>>

\* The plan is made or restored, a resumed one is verified against the workspace, and
\* the first checkpoint is written. What cannot be verified is written as blocked.
Plan(h) ==
    /\ At(h, "plan")
    /\ Write(h, "ACTIVE", "none", "accept")

PlanRefused(h) ==
    /\ At(h, "plan")
    /\ RunRefused(h, "unlock")
    /\ UNCHANGED <<disk, tries, config>>

VerifyRefused(h) ==
    /\ At(h, "plan") /\ ~mem[h].fresh
    /\ Write(h, "BLOCKED", "none", "refuse")

Refused(h) ==
    /\ At(h, "refuse")
    /\ RunRefused(h, "unlock")
    /\ UNCHANGED <<disk, tries, config>>

\* The newest checkpoint is read back: a new episode claims it, a resumed one has.
Accept(h) ==
    /\ At(h, "accept")
    /\ mem' = [mem EXCEPT ![h].base = IF mem[h].fresh THEN top ELSE NoCheckpoint]
    /\ Goto(h, IF mem[h].fresh THEN "claim" ELSE "execute")
    /\ UNCHANGED <<disk, tries, config>>

--------------------------------------------------------------------------------
(* run(), from there to its report.                                              *)

Step(h) ==
    /\ At(h, "execute")
    /\ Write(h, "ACTIVE", "none", "execute")

\* Cancelled for a restart: the episode stays active. The workspace stays locked.
Preserve(h) ==
    /\ At(h, "execute")
    /\ Write(h, "ACTIVE", "none", "release")

\* A step blocks the episode: the workspace stays locked.
StepBlocks(h) ==
    /\ At(h, "execute")
    /\ Goto(h, "fail")
    /\ UNCHANGED <<disk, mem, tries, config>>

StepsFail(h) ==
    /\ At(h, "execute")
    /\ mem' = [mem EXCEPT ![h].next = "fail"]
    /\ Goto(h, "unlock")
    /\ UNCHANGED <<disk, tries, config>>

\* The work is complete, or was cancelled for good: what it left on other volumes is
\* cleaned up, each entry written with the terminal intent.
Conclude(h) ==
    /\ At(h, "execute")
    /\ \E state \in Terminal : mem' = [mem EXCEPT ![h].goal = state]
    /\ Goto(h, "clean")
    /\ UNCHANGED <<disk, tries, config>>

CleanEntry(h) ==
    /\ At(h, "clean")
    /\ Write(h, "ACTIVE", mem[h].goal, "clean")

\* Only a completed episode gives the workspace back.
Ends(h, l) ==
    /\ IF mem[h].goal = "COMPLETED"
       THEN mem' = [mem EXCEPT ![h].next = l] /\ Goto(h, "unlock")
       ELSE Goto(h, l) /\ UNCHANGED mem
    /\ UNCHANGED <<disk, tries, config>>

Cleaned(h) == At(h, "clean") /\ Ends(h, "close")

CleanupBlocks(h) == (At(h, "clean") \/ At(h, "stuck")) /\ Ends(h, "keep")

Close(h) ==
    /\ At(h, "close")
    /\ Write(h, mem[h].goal, "none", "release")

Keep(h) ==
    /\ At(h, "keep")
    /\ Write(h, "BLOCKED", mem[h].goal, "release")

Fail(h) ==
    /\ At(h, "fail")
    /\ Write(h, "BLOCKED", "none", "release")

\* lock.release(): a lock of somebody else's is left alone.
Unlock(h) ==
    /\ At(h, "unlock")
    /\ lock' = IF lock = h THEN Nobody ELSE lock
    /\ mem' = [mem EXCEPT ![h].next = "idle"]
    /\ Goto(h, mem[h].next)
    /\ UNCHANGED <<top, index, claim, reclaim, tries, config>>

--------------------------------------------------------------------------------
(* The end of the promise, and of resume().                                      *)

\* releaseClaim(): only the owner's own claim is removed.
Release(h) ==
    /\ At(h, "release")
    /\ claim' = IF claim.by = h /\ claim.whole THEN NoClaim ELSE claim
    /\ Goto(h, "released")
    /\ UNCHANGED <<top, index, reclaim, lock, mem, tries, config>>

\* The entry is written back without its owner, when it names this one; then resume()
\* blocks the episode its run() refused.
Released(h) ==
    /\ At(h, "released")
    /\ mem' \in {[mem EXCEPT ![h] = Blank], [mem EXCEPT ![h] = Update(Blank, index)]}
    /\ Goto(h, IF mem[h].refused THEN "block" ELSE "idle")
    /\ UNCHANGED <<disk, tries, config>>

BlockRefused(h) ==
    /\ At(h, "block")
    /\ mem' = [mem EXCEPT ![h] = Block(@)]
    /\ Goto(h, "idle")
    /\ UNCHANGED <<disk, tries, config>>

--------------------------------------------------------------------------------
Shell(h) ==
    \/ Launch(h) \/ Die(h) \/ Save(h) \/ Record(h)
    \/ Look(h) \/ RetryCleanup(h) \/ Refresh(h) \/ RetryEntry(h) \/ RetryEnds(h) \/ RetryFails(h)
    \/ LookAgain(h) \/ Choose(h)
    \/ Claim(h) \/ Create(h) \/ Fill(h) \/ Check(h) \/ Existing(h) \/ ProbeOwner(h)
    \/ Reclaim(h) \/ Reread(h) \/ Archive(h) \/ Unreclaim(h)
    \/ Begin(h) \/ Validate(h) \/ Run(h) \/ Enter(h)
    \/ Plan(h) \/ PlanRefused(h) \/ VerifyRefused(h) \/ Refused(h) \/ Accept(h)
    \/ Step(h) \/ Preserve(h) \/ StepBlocks(h) \/ StepsFail(h)
    \/ Conclude(h) \/ CleanEntry(h) \/ Cleaned(h) \/ CleanupBlocks(h)
    \/ Close(h) \/ Keep(h) \/ Fail(h) \/ Unlock(h)
    \/ Release(h) \/ Released(h) \/ BlockRefused(h)

RecoveryNext == \E h \in Hosts : Shell(h)

RecoverySpec == RecoveryInit /\ [][RecoveryNext]_recoveryVars

--------------------------------------------------------------------------------
(* Correctness.                                                                  *)

\* Whoever resumes or runs the episode owns the claim on disk, whichever shells started,
\* died or looked beside it (recovery-store.cjs:464); so there is one at most. And whoever
\* plans or executes holds the workspace (locking.cjs:118), so there is one at most where
\* a new episode has no claim yet.
OneExecutor ==
    \A h \in Hosts :
      /\ pc[h] \in Entering \cup Executing => claim = [by |-> h, whole |-> TRUE]
      /\ locking /\ pc[h] \in InWorkspace => lock = h

\* A shell that is alone resumes from the newest checkpoint, and never an episode whose
\* work had ended: although its predecessor may have died after it wrote a checkpoint
\* and before it recorded it, or while it cleaned up.
ResumesWhatIsLeft ==
    \A h \in Hosts : pc[h] \in Entering =>
        mem[h].base = top /\ top.state = "ACTIVE" /\ top.intent = "none"

\* Nor does the index make it refuse or block what it could run: when it chooses, claims
\* and runs, the entry is active and about the newest checkpoint, and the claim it finds
\* is not its own. And its recoveries that write no checkpoint are bounded, whatever ends them.
LoneShellIsCurrent ==
    ~overlap => /\ ResumesWhatIsLeft
                /\ \A h \in Hosts :
                     /\ At(h, "choose") => index = mem[h].seen /\ index.seq = top.seq
                     /\ At(h, "claim") \/ At(h, "check") => Current(h)
                     /\ At(h, "begin") \/ At(h, "execute") => index.state = "ACTIVE" /\ index.seq = top.seq
                     /\ pc[h] \in {"probe", "reclaim", "reread"} => mem[h].stale # h
                /\ tries <= MaxAttempts

\* A terminal entry never changes its state, and a blocked one never becomes active.
LifecycleOrder ==
    [][~overlap => /\ index.state \in Terminal => index'.state = index.state
                   /\ index.state = "BLOCKED" => index'.state # "ACTIVE"]_recoveryVars

\* Claimed at supervisor.cjs:1157 ("free again the moment the episode stops, on every
\* path"). A shell that dies or is cancelled keeps it, and every recovery is refused.
LockIsFreed == \A h \in Hosts : lock = h => pc[h] \notin {"idle", "dead"}

\* With shells beside each other LoneShellIsCurrent's promise for a runner fails: a
\* newcomer blocks the entry of an episode whose owner lives (engineering-host.cjs:434).
RunnerIsActive == \A h \in Hosts : At(h, "execute") => index.state = "ACTIVE"

================================================================================
