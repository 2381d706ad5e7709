------------------------- MODULE RestartHandoverProofs -------------------------
(* Why one companion watches: the claim is on file for as long as its owner runs. *)
EXTENDS RestartHandover, TLAPS

Holders == {c \in Comps : pc[c] \in {"clearing", "attaching", "polling", "looking", "stopping",
                                     "waiting", "launching", "readying", "leaving"}}

\* The part of the type that the argument needs.
Typed == comps \in 0..MaxComps /\ pc \in [Comps -> Places] /\ pidFile \in 0..MaxComps

\* While no claim was written over one that was being made, whoever holds a claim is
\* on file, and nobody is about to write over it: the read of a claim backs off from
\* a holder that runs, and the write of a claim finds no other one under way.
HolderOnFile ==
    clean => \A c \in Holders : pidFile = c /\ \A d \in Comps : pc[d] # "claiming"

IInv == Typed /\ HolderOnFile

\* The steps of the application move no companion, but for the one they start.
LEMMA AppSteps ==
    ASSUME HandoverAssumption, IInv,
           Open \/ Quit \/ TrayExit \/ Crash \/ Hang \/ Delegate \/ AppProceeds
    PROVE IInv'
<1>1. CASE EnsureCompanion /\ ~CompanionRuns
  <2>1. /\ comps < MaxComps /\ comps' = comps + 1
        /\ pc' = [pc EXCEPT ![comps + 1] = "started"]
        /\ pidFile' = pidFile /\ clean' = clean
    BY <1>1 DEF EnsureCompanion
  <2>2. comps + 1 \in Comps
    BY <2>1 DEF IInv, Typed, HandoverAssumption, Comps
  <2>3. Typed'
    BY <2>1, <2>2 DEF IInv, Typed, Places, HandoverAssumption, Comps
  <2>4. Holders' \subseteq Holders
    BY <2>1 DEF IInv, Typed, Holders, Places
  <2>5. \A d \in Comps : pc'[d] = "claiming" => pc[d] = "claiming"
    BY <2>1 DEF IInv, Typed
  <2> QED
    BY <2>1, <2>3, <2>4, <2>5 DEF IInv, HolderOnFile
<1>2. CASE ~(EnsureCompanion /\ ~CompanionRuns)
  <2>1. UNCHANGED <<comps, pc, pidFile, clean>>
    BY <1>2 DEF Open, Quit, TrayExit, Crash, Hang, Delegate, AppProceeds, EnsureCompanion,
                ObeyStopRequest, Leave, fileVars, watchVars
  <2> QED
    BY <2>1 DEF IInv, Typed, HolderOnFile, Holders
<1> QED
  BY <1>1, <1>2

\* A step that only moves its companion on, from one place where it holds the claim to
\* another, changes no holder.
LEMMA HolderMoves ==
    ASSUME IInv, NEW c \in Comps, c \in Holders, NEW to \in Places, to # "claiming",
           pc' = [pc EXCEPT ![c] = to],
           UNCHANGED <<comps, pidFile, clean>>
    PROVE IInv'
<1>1. Typed'
  BY DEF IInv, Typed
<1>2. Holders' \subseteq Holders
  BY DEF IInv, Typed, Holders
<1>3. \A d \in Comps : pc'[d] = "claiming" => pc[d] = "claiming"
  BY DEF IInv, Typed
<1> QED
  BY <1>1, <1>2, <1>3 DEF IInv, HolderOnFile

\* The steps of a companion, one by one.
LEMMA CompanionSteps ==
    ASSUME HandoverAssumption, IInv, NEW c \in Comps, Proceed(c) \/ Dies(c)
    PROVE IInv'
<1>1. CASE ClaimRead(c)
  <2>1. /\ pc[c] = "started" /\ UNCHANGED <<comps, pidFile, clean>>
        /\ pc' = [pc EXCEPT ![c] = IF pidFile # 0 /\ Running(pidFile) THEN "gone" ELSE "claiming"]
    BY <1>1 DEF ClaimRead, GoTo, fileVars
  <2>2. Typed'
    BY <2>1 DEF IInv, Typed, Places
  <2>3. Holders' = Holders
    BY <2>1 DEF IInv, Typed, Holders
  <2>4. ASSUME clean, NEW h \in Holders
        PROVE pidFile # 0 /\ Running(pidFile)
    BY <2>4 DEF IInv, Typed, HolderOnFile, Holders, Running, Comps
  <2>5. ASSUME clean, NEW h \in Holders
        PROVE \A d \in Comps : pc'[d] # "claiming"
    BY <2>1, <2>4, <2>5 DEF IInv, Typed, HolderOnFile
  <2> QED
    BY <2>1, <2>2, <2>3, <2>5 DEF IInv, HolderOnFile
<1>2. CASE ClaimWrite(c)
  <2>1. /\ pc[c] = "claiming" /\ pc' = [pc EXCEPT ![c] = "clearing"]
        /\ pidFile' = c /\ UNCHANGED comps
        /\ clean' = (clean /\ \A d \in Comps \ {c} : pc[d] \notin {"claiming", "clearing"})
    BY <1>2 DEF ClaimWrite, GoTo
  <2>2. Typed'
    BY <2>1 DEF IInv, Typed, Places, Comps
  <2>3. ASSUME clean' PROVE Holders' \subseteq {c}
    BY <2>1, <2>3 DEF IInv, Typed, HolderOnFile, Holders
  <2>4. ASSUME clean' PROVE \A d \in Comps : pc'[d] # "claiming"
    BY <2>1, <2>4 DEF IInv, Typed
  <2> QED
    BY <2>1, <2>2, <2>3, <2>4 DEF IInv, HolderOnFile
<1>3. CASE Release(c)
  <2>1. /\ pc[c] = "leaving" /\ pc' = [pc EXCEPT ![c] = "gone"]
        /\ pidFile' = (IF pidFile = c THEN 0 ELSE pidFile) /\ UNCHANGED <<comps, clean>>
    BY <1>3 DEF Release, GoTo
  <2>2. Typed'
    BY <2>1 DEF IInv, Typed, Places, Comps
  <2>3. clean => Holders' = {}
    BY <2>1 DEF IInv, Typed, HolderOnFile, Holders
  <2> QED
    BY <2>1, <2>2, <2>3 DEF IInv, HolderOnFile
<1>4. CASE Dies(c)
  <2>1. pc' = [pc EXCEPT ![c] = "gone"] /\ UNCHANGED <<comps, pidFile, clean>>
    BY <1>4 DEF Dies, fileVars
  <2>2. Typed'
    BY <2>1 DEF IInv, Typed, Places
  <2>3. Holders' \subseteq Holders /\ \A d \in Comps : pc'[d] = "claiming" => pc[d] = "claiming"
    BY <2>1 DEF IInv, Typed, Holders
  <2> QED
    BY <2>1, <2>2, <2>3 DEF IInv, HolderOnFile
<1>5. CASE \/ ClaimClear(c) \/ Attach(c) \/ Poll(c) \/ LookAway(c) \/ Restart(c)
           \/ AskToLeave(c) \/ Left(c) \/ Terminate(c) \/ TerminateFails(c)
           \/ Launch(c) \/ LaunchFails(c) \/ RestartEnds(c)
  <2>1. c \in Holders /\ UNCHANGED <<comps, pidFile, clean>>
    BY <1>5 DEF ClaimClear, Attach, Poll, LookAway, Restart, AskToLeave, Left, Terminate,
                TerminateFails, Launch, LaunchFails, RestartEnds, Outcome, GoTo, Holders, fileVars
  <2>2. PICK to \in Places : to # "claiming" /\ pc' = [pc EXCEPT ![c] = to]
    BY <1>5 DEF ClaimClear, Attach, Poll, LookAway, Restart, AskToLeave, Left, Terminate,
                TerminateFails, Launch, LaunchFails, RestartEnds, GoTo, Places
  <2> QED
    BY <2>1, <2>2, HolderMoves
<1> QED
  BY <1>1, <1>2, <1>3, <1>4, <1>5 DEF Proceed

\* One companion watches, whatever crashes, quits and reopens, as long as no claim was
\* written over one that was being made: claim() and release() need no lock of their
\* own against anything but two claims at once.
THEOREM OneSupervisor == ASSUME HandoverAssumption PROVE Spec => []CleanMeansOneWatcher
<1>1. Init => IInv
  BY HandoverAssumption DEF Init, IInv, Typed, HolderOnFile, Holders, Places, Comps, HandoverAssumption
<1>2. IInv /\ [Next]_vars => IInv'
  <2> SUFFICES ASSUME IInv, [Next]_vars PROVE IInv'
    OBVIOUS
  <2>1. CASE UNCHANGED vars
    BY <2>1 DEF vars, fileVars, IInv, Typed, HolderOnFile, Holders
  <2> QED
    BY <2>1, AppSteps, CompanionSteps, HandoverAssumption DEF Next
<1>3. IInv => CleanMeansOneWatcher
  <2>1. Watching \subseteq Holders
    BY DEF Watching, Holders
  <2> QED
    BY <2>1 DEF IInv, HolderOnFile, CleanMeansOneWatcher, OneWatcher
<1> QED
  BY <1>1, <1>2, <1>3, PTL DEF Spec

-------------------------------------------------------------------------------
(* The types, in the three groups that different steps disturb.                  *)

\* The application, and the pids that others keep of it.
AppTyped ==
    /\ apps \in 0..MaxApps /\ app \in 0..apps
    /\ life \in Lives /\ (app = 0 <=> life = "off")
    /\ target \in [Comps -> 0..apps]
    /\ request \in 0..apps

\* The companions, and what they do.
CompTyped ==
    /\ comps \in 0..MaxComps /\ pidFile \in 0..comps
    /\ pc \in [Comps -> Places]
    /\ \A c \in Comps : c > comps <=> pc[c] = "none"
    /\ attached \subseteq Comps
    /\ serving \subseteq {c \in Comps : pc[c] \in {"stopping", "waiting", "launching", "readying"}}

\* The flags.
FlagTyped ==
    /\ stopFile \in BOOLEAN /\ asked \in BOOLEAN /\ clean \in BOOLEAN
    /\ closed \in {"no", "exit", "quit", "quiet quit"}

\* The type invariant is the three groups together.
LEMMA TypeGroups == TypeOK <=> AppTyped /\ CompTyped /\ FlagTyped
<1>1. TypeOK => AppTyped /\ CompTyped /\ FlagTyped
  BY DEF TypeOK, AppTyped, CompTyped, FlagTyped
<1>2. AppTyped /\ CompTyped /\ FlagTyped => TypeOK
  BY DEF TypeOK, AppTyped, CompTyped, FlagTyped
<1> QED
  BY <1>1, <1>2

\* A live companion is one that was started.
LEMMA StartedComps ==
    ASSUME HandoverAssumption, CompTyped, NEW c \in Comps, pc[c] # "none"
    PROVE c \in 1..comps
<1>1. c <= comps
  BY DEF CompTyped, Comps, HandoverAssumption
<1> QED
  BY <1>1 DEF CompTyped, Comps, HandoverAssumption

\* The application's own steps keep the groups.
LEMMA AppTypes ==
    ASSUME HandoverAssumption, AppTyped, CompTyped, FlagTyped,
           Open \/ Quit \/ TrayExit \/ Crash \/ Hang \/ Delegate \/ AppProceeds
    PROVE AppTyped' /\ CompTyped' /\ FlagTyped'
<1>1. AppTyped'
  <2>1. CASE Open
    <3>1. apps + 1 \in 1..MaxApps
      BY <2>1 DEF Open, AppTyped, HandoverAssumption
    <3>2. apps' = apps + 1 /\ app' = apps + 1 /\ life' = "booting" /\ target' = target /\ request' = request
      BY <2>1 DEF Open, Begin, watchVars, fileVars
    <3>3. 0..apps \subseteq 0..(apps + 1) /\ apps + 1 \in 0..(apps + 1) /\ apps + 1 # 0
      BY DEF AppTyped, HandoverAssumption
    <3> QED
      BY <3>1, <3>2, <3>3 DEF AppTyped, Lives
  <2>2. CASE EnsureCompanion
    <3>1. apps' = apps /\ app' = app /\ life' = "up" /\ life = "booting" /\ request' = request
      BY <2>2 DEF EnsureCompanion, Lives2
    <3>2. target' \in [Comps -> 0..apps]
      BY <2>2 DEF EnsureCompanion, AppTyped
    <3> QED
      BY <3>1, <3>2 DEF AppTyped, Lives
  <2>3. CASE Quit \/ TrayExit \/ Hang \/ ObeyStopRequest
    <3>1. /\ apps' = apps /\ app' = app /\ target' = target
          /\ life # "off" /\ life' \in Lives \ {"off"}
          /\ request' \in {request, 0}
      BY <2>3 DEF Quit, TrayExit, Hang, ObeyStopRequest, Lives2, Lives, watchVars, fileVars
    <3>2. 0 \in 0..apps
      BY DEF AppTyped, HandoverAssumption
    <3> QED
      BY <3>1, <3>2 DEF AppTyped, Lives
  <2>4. CASE Crash \/ Leave
    <3>1. apps' = apps /\ app' = 0 /\ target' = target /\ life' = "off" /\ request' = request
      BY <2>4 DEF Crash, Leave, Ends, watchVars, fileVars
    <3>2. 0 \in 0..apps
      BY DEF AppTyped, HandoverAssumption
    <3> QED
      BY <3>1, <3>2 DEF AppTyped, Lives
  <2>5. CASE Delegate
    BY <2>5 DEF Delegate, AppTyped, appVars, watchVars
  <2> QED
    BY <2>1, <2>2, <2>3, <2>4, <2>5 DEF AppProceeds
<1>2. CompTyped'
  <2>1. CASE EnsureCompanion /\ ~CompanionRuns
    <3>1. /\ comps + 1 \in Comps /\ comps' = comps + 1 /\ comps' \in 0..MaxComps
          /\ 0..comps \subseteq 0..(comps + 1)
      BY <2>1 DEF EnsureCompanion, CompTyped, HandoverAssumption, Comps
    <3>2. /\ pc' = [pc EXCEPT ![comps + 1] = "started"] /\ pidFile' = pidFile
          /\ attached' = attached /\ serving' = serving
      BY <2>1 DEF EnsureCompanion
    <3>3. pc[comps + 1] = "none"
      BY <3>1 DEF CompTyped, HandoverAssumption
    <3>4. \A c \in Comps : c > comps + 1 <=> pc'[c] = "none"
      <4> SUFFICES ASSUME NEW c \in Comps PROVE c > comps + 1 <=> pc'[c] = "none"
        OBVIOUS
      <4>1. CASE c = comps + 1
        BY <3>1, <3>2, <4>1 DEF CompTyped, HandoverAssumption
      <4>2. CASE c # comps + 1
        <5>1. pc'[c] = pc[c]
          BY <3>2, <4>2 DEF CompTyped
        <5>2. c > comps + 1 <=> c > comps
          BY <4>2 DEF CompTyped, HandoverAssumption, Comps
        <5> QED
          BY <5>1, <5>2 DEF CompTyped
      <4> QED
        BY <4>1, <4>2
    <3>5. serving \subseteq {c \in Comps : pc'[c] \in {"stopping", "waiting", "launching", "readying"}}
      BY <3>1, <3>2, <3>3 DEF CompTyped
    <3> QED
      BY <3>1, <3>2, <3>4, <3>5 DEF CompTyped, Places
  <2>2. CASE ~(EnsureCompanion /\ ~CompanionRuns)
    <3>1. UNCHANGED <<comps, pc, pidFile, attached, serving>>
      BY <2>2 DEF Open, Quit, TrayExit, Crash, Hang, Delegate, AppProceeds, EnsureCompanion,
                  ObeyStopRequest, Leave, fileVars, watchVars
    <3> QED
      BY <3>1 DEF CompTyped
  <2> QED
    BY <2>1, <2>2
<1>3. FlagTyped'
  BY DEF FlagTyped, Open, Quit, TrayExit, Crash, Hang, Delegate, AppProceeds, EnsureCompanion,
         ObeyStopRequest, Leave, fileVars
<1> QED
  BY <1>1, <1>2, <1>3

\* A companion's steps keep the groups.
LEMMA CompanionTypes ==
    ASSUME HandoverAssumption, AppTyped, CompTyped, FlagTyped, NEW c \in Comps,
           Proceed(c) \/ Dies(c)
    PROVE AppTyped' /\ CompTyped' /\ FlagTyped'
<1>1. AppTyped'
  <2>0. 0 \in 0..apps /\ apps \in 0..apps
    BY DEF AppTyped, HandoverAssumption
  <2>1. CASE Launch(c)
    <3>1. apps + 1 \in 1..MaxApps
      BY <2>1 DEF Launch, AppTyped, HandoverAssumption
    <3>2. /\ apps' = apps + 1 /\ request' = request
          /\ \/ app = 0 /\ app' = apps + 1 /\ life' = "booting"
             \/ app # 0 /\ app' = app /\ life' = life
          /\ target' = [target EXCEPT ![c] = apps + 1]
      BY <2>1 DEF Launch, Begin, fileVars
    <3>3. 0..apps \subseteq 0..(apps + 1) /\ apps + 1 \in 0..(apps + 1) /\ apps + 1 # 0
      BY DEF AppTyped, HandoverAssumption
    <3>4. target' \in [Comps -> 0..(apps + 1)]
      BY <3>2, <3>3 DEF AppTyped
    <3>5. app' \in 0..(apps + 1) /\ request \in 0..(apps + 1)
      BY <3>2, <3>3 DEF AppTyped
    <3>6. life' \in Lives /\ (app' = 0 <=> life' = "off")
      BY <3>2, <3>3 DEF AppTyped, Lives
    <3>7. apps' \in 0..MaxApps
      BY <3>1, <3>2 DEF HandoverAssumption
    <3> QED
      BY <3>2, <3>4, <3>5, <3>6, <3>7 DEF AppTyped
  <2>2. CASE Terminate(c)
    <3>1. apps' = apps /\ app' = 0 /\ life' = "off" /\ request' = request
          /\ target' = [target EXCEPT ![c] = 0]
      BY <2>2 DEF Terminate, Ends, fileVars
    <3> QED
      BY <2>0, <3>1 DEF AppTyped, Lives
  <2>3. CASE ~Launch(c) /\ ~Terminate(c)
    <3>1. UNCHANGED appVars
      BY <2>3 DEF Proceed, ClaimRead, ClaimWrite, ClaimClear, Attach, Poll, LookAway, Restart,
                  AskToLeave, Left, TerminateFails, LaunchFails, RestartEnds, Release, Dies
    <3>2. target' = target \/ target' = [target EXCEPT ![c] = 0]
      BY <2>3 DEF Proceed, ClaimRead, ClaimWrite, ClaimClear, Attach, Poll, LookAway, Restart,
                  AskToLeave, Left, TerminateFails, LaunchFails, RestartEnds, Release, Dies, watchVars
    <3>3. request' = request \/ request' = apps
      BY <2>3 DEF Proceed, ClaimRead, ClaimWrite, ClaimClear, Attach, Poll, LookAway, Restart,
                  AskToLeave, Left, TerminateFails, LaunchFails, RestartEnds, Release, Dies,
                  Outcome, fileVars
    <3> QED
      BY <2>0, <3>1, <3>2, <3>3 DEF AppTyped, appVars
  <2> QED
    BY <2>1, <2>2, <2>3
<1>2. CompTyped'
  <2>1. comps' = comps
    BY DEF Proceed, ClaimRead, ClaimWrite, ClaimClear, Attach, Poll, LookAway, Restart, AskToLeave,
           Left, Terminate, TerminateFails, Launch, LaunchFails, RestartEnds, Release, Dies
  <2>2. PICK to \in Places \ {"none"} : pc' = [pc EXCEPT ![c] = to]
    BY DEF Proceed, ClaimRead, ClaimWrite, ClaimClear, Attach, Poll, LookAway, Restart, AskToLeave,
           Left, Terminate, TerminateFails, Launch, LaunchFails, RestartEnds, Release, Dies, GoTo, Places
  <2>3. pc[c] # "none"
    BY DEF Proceed, ClaimRead, ClaimWrite, ClaimClear, Attach, Poll, LookAway, Restart, AskToLeave,
           Left, Terminate, TerminateFails, Launch, LaunchFails, RestartEnds, Release, Dies, GoTo, Running
  <2>4. pc' \in [Comps -> Places] /\ \A d \in Comps : d > comps' <=> pc'[d] = "none"
    <3>1. pc' \in [Comps -> Places]
      BY <2>2 DEF CompTyped
    <3>2. \A d \in Comps : pc'[d] = "none" <=> pc[d] = "none"
      BY <2>2, <2>3 DEF CompTyped
    <3> QED
      BY <2>1, <3>1, <3>2 DEF CompTyped
  <2>5. pidFile' \in 0..comps
    <3>1. c \in 0..comps /\ 0 \in 0..comps
      BY <2>3, StartedComps DEF CompTyped, HandoverAssumption
    <3>2. pidFile' \in {pidFile, c, 0}
      BY DEF Proceed, ClaimRead, ClaimWrite, ClaimClear, Attach, Poll, LookAway, Restart, AskToLeave,
             Left, Terminate, TerminateFails, Launch, LaunchFails, RestartEnds, Release, Dies,
             Outcome, fileVars
    <3> QED
      BY <3>1, <3>2 DEF CompTyped
  <2>6. attached' \subseteq Comps
    <3>1. attached' \subseteq attached \cup {c}
      BY DEF Proceed, ClaimRead, ClaimWrite, ClaimClear, Attach, Poll, LookAway, Restart, AskToLeave,
             Left, Terminate, TerminateFails, Launch, LaunchFails, RestartEnds, Release, Dies, watchVars
    <3> QED
      BY <3>1 DEF CompTyped
  <2>7. serving' \subseteq {d \in Comps : pc'[d] \in {"stopping", "waiting", "launching", "readying"}}
    <3>1. CASE c \notin serving'
      <4>1. serving' \subseteq serving \ {c}
        BY <3>1 DEF Proceed, ClaimRead, ClaimWrite, ClaimClear, Attach, Poll, LookAway, Restart,
               AskToLeave, Left, Terminate, TerminateFails, Launch, LaunchFails, RestartEnds,
               Release, Dies, Outcome, watchVars
      <4> QED
        BY <2>2, <4>1 DEF CompTyped
    <3>2. CASE c \in serving'
      <4>1. pc'[c] \in {"stopping", "waiting", "launching", "readying"}
        BY <3>2 DEF CompTyped, Places, Proceed, ClaimRead, ClaimWrite, ClaimClear, Attach, Poll,
               LookAway, Restart, AskToLeave, Left, Terminate, TerminateFails, Launch, LaunchFails,
               RestartEnds, Release, Dies, Outcome, GoTo, watchVars
      <4>2. serving' \subseteq serving \cup {c}
        BY DEF Proceed, ClaimRead, ClaimWrite, ClaimClear, Attach, Poll, LookAway, Restart,
               AskToLeave, Left, Terminate, TerminateFails, Launch, LaunchFails, RestartEnds,
               Release, Dies, Outcome, watchVars
      <4> QED
        BY <2>2, <4>1, <4>2 DEF CompTyped
    <3> QED
      BY <3>1, <3>2
  <2> QED
    BY <2>1, <2>4, <2>5, <2>6, <2>7 DEF CompTyped
<1>3. FlagTyped'
  BY DEF FlagTyped, Proceed, ClaimRead, ClaimWrite, ClaimClear, Attach, Poll, LookAway, Restart,
         AskToLeave, Left, Terminate, TerminateFails, Launch, LaunchFails, RestartEnds, Release, Dies,
         Unserved, Outcome, fileVars
<1> QED
  BY <1>1, <1>2, <1>3

\* Every variable keeps its type: in particular every pid that is kept, on file or in a
\* companion's memory, is one that was given out.
THEOREM TypeCorrect == ASSUME HandoverAssumption PROVE Spec => []TypeOK
<1>1. Init => TypeOK
  <2>1. 0 \in 0..MaxApps /\ 0 \in 0..MaxComps /\ 0 \in 0..0 /\ \A c \in Comps : c > 0
    BY HandoverAssumption DEF HandoverAssumption, Comps
  <2> QED
    BY <2>1 DEF Init, TypeOK, Lives, Places
<1>2. TypeOK /\ [Next]_vars => TypeOK'
  <2> SUFFICES ASSUME AppTyped, CompTyped, FlagTyped, [Next]_vars
               PROVE  AppTyped' /\ CompTyped' /\ FlagTyped'
    BY TypeGroups DEF TypeOK, AppTyped, CompTyped, FlagTyped
  <2>1. CASE UNCHANGED vars
    BY <2>1 DEF vars, appVars, watchVars, fileVars, AppTyped, CompTyped, FlagTyped
  <2> QED
    BY <2>1, AppTypes, CompanionTypes, HandoverAssumption DEF Next
<1> QED
  BY <1>1, <1>2, PTL DEF Spec

-------------------------------------------------------------------------------
(* Why a quiet quit is final: the note is on disk before the application is gone, *)
(* nobody is about to look away from it, and nobody who could remove it is left.  *)

QuitIsNoted ==
    closed = "quiet quit" =>
        /\ stopFile
        /\ life \in {"leaving", "off"}
        /\ \A c \in Comps : pc[c] \in {"none", "polling", "leaving", "gone"}

\* A companion's step after a quiet quit: it reads the note and leaves, or dies.
LEMMA QuietSteps ==
    ASSUME CompTyped, QuitIsNoted, NEW c \in Comps, Proceed(c) \/ Dies(c)
    PROVE QuitIsNoted' /\ (Launch(c) => closed # "quiet quit")
<1>1. closed' = closed
  BY DEF Proceed, ClaimRead, ClaimWrite, ClaimClear, Attach, Poll, LookAway, Restart, AskToLeave,
         Left, Terminate, TerminateFails, Launch, LaunchFails, RestartEnds, Release, Dies
<1>2. CASE closed # "quiet quit"
  BY <1>1, <1>2 DEF QuitIsNoted
<1>3. CASE closed = "quiet quit"
  <2>1. Poll(c) \/ Release(c) \/ Dies(c)
    BY <1>3 DEF QuitIsNoted, Proceed, ClaimRead, ClaimWrite, ClaimClear, Attach, LookAway, Restart,
                AskToLeave, Left, Terminate, TerminateFails, Launch, LaunchFails, RestartEnds, GoTo
  <2>2. UNCHANGED <<life, stopFile>>
    BY <2>1 DEF Poll, Release, Dies, appVars, fileVars
  <2>3. \A d \in Comps : pc'[d] \in {"none", "polling", "leaving", "gone"}
    BY <1>3, <2>1 DEF QuitIsNoted, CompTyped, Poll, Release, Dies, GoTo
  <2>4. ~Launch(c)
    BY <1>3 DEF QuitIsNoted, Launch, GoTo
  <2> QED
    BY <1>1, <2>2, <2>3, <2>4 DEF QuitIsNoted
<1> QED
  BY <1>2, <1>3

\* A quit that finds every companion between two passes is final: no companion launches
\* the application until a person opens it, whichever companions die meanwhile.
THEOREM QuitStays == ASSUME HandoverAssumption PROVE Spec => QuietQuitHolds
<1>1. Init => QuitIsNoted
  BY DEF Init, QuitIsNoted
<1>2. TypeOK /\ QuitIsNoted /\ [Next]_vars =>
        QuitIsNoted' /\ [\A c \in Comps : Launch(c) => closed # "quiet quit"]_vars
  <2> SUFFICES ASSUME CompTyped, QuitIsNoted, [Next]_vars
               PROVE  QuitIsNoted' /\ [\A c \in Comps : Launch(c) => closed # "quiet quit"]_vars
    BY TypeGroups
  <2>1. CASE UNCHANGED vars
    BY <2>1 DEF vars, appVars, fileVars, QuitIsNoted
  <2>2. CASE Open \/ Quit \/ TrayExit \/ Crash \/ Hang \/ Delegate \/ AppProceeds
    <3>1. QuitIsNoted'
      BY <2>2 DEF QuitIsNoted, Open, Quit, TrayExit, Crash, Hang, Delegate, AppProceeds,
                  EnsureCompanion, ObeyStopRequest, Leave, Lives2, Ends, appVars, fileVars
    <3>2. \A c \in Comps : Launch(c) => closed # "quiet quit"
      BY DEF QuitIsNoted, Launch, GoTo
    <3> QED
      BY <3>1, <3>2
  <2>3. CASE \E c \in Comps : Proceed(c) \/ Dies(c)
    <3>1. QuitIsNoted'
      BY <2>3, QuietSteps
    <3>2. \A c \in Comps : Launch(c) => closed # "quiet quit"
      BY DEF QuitIsNoted, Launch, GoTo
    <3> QED
      BY <3>1, <3>2
  <2> QED
    BY <2>1, <2>2, <2>3 DEF Next
<1> QED
  BY <1>1, <1>2, TypeCorrect, HandoverAssumption, PTL DEF Spec, QuietQuitHolds

================================================================================
