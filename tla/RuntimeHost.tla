------------------------------ MODULE RuntimeHost ------------------------------
(* The Runtime Host of one instance, the Harness processes it owns, and the       *)
(* clients that find, start, attach to and stop a host: serve of app/runtime/     *)
(* runtime.cjs, host.cjs, harness-service.cjs, client.cjs, resolveInstance() of   *)
(* instance.cjs, and the harness record of app/runtime-process.cjs.               *)
(*                                                                                *)
(* Hosts, Harnesses and clients are processes. A host's turn, from one await to   *)
(* the next, is one step; two calls of harness.start may be in flight in one      *)
(* host. Pids are not handed out again. The record of the host itself is left     *)
(* out: nothing but a status line reads it.                                       *)
EXTENDS Integers

CONSTANTS
    MaxHosts,     \* bound of the model: how many hosts are spawned
    MaxKids,      \* bound of the model: how many Harnesses are spawned
    Clients,      \* the shells and command lines of the instance
    MaxOpens,     \* bound of the model: how often a client is opened
    MaxFaults     \* bound of the model: deaths, stops and probes that time out

ASSUME RuntimeAssumption ==
    MaxHosts \in Nat /\ MaxKids \in Nat /\ MaxOpens \in Nat /\ MaxFaults \in Nat

VARIABLES
    bound,     \* the hosts that a connection to the instance's endpoint may reach
    owned,     \* dsh-process.json: childPid; parentPid is the host that spawned it
    saved,     \* instance.json: harnessPort
    host,      \* each host: where it is, its port, and its service's child and childPid
    call,      \* the calls of harness.start in each host
    kid,       \* the Harness processes
    client,    \* the clients: where they are, the port they resolved, the host they reached
    posix,     \* the endpoint is a socket file; otherwise a named pipe
    opens, faults,
    alone,     \* auxiliary: no host was bound while another one was
    orderly    \* auxiliary: no harness.start overlapped another, or the end of a stopped Harness

recordVars == <<owned, saved>>
tallyVars == <<opens, faults>>
auxVars == <<alone, orderly>>
runtimeVars == <<bound, recordVars, host, call, kid, client, posix, tallyVars, auxVars>>

Hosts == 1..MaxHosts
Kids == 1..MaxKids
Calls == 1..2
Ports == 1..(MaxKids + 1)
None == 0

Serving == {"up", "draining"}
Waits == {"probing", "killing", "port wait", "killing again"}
Untold == {"starting", "listening"}

RuntimeTypeOK ==
    /\ bound \subseteq {h \in Hosts : host[h].at \in Serving}
    /\ owned \in Kids \cup {None}
    /\ saved \in Ports
    /\ host \in [Hosts -> [at : {"none", "check", "bind", "gone"} \cup Serving, port : Ports,
                           child : Kids \cup {None}, pid : Kids \cup {None}]]
    /\ call \in [Hosts -> [Calls -> {"idle"} \cup Waits]]
    /\ kid \in [Kids -> [run : {"none", "ending", "ended", "reaped"} \cup Untold,
                         of : Hosts \cup {None}, port : Ports]]
    /\ client \in [Clients -> [at : {"off", "resolve", "probe", "wait", "connect", "attached", "retry"},
                               port : Ports, to : Hosts \cup {None}]]
    /\ posix \in BOOLEAN /\ alone \in BOOLEAN /\ orderly \in BOOLEAN
    /\ opens \in 0..MaxOpens /\ faults \in 0..MaxFaults

NoHost == [at |-> "none", port |-> 1, child |-> None, pid |-> None]
NoCalls == [c \in Calls |-> "idle"]

RuntimeInit ==
    /\ bound = {} /\ owned = None /\ saved = 1
    /\ host = [h \in Hosts |-> NoHost]
    /\ call = [h \in Hosts |-> NoCalls]
    /\ kid = [k \in Kids |-> [run |-> "none", of |-> None, port |-> 1]]
    /\ client = [c \in Clients |-> [at |-> "off", port |-> 1, to |-> None]]
    /\ posix \in BOOLEAN
    /\ opens = 0 /\ faults = 0 /\ alone = TRUE /\ orderly = TRUE

Fault == faults < MaxFaults /\ faults' = faults + 1

--------------------------------------------------------------------------------
(* Processes and ports.                                                          *)

\* processExists() of a host, and of a Harness that may be recovered.
HostLives(h) == host[h].at \notin {"none", "gone"}
KidLives(k) == kid[k].run \in Untold \/ (posix /\ kid[k].run = "ending")

\* What a probe of port p may find: a Harness that was told to stop may have closed it.
Answers(p) ==
    IF \E k \in Kids : kid[k].run = "listening" /\ kid[k].port = p THEN {TRUE}
    ELSE IF posix /\ \E k \in Kids : kid[k].run = "ending" /\ kid[k].port = p THEN BOOLEAN
    ELSE {FALSE}

\* canConnect() of the endpoint; a bound one may not answer in time.
Finds(answer) ==
    \/ answer = (bound # {}) /\ UNCHANGED faults
    \/ ~answer /\ bound # {} /\ Fault

\* killTree(): a signal asks a Harness to end; taskkill /F ends it, so that nothing
\* finds it there any more.
Ending(k) == [kid EXCEPT ![k].run = "ending"]

\* The Harness binds its port, or exits when it cannot.
Listen(k) ==
    /\ kid[k].run = "starting"
    /\ kid' = [kid EXCEPT ![k].run = IF TRUE \in Answers(kid[k].port) THEN "ended" ELSE "listening"]
    /\ UNCHANGED <<bound, recordVars, host, call, client, posix, tallyVars, auxVars>>

KidEnds(k) ==
    /\ \/ kid[k].run = "ending" /\ UNCHANGED faults
       \/ kid[k].run \in Untold /\ Fault
    /\ kid' = [kid EXCEPT ![k].run = "ended"]
    /\ UNCHANGED <<bound, recordVars, host, call, client, posix, opens, auxVars>>

--------------------------------------------------------------------------------
(* The harness service of a host.                                                *)

\* clearOwnership() with a pid: a record of another child is left alone.
Cleared(pid) == IF owned = pid THEN None ELSE owned

\* The exit event of a child. Its handler names no child of its own: it clears the
\* record of childPid and sets child to null, whichever those are by now.
ExitEvent(k) ==
    LET h == kid[k].of IN
    /\ kid[k].run = "ended" /\ host[h].at \in Serving
    /\ kid' = [kid EXCEPT ![k].run = "reaped"]
    /\ owned' = Cleared(host[h].pid)
    /\ host' = [host EXCEPT ![h].child = None]
    /\ UNCHANGED <<bound, saved, call, client, posix, tallyVars, auxVars>>

\* stop(): the child is told to end, its record is cleared, and it is forgotten.
Stopped(h) ==
    LET k == host[h].child IN
    /\ kid' = IF k # None /\ KidLives(k) THEN Ending(k) ELSE kid
    /\ owned' = Cleared(host[h].pid)

\* start(), with what recovery left of the record.
Spawn(h, record) ==
    \/ /\ host[h].child # None
       /\ owned' = record
       /\ UNCHANGED <<kid, host>>
    \/ /\ host[h].child = None
       /\ \E k \in Kids :
            /\ kid[k].run = "none" /\ \A j \in Kids : j < k => kid[j].run # "none"
            /\ kid' = [kid EXCEPT ![k] = [run |-> "starting", of |-> h, port |-> host[h].port]]
            /\ host' = [host EXCEPT ![h].child = k, ![h].pid = k]
            /\ owned' = k

--------------------------------------------------------------------------------
(* harness.start and harness.stop.                                               *)

\* Mutant of OwnerLives: the owner on record is not looked at.
SlipOwnerLives(h) == owned # None /\ kid[owned].of = h

OwnerLives(h) == owned # None /\ HostLives(kid[owned].of)

\* recoverOwnedStale(): a record whose owner lives is left; a Harness that outlived its
\* owner is killed, and its record cleared 300 ms later; a dead one's at once.
Orphaned(h) == owned # None /\ ~OwnerLives(h) /\ KidLives(owned)
Kept(h) == IF OwnerLives(h) THEN owned ELSE None

Goto(h, c, place) == call' = [call EXCEPT ![h][c] = place]

\* recoverOwnedStale() and start(), in one turn when there is nothing to kill.
RecoverAndSpawn(h, c) ==
    \/ /\ Orphaned(h)
       /\ kid' = Ending(owned)
       /\ Goto(h, c, "killing again")
       /\ UNCHANGED <<owned, host>>
    \/ /\ ~Orphaned(h)
       /\ Spawn(h, Kept(h))
       /\ Goto(h, c, "idle")

Asked(h) ==
    host[h].at \in Serving /\ \E c \in Clients : client[c].at = "attached" /\ client[c].to = h

\* A service that runs its child answers at once.
HarnessStart(h, c) ==
    /\ Asked(h) /\ call[h][c] = "idle"
    /\ host[h].child = None
    /\ Goto(h, c, "probing")
    /\ orderly' = (orderly /\ call[h] = NoCalls /\ \A k \in Kids : kid[k].of = h => kid[k].run = "reaped")
    /\ UNCHANGED <<bound, recordVars, host, kid, client, posix, tallyVars, alone>>

\* The port answers: a listener without a record is a stranger's, one whose owner is
\* another live host is that host's, and both are reported; an orphan is recovered.
PortAnswers(h, c) ==
    /\ call[h][c] = "probing" /\ TRUE \in Answers(host[h].port)
    /\ \/ /\ owned = None \/ (OwnerLives(h) /\ kid[owned].of # h)
          /\ Goto(h, c, "idle")
          /\ UNCHANGED <<owned, kid>>
       \/ /\ owned # None /\ (OwnerLives(h) => kid[owned].of = h)
          /\ IF Orphaned(h) THEN kid' = Ending(owned) /\ UNCHANGED owned
                            ELSE owned' = Kept(h) /\ UNCHANGED kid
          /\ Goto(h, c, IF Orphaned(h) THEN "killing" ELSE "port wait")
    /\ UNCHANGED <<bound, saved, host, client, posix, tallyVars, auxVars>>

\* Mutant of PortIsFree: a Harness on record is not looked for when the port is free.
SlipPortIsFree(h, c) ==
    /\ call[h][c] = "probing" /\ FALSE \in Answers(host[h].port)
    /\ Spawn(h, owned)
    /\ Goto(h, c, "idle")
    /\ UNCHANGED <<bound, saved, client, posix, tallyVars, auxVars>>

PortIsFree(h, c) ==
    /\ call[h][c] = "probing" /\ FALSE \in Answers(host[h].port)
    /\ RecoverAndSpawn(h, c)
    /\ UNCHANGED <<bound, saved, client, posix, tallyVars, auxVars>>

\* The record is cleared, whosever it is by now.
Recovered(h, c) ==
    /\ call[h][c] = "killing"
    /\ owned' = None
    /\ Goto(h, c, "port wait")
    /\ UNCHANGED <<bound, saved, host, kid, client, posix, tallyVars, auxVars>>

\* The port is free, or ten seconds have passed.
PortWaited(h, c) ==
    /\ call[h][c] = "port wait"
    /\ RecoverAndSpawn(h, c)
    /\ UNCHANGED <<bound, saved, client, posix, tallyVars, auxVars>>

RecoveredAgain(h, c) ==
    /\ call[h][c] = "killing again"
    /\ Spawn(h, None)
    /\ Goto(h, c, "idle")
    /\ UNCHANGED <<bound, saved, client, posix, tallyVars, auxVars>>

HarnessStop(h) ==
    /\ Asked(h) /\ host[h].pid # None
    /\ Fault
    /\ Stopped(h)
    /\ host' = [host EXCEPT ![h].child = None]
    /\ UNCHANGED <<bound, saved, call, client, posix, opens, auxVars>>

--------------------------------------------------------------------------------
(* A host's life.                                                                *)

\* serve: a host that finds another one leaves.
Check(h) ==
    /\ host[h].at = "check"
    /\ \E found \in BOOLEAN :
         /\ Finds(found)
         /\ host' = [host EXCEPT ![h].at = IF found THEN "gone" ELSE "bind"]
    /\ UNCHANGED <<bound, recordVars, call, kid, client, posix, opens, auxVars>>

\* listen(): a socket file is removed first, whosever it is. A pipe's name may be refused
\* to a second server (host.cjs) or shared with it (runtime.cjs). The port is recorded.
Bind(h) ==
    /\ host[h].at = "bind"
    /\ \/ /\ host' = [host EXCEPT ![h].at = "up"]
          /\ bound' = IF posix THEN {h} ELSE bound \cup {h}
          /\ saved' = host[h].port
          /\ alone' = (alone /\ bound = {})
       \/ /\ ~posix /\ bound # {}
          /\ host' = [host EXCEPT ![h].at = "gone"]
          /\ UNCHANGED <<bound, saved, alone>>
    /\ UNCHANGED <<owned, call, kid, client, posix, tallyVars, orderly>>

\* Closing the server removes the socket file, whosever it is by now.
Unbound(h) == IF posix THEN {} ELSE bound \ {h}

\* shutdown(), asked for by a client or by a signal, to its await.
Drain(h) ==
    /\ host[h].at = "up" /\ Fault
    /\ host' = [host EXCEPT ![h].at = "draining"]
    /\ UNCHANGED <<bound, recordVars, call, kid, client, posix, opens, auxVars>>

\* shutdown(), from there to the process's exit.
Exits(h) ==
    /\ host[h].at = "draining"
    /\ Stopped(h)
    /\ bound' = Unbound(h)
    /\ host' = [host EXCEPT ![h].at = "gone", ![h].child = None]
    /\ call' = [call EXCEPT ![h] = NoCalls]
    /\ UNCHANGED <<saved, client, posix, tallyVars, auxVars>>

\* The process is killed; its Harness is not.
HostDies(h) ==
    /\ HostLives(h) /\ Fault
    /\ host' = [host EXCEPT ![h].at = "gone", ![h].child = None]
    /\ bound' = bound \ {h}
    /\ call' = [call EXCEPT ![h] = NoCalls]
    /\ UNCHANGED <<recordVars, kid, client, posix, opens, auxVars>>

--------------------------------------------------------------------------------
(* A client.                                                                     *)

Move(c, place) == client' = [client EXCEPT ![c].at = place]

OpenClient(c) ==
    /\ client[c].at = "off" /\ opens < MaxOpens
    /\ opens' = opens + 1
    /\ Move(c, "resolve")
    /\ UNCHANGED <<bound, recordVars, host, call, kid, posix, faults, auxVars>>

\* resolveInstance(): a live host's port; else the first free one from the one on record,
\* which is recorded.
Resolve(c) ==
    /\ client[c].at = "resolve"
    /\ \/ \E h \in bound :
            /\ client' = [client EXCEPT ![c].at = "probe", ![c].port = host[h].port]
            /\ UNCHANGED saved
       \/ /\ bound = {}
          /\ \E p \in Ports :
               /\ p >= saved /\ FALSE \in Answers(p)
               /\ \A q \in Ports : saved <= q /\ q < p => TRUE \in Answers(q)
               /\ saved' = p
               /\ client' = [client EXCEPT ![c].at = "probe", ![c].port = p]
    /\ UNCHANGED <<bound, owned, host, call, kid, posix, tallyVars, auxVars>>

\* attach(): probe, and start a host when there is none.
Probe(c) ==
    /\ client[c].at = "probe"
    /\ \E found \in BOOLEAN :
         /\ Finds(found)
         /\ \/ found /\ Move(c, "connect") /\ UNCHANGED host
            \/ /\ ~found
               /\ \E h \in Hosts :
                    /\ host[h].at = "none" /\ \A g \in Hosts : g < h => host[g].at # "none"
                    /\ host' = [host EXCEPT ![h].at = "check", ![h].port = client[c].port]
               /\ Move(c, "wait")
    /\ UNCHANGED <<bound, recordVars, call, kid, posix, opens, auxVars>>

\* It is reachable, or twenty seconds have passed.
Wait(c) ==
    /\ client[c].at = "wait"
    /\ Move(c, "connect")
    /\ UNCHANGED <<bound, recordVars, host, call, kid, posix, tallyVars, auxVars>>

\* Mutant of Connect: no timer is set after a failure.
SlipConnect(c) ==
    /\ client[c].at = "connect"
    /\ \/ \E h \in bound : client' = [client EXCEPT ![c].at = "attached", ![c].to = h]
       \/ bound = {} /\ Move(c, "retry")
    /\ UNCHANGED <<bound, recordVars, host, call, kid, posix, tallyVars, auxVars>>

\* connectOnce(), again by the timer of scheduleReconnect() when it fails; a reconnect
\* starts no host.
Connect(c) ==
    /\ client[c].at \in {"connect", "retry"}
    /\ \/ \E h \in bound : client' = [client EXCEPT ![c].at = "attached", ![c].to = h]
       \/ bound = {} /\ Move(c, "retry")
    /\ UNCHANGED <<bound, recordVars, host, call, kid, posix, tallyVars, auxVars>>

\* onLost(): the socket closes.
Lose(c) ==
    /\ client[c].at = "attached" /\ host[client[c].to].at = "gone"
    /\ client' = [client EXCEPT ![c].at = "retry", ![c].to = None]
    /\ UNCHANGED <<bound, recordVars, host, call, kid, posix, tallyVars, auxVars>>

\* detach(), by whatever closes the client.
Detach(c) ==
    /\ client[c].at # "off"
    /\ client' = [client EXCEPT ![c].at = "off", ![c].to = None]
    /\ UNCHANGED <<bound, recordVars, host, call, kid, posix, tallyVars, auxVars>>

--------------------------------------------------------------------------------
Attaches(c) == Resolve(c) \/ Probe(c) \/ Wait(c) \/ Connect(c) \/ Lose(c)

HostStep(h) ==
    \/ Check(h) \/ Bind(h) \/ Drain(h) \/ Exits(h) \/ HostDies(h) \/ HarnessStop(h)
    \/ \E c \in Calls : \/ HarnessStart(h, c) \/ PortAnswers(h, c) \/ PortIsFree(h, c)
                        \/ Recovered(h, c) \/ PortWaited(h, c) \/ RecoveredAgain(h, c)

RuntimeNext ==
    \/ \E c \in Clients : OpenClient(c) \/ Attaches(c) \/ Detach(c)
    \/ \E h \in Hosts : HostStep(h)
    \/ \E k \in Kids : Listen(k) \/ KidEnds(k) \/ ExitEvent(k)

RuntimeSpec == RuntimeInit /\ [][RuntimeNext]_runtimeVars

RuntimeFair == RuntimeSpec /\ \A c \in Clients : WF_runtimeVars(Attaches(c))

--------------------------------------------------------------------------------
(* Correctness.                                                                  *)

\* One host serves the instance (docs/runtime-ui-separation.md:52), unless one was bound
\* while another was: what a host gives up, it gives up last.
AloneMeansOneHost ==
    alone => \A g, h \in Hosts : host[g].at \in Serving /\ host[h].at \in Serving => g = h

\* A Harness that nobody told to stop is on record, so that the next host can find it
\* when its own is killed; so there is one at most. The premises are the holes: two
\* hosts, two starts at once, and a start before a stopped Harness has ended.
HarnessIsOnRecord ==
    alone /\ orderly => \A k \in Kids : kid[k].run \in Untold => owned = k

\* What holds of the hosts and their Harnesses at any moment.
RuntimeSafe == RuntimeTypeOK /\ AloneMeansOneHost /\ HarnessIsOnRecord

\* No host kills a Harness of another host that lives (host.cjs:226), however many there
\* are: it is told to end by its own host, which forgets it, or when that is gone.
LiveOwnerIsSpared ==
    [][\A k \in Kids : kid[k].run \in Untold /\ kid'[k].run = "ending" =>
            LET h == kid[k].of IN ~HostLives(h) \/ (host[h].child = k /\ host'[h].child = None)]_runtimeVars

\* A client that is left open comes back as soon as a host stays reachable.
ClientReturns ==
    \A c \in Clients : <>[](bound # {} /\ client[c].at # "off") => <>[](client[c].at = "attached")

================================================================================
