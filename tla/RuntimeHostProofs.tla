-------------------------- MODULE RuntimeHostProofs --------------------------
(* Theorems of RuntimeHost: the types, that one host serves, that a Harness which *)
(* nobody told to stop is on record, and that a live owner's Harness is spared,   *)
(* for any number of hosts, Harnesses, clients and faults.                        *)
(*                                                                                *)
(* A step touches one host and at most one Harness. Each lemma says of one step   *)
(* first what it does to the fields of both (Fields), and then why each part of   *)
(* the invariant survives that.                                                   *)
EXTENDS RuntimeHost, TLAPS

Serves(h) == host[h].at \in Serving

\* k is h's, and its exit event was not handled yet.
Unreaped(h, k) == kid[k].of = h /\ kid[k].run # "reaped"

\* Nobody told k to stop, and it did not end.
Untouched(k) == kid[k].run \in Untold

\* Whatever is named was spawned, by the host that names it; only hosts that served
\* have spawned anything, and only hosts that serve have calls in flight.
Known ==
    /\ owned # None => kid[owned].run # "none"
    /\ \A k \in Kids : kid[k].run = "none" <=> kid[k].of = None
    /\ \A k \in Kids : kid[k].of # None => host[kid[k].of].at \in Serving \cup {"gone"}
    /\ \A h \in Hosts :
         /\ host[h].child # None => host[h].child = host[h].pid /\ kid[host[h].child].run # "reaped"
         /\ host[h].pid # None => kid[host[h].pid].of = h
         /\ ~Serves(h) => call[h] = NoCalls

\* One host serves, and it can be reached.
OneServes ==
    alone => \A g, h \in Hosts : Serves(g) /\ Serves(h) => g = h /\ g \in bound

\* With one start at a time, after the end of what was stopped, a host has one Harness
\* at most: none while it starts one, and it knows the one it serves with.
OneStart ==
    orderly => \A h \in Hosts :
      /\ \A c, d \in Calls : call[h][c] # "idle" /\ call[h][d] # "idle" => c = d
      /\ \A j, k \in Kids : Unreaped(h, j) /\ Unreaped(h, k) => j = k
      /\ call[h] # NoCalls => \A k \in Kids : ~Unreaped(h, k)
      /\ \A k \in Kids : kid[k].of = h /\ Untouched(k) /\ Serves(h) => host[h].child = k

Recovering == {"killing", "port wait", "killing again"}

\* ... which is on record; a start that is past its look at the record left nothing to lose.
OnRecord ==
    alone /\ orderly =>
      /\ \A k \in Kids : Untouched(k) => owned = k
      /\ \A h \in Hosts, c \in Calls : call[h][c] \in Recovering => \A k \in Kids : ~Untouched(k)

IInv == RuntimeTypeOK /\ Known /\ OneServes /\ OneStart /\ OnRecord

--------------------------------------------------------------------------------
(* Types.                                                                        *)

HostState == [at : {"none", "check", "bind", "gone"} \cup Serving, port : Ports,
              child : Kids \cup {None}, pid : Kids \cup {None}]
KidState == [run : {"none", "ending", "ended", "reaped"} \cup Untold, of : Hosts \cup {None}, port : Ports]
ClientState == [at : {"off", "resolve", "probe", "wait", "connect", "attached", "retry"},
                port : Ports, to : Hosts \cup {None}]

\* What has the same type in every step, or changes by itself.
RestTyped ==
    /\ saved' \in Ports /\ client' \in [Clients -> ClientState]
    /\ opens' \in 0..MaxOpens /\ faults' \in 0..MaxFaults

LEMMA Numbers ==
    /\ None \notin Hosts /\ None \notin Kids /\ 1 \in Ports
    /\ {"up", "draining"} = Serving /\ {"starting", "listening"} = Untold
BY RuntimeAssumption DEF None, Hosts, Kids, Ports, Serving, Untold

LEMMA Typed ==
    ASSUME RuntimeTypeOK
    PROVE  /\ host \in [Hosts -> HostState] /\ kid \in [Kids -> KidState] /\ client \in [Clients -> ClientState]
           /\ \A h \in Hosts : /\ host[h].port \in Ports /\ host[h].child \in Kids \cup {None}
                               /\ host[h].pid \in Kids \cup {None}
           /\ \A k \in Kids : /\ kid[k].of \in Hosts \cup {None} /\ kid[k].port \in Ports
                              /\ kid[k].run \in {"none", "ending", "ended", "reaped"} \cup Untold
BY DEF RuntimeTypeOK, HostState, KidState, ClientState

LEMMA FaultType ==
    ASSUME RuntimeTypeOK
    PROVE  /\ Fault => faults' \in 0..MaxFaults
           /\ \A found \in BOOLEAN : Finds(found) => faults' \in 0..MaxFaults
BY RuntimeAssumption DEF RuntimeTypeOK, Fault, Finds

\* Steps of the clients alone.
LEMMA ClientKeeps ==
    ASSUME IInv, RestTyped, UNCHANGED <<bound, owned, host, call, kid, posix, auxVars>>
    PROVE  IInv'
<1>1. RuntimeTypeOK'
  BY DEF IInv, RestTyped, RuntimeTypeOK, ClientState, auxVars
<1>2. Known' /\ OneServes'
  BY DEF IInv, Known, OneServes, Serves, auxVars
<1>3. OneStart' /\ OnRecord'
  BY DEF IInv, OneStart, OnRecord, Serves, Unreaped, Untouched, auxVars
<1> QED
  BY <1>1, <1>2, <1>3 DEF IInv

LEMMA ClientStep ==
    ASSUME IInv, NEW c \in Clients,
           OpenClient(c) \/ Resolve(c) \/ Wait(c) \/ Connect(c) \/ Lose(c) \/ Detach(c)
    PROVE  IInv'
<1>1. /\ client \in [Clients -> ClientState] /\ RuntimeTypeOK
      /\ saved \in Ports /\ opens \in 0..MaxOpens /\ faults \in 0..MaxFaults
      /\ \A h \in bound : h \in Hosts /\ host[h].port \in Ports
  BY Typed DEF IInv, RuntimeTypeOK
<1>2. CASE OpenClient(c)
  <2>1. RestTyped /\ UNCHANGED <<bound, owned, host, call, kid, posix, auxVars>>
    BY <1>1, <1>2, RuntimeAssumption DEF OpenClient, Move, RestTyped, ClientState, recordVars
  <2> QED
    BY <2>1, ClientKeeps
<1>3. CASE Resolve(c)
  <2>1. PICK p \in Ports : client' = [client EXCEPT ![c].at = "probe", ![c].port = p] /\ saved' \in Ports
    <3>1. CASE \E h \in bound : client' = [client EXCEPT ![c].at = "probe", ![c].port = host[h].port] /\ UNCHANGED saved
      BY <1>1, <3>1
    <3>2. CASE \E p \in Ports : saved' = p /\ client' = [client EXCEPT ![c].at = "probe", ![c].port = p]
      BY <3>2
    <3> QED
      BY <1>3, <3>1, <3>2 DEF Resolve
  <2>2. RestTyped /\ UNCHANGED <<bound, owned, host, call, kid, posix, auxVars>>
    <3>1. UNCHANGED <<bound, owned, host, call, kid, posix, tallyVars, auxVars>>
      BY <1>3 DEF Resolve
    <3>2. client' \in [Clients -> ClientState]
      BY <1>1, <2>1 DEF ClientState
    <3> QED
      BY <1>1, <2>1, <3>1, <3>2 DEF RestTyped, tallyVars
  <2> QED
    BY <2>2, ClientKeeps
<1>4. CASE Wait(c) \/ Connect(c) \/ Lose(c) \/ Detach(c)
  <2>1. RestTyped /\ UNCHANGED <<bound, owned, host, call, kid, posix, auxVars>>
    BY <1>1, <1>4 DEF Wait, Connect, Lose, Detach, Move, RestTyped, ClientState, recordVars, tallyVars
  <2> QED
    BY <2>1, ClientKeeps
<1> QED
  BY <1>2, <1>3, <1>4

--------------------------------------------------------------------------------
(* The hosts come and go.                                                        *)

\* h goes where nobody serves; everything else of the hosts stays.
LEMMA MoveKeeps ==
    ASSUME IInv, RestTyped, NEW h \in Hosts, ~Serves(h),
           NEW at \in {"check", "bind", "gone"}, NEW port \in Ports,
           host' = [host EXCEPT ![h].at = at, ![h].port = port],
           host[h].at = "gone" => at = "gone",
           UNCHANGED <<bound, owned, call, kid, posix, auxVars>>
    PROVE  IInv'
<1>1. /\ host \in [Hosts -> HostState] /\ bound \subseteq {g \in Hosts : host[g].at \in Serving}
      /\ \A k \in Kids : kid[k].of \in Hosts \cup {None}
  BY Typed DEF IInv, RuntimeTypeOK
<1>2. /\ \A g \in Hosts : host'[g].child = host[g].child /\ host'[g].pid = host[g].pid
      /\ \A g \in Hosts \ {h} : host'[g].at = host[g].at
      /\ host'[h].at = at /\ host' \in [Hosts -> HostState]
  <2> DEFINE new == [host[h] EXCEPT !.at = at, !.port = port]
  <2>1. host[h] \in HostState
    BY <1>1
  <2>2. new \in HostState /\ new.at = at /\ new.child = host[h].child /\ new.pid = host[h].pid
    BY <2>1 DEF HostState
  <2>3. host' = [host EXCEPT ![h] = new]
    BY <1>1
  <2> HIDE DEF new
  <2> QED
    BY <1>1, <2>2, <2>3
<1>3. \A g \in Hosts : Serves(g)' <=> Serves(g)
  BY <1>2 DEF Serves, Serving
<1>4. RuntimeTypeOK'
  <2>1. bound' \subseteq {g \in Hosts : host'[g].at \in Serving}
    BY <1>1, <1>3 DEF Serves
  <2> QED
    BY <1>2, <2>1 DEF IInv, RestTyped, RuntimeTypeOK, ClientState, HostState, auxVars
<1>5. Known'
  <2>1. \A k \in Kids : kid[k].of # None => host'[kid[k].of].at \in Serving \cup {"gone"}
    BY <1>1, <1>2 DEF IInv, Known, Serves
  <2>2. \A g \in Hosts : /\ host'[g].child # None => host'[g].child = host'[g].pid /\ kid[host'[g].child].run # "reaped"
                         /\ host'[g].pid # None => kid[host'[g].pid].of = g
    BY <1>2 DEF IInv, Known
  <2>3. \A g \in Hosts : ~Serves(g)' => call[g] = NoCalls
    BY <1>3 DEF IInv, Known
  <2> QED
    BY <2>1, <2>2, <2>3 DEF IInv, Known
<1>6. OneServes'
  BY <1>3 DEF IInv, OneServes, auxVars
<1>7. OneStart' /\ OnRecord'
  BY <1>2, <1>3 DEF IInv, OneStart, OnRecord, Unreaped, Untouched, auxVars
<1> QED
  BY <1>4, <1>5, <1>6, <1>7 DEF IInv

LEMMA ProbeStep == ASSUME IInv, NEW c \in Clients, Probe(c) PROVE IInv'
<1>1. /\ client \in [Clients -> ClientState] /\ client[c].port \in Ports
      /\ saved \in Ports /\ opens \in 0..MaxOpens /\ RuntimeTypeOK
  BY Typed DEF IInv, RuntimeTypeOK, ClientState
<1>2. UNCHANGED <<bound, owned, saved, call, kid, posix, opens, auxVars>> /\ faults' \in 0..MaxFaults
  BY <1>1, FaultType DEF Probe, recordVars
<1>3. \/ Move(c, "connect") /\ UNCHANGED host
      \/ /\ Move(c, "wait")
         /\ \E h \in Hosts : /\ host[h].at = "none"
                            /\ host' = [host EXCEPT ![h].at = "check", ![h].port = client[c].port]
  BY DEF Probe
<1>4. RestTyped
  BY <1>1, <1>2, <1>3 DEF RestTyped, Move, ClientState
<1>5. CASE UNCHANGED host
  BY <1>2, <1>4, <1>5, ClientKeeps
<1>6. ASSUME NEW h \in Hosts, host[h].at = "none",
             host' = [host EXCEPT ![h].at = "check", ![h].port = client[c].port]
      PROVE  IInv'
  <2>1. ~Serves(h)
    BY <1>6 DEF Serves, Serving
  <2> QED
    BY <1>1, <1>2, <1>4, <1>6, <2>1, MoveKeeps
<1> QED
  BY <1>3, <1>5, <1>6

LEMMA CheckStep == ASSUME IInv, NEW h \in Hosts, Check(h) PROVE IInv'
<1>1. /\ host \in [Hosts -> HostState] /\ host[h].port \in Ports /\ RuntimeTypeOK /\ client \in [Clients -> ClientState]
  BY Typed DEF IInv
<1>2. PICK at \in {"gone", "bind"} : host' = [host EXCEPT ![h].at = at]
  BY DEF Check
<1>3. host' = [host EXCEPT ![h].at = at, ![h].port = host[h].port]
  BY <1>1, <1>2 DEF HostState
<1>4. RestTyped
  BY <1>1, FaultType DEF Check, RestTyped, RuntimeTypeOK, recordVars
<1>5. ~Serves(h) /\ host[h].at # "gone"
  BY DEF Check, Serves, Serving
<1> QED
  BY <1>1, <1>3, <1>4, <1>5, MoveKeeps DEF Check, recordVars

LEMMA BindStep == ASSUME IInv, NEW h \in Hosts, Bind(h) PROVE IInv'
<1>1. /\ host \in [Hosts -> HostState] /\ host[h].port \in Ports /\ RuntimeTypeOK /\ client \in [Clients -> ClientState]
      /\ bound \subseteq {g \in Hosts : Serves(g)} /\ \A k \in Kids : kid[k].of \in Hosts \cup {None}
  BY Typed DEF IInv, RuntimeTypeOK, Serves
<1>2. ~Serves(h) /\ host[h].at = "bind" /\ UNCHANGED <<owned, call, kid, client, posix, tallyVars, orderly>>
  BY DEF Bind, Serves, Serving
<1>3. CASE host' = [host EXCEPT ![h].at = "gone"] /\ UNCHANGED <<bound, saved, alone>>
  <2>1. host' = [host EXCEPT ![h].at = "gone", ![h].port = host[h].port]
    BY <1>1, <1>3 DEF HostState
  <2>2. RestTyped
    BY <1>1, <1>2, <1>3 DEF RestTyped, RuntimeTypeOK, tallyVars
  <2> QED
    BY <1>1, <1>2, <1>3, <2>1, <2>2, MoveKeeps DEF auxVars
<1>4. CASE /\ host' = [host EXCEPT ![h].at = "up"]
           /\ bound' = IF posix THEN {h} ELSE bound \cup {h}
           /\ saved' = host[h].port
           /\ alone' = (alone /\ bound = {})
  <2>1. /\ \A g \in Hosts : host'[g].child = host[g].child /\ host'[g].pid = host[g].pid
        /\ \A g \in Hosts \ {h} : host'[g] = host[g]
        /\ host'[h].at = "up" /\ host' \in [Hosts -> HostState]
    BY <1>1, <1>4 DEF HostState, Serving
  <2>2. \A g \in Hosts : Serves(g)' <=> g = h \/ Serves(g)
    BY <2>1 DEF Serves, Serving
  <2>3. RuntimeTypeOK'
    <3>1. bound' \subseteq {g \in Hosts : host'[g].at \in Serving}
      BY <1>1, <1>4, <2>2 DEF Serves
    <3>2. alone' \in BOOLEAN
      BY <1>1, <1>4 DEF RuntimeTypeOK
    <3> QED
      BY <1>1, <1>2, <1>4, <2>1, <3>1, <3>2 DEF RuntimeTypeOK, ClientState, HostState, tallyVars
  <2>4. Known'
    <3>1. \A k \in Kids : kid[k].of # None => host'[kid[k].of].at \in Serving \cup {"gone"}
      BY <1>1, <2>1 DEF IInv, Known, Serving
    <3>2. \A g \in Hosts : /\ host'[g].child # None => host'[g].child = host'[g].pid /\ kid[host'[g].child].run # "reaped"
                           /\ host'[g].pid # None => kid[host'[g].pid].of = g
      BY <2>1 DEF IInv, Known
    <3>3. \A g \in Hosts : ~Serves(g)' => call[g] = NoCalls
      BY <2>2 DEF IInv, Known
    <3> QED
      BY <1>2, <3>1, <3>2, <3>3 DEF IInv, Known
  <2>5. OneServes'
    <3>1. alone' => \A g \in Hosts : ~Serves(g)
      BY <1>1, <1>4 DEF IInv, OneServes
    <3> QED
      BY <1>4, <2>2, <3>1 DEF OneServes
  <2>6. \A k \in Kids : kid[k].of # h
    BY <1>2, Numbers DEF IInv, Known, Serving
  <2>7. OneStart'
    BY <1>2, <2>1, <2>2, <2>6 DEF IInv, OneStart, Unreaped, Untouched
  <2>8. OnRecord'
    BY <1>2, <1>4 DEF IInv, OnRecord, Untouched
  <2> QED
    BY <2>3, <2>4, <2>5, <2>7, <2>8 DEF IInv
<1> QED
  BY <1>3, <1>4 DEF Bind

LEMMA DrainStep == ASSUME IInv, NEW h \in Hosts, Drain(h) PROVE IInv'
<1>1. /\ host \in [Hosts -> HostState] /\ RuntimeTypeOK
      /\ \A k \in Kids : kid[k].of \in Hosts \cup {None}
      /\ host[h].at = "up" /\ host' = [host EXCEPT ![h].at = "draining"] /\ faults' \in 0..MaxFaults
      /\ UNCHANGED <<bound, owned, saved, call, kid, client, posix, opens, auxVars>>
  BY Typed, FaultType DEF IInv, Drain, recordVars
<1>2. /\ \A g \in Hosts : host'[g].child = host[g].child /\ host'[g].pid = host[g].pid
      /\ \A g \in Hosts \ {h} : host'[g] = host[g]
      /\ host'[h].at = "draining" /\ host' \in [Hosts -> HostState]
  BY <1>1 DEF HostState, Serving
<1>3. \A g \in Hosts : Serves(g)' <=> Serves(g)
  BY <1>1, <1>2 DEF Serves, Serving
<1>4. RuntimeTypeOK'
  <2>1. bound' \subseteq {g \in Hosts : host'[g].at \in Serving}
    BY <1>1, <1>3 DEF RuntimeTypeOK, Serves
  <2> QED
    BY <1>1, <1>2, <2>1 DEF RuntimeTypeOK, HostState, auxVars
<1>5. Known'
  <2>1. \A k \in Kids : kid[k].of # None => host'[kid[k].of].at \in Serving \cup {"gone"}
    BY <1>1, <1>2 DEF IInv, Known, Serving
  <2>2. \A g \in Hosts : /\ host'[g].child # None => host'[g].child = host'[g].pid /\ kid[host'[g].child].run # "reaped"
                         /\ host'[g].pid # None => kid[host'[g].pid].of = g
    BY <1>2 DEF IInv, Known
  <2>3. \A g \in Hosts : ~Serves(g)' => call[g] = NoCalls
    BY <1>3 DEF IInv, Known
  <2> QED
    BY <1>1, <2>1, <2>2, <2>3 DEF IInv, Known
<1>6. OneServes' /\ OneStart' /\ OnRecord'
  BY <1>1, <1>2, <1>3 DEF IInv, OneServes, OneStart, OnRecord, Unreaped, Untouched, auxVars
<1> QED
  BY <1>4, <1>5, <1>6 DEF IInv

--------------------------------------------------------------------------------
(* The Harnesses.                                                                *)

\* A step by which Harnesses only get nearer to their end, before their exit event.
Milder ==
    /\ kid' \in [Kids -> KidState]
    /\ \A k \in Kids : /\ kid'[k].of = kid[k].of
                       /\ kid'[k].run = "none" <=> kid[k].run = "none"
                       /\ kid'[k].run = "reaped" <=> kid[k].run = "reaped"
                       /\ Untouched(k)' => Untouched(k)

LEMMA SameIsMilder == ASSUME IInv, UNCHANGED kid PROVE Milder
BY Typed DEF IInv, Milder, Untouched

LEMMA RunIsMilder ==
    ASSUME IInv, NEW k \in Kids, kid[k].run \notin {"none", "reaped"},
           NEW run \in {"ending", "ended", "listening"},
           run = "listening" => Untouched(k),
           kid' = [kid EXCEPT ![k].run = run]
    PROVE  Milder /\ kid'[k].run = run /\ \A j \in Kids \ {k} : kid'[j] = kid[j]
<1>1. kid \in [Kids -> KidState] /\ kid[k] \in KidState
  BY Typed DEF IInv
<1> DEFINE new == [kid[k] EXCEPT !.run = run]
<1>2. new \in KidState /\ new.run = run /\ new.of = kid[k].of
  BY <1>1 DEF KidState, Untold
<1>3. kid' = [kid EXCEPT ![k] = new]
  BY <1>1
<1> HIDE DEF new
<1>4. kid' \in [Kids -> KidState] /\ kid'[k] = new /\ \A j \in Kids \ {k} : kid'[j] = kid[j]
  BY <1>1, <1>2, <1>3
<1> QED
  BY <1>2, <1>4 DEF Milder, Untouched, Untold

\* A Harness gets nearer to its end by itself.
LEMMA KidKeeps ==
    ASSUME IInv, RestTyped, Milder, UNCHANGED <<bound, owned, host, call, posix, auxVars>>
    PROVE  IInv'
<1>1. RuntimeTypeOK'
  BY DEF IInv, Milder, RestTyped, RuntimeTypeOK, KidState, ClientState, auxVars
<1>2. Known'
  BY Typed DEF IInv, Milder, Known, RuntimeTypeOK, Serves
<1>3. OneServes'
  BY DEF IInv, OneServes, Serves, auxVars
<1>4. OneStart' /\ OnRecord'
  BY DEF IInv, Milder, OneStart, OnRecord, Unreaped, Serves, auxVars
<1> QED
  BY <1>1, <1>2, <1>3, <1>4 DEF IInv

LEMMA Rested ==
    ASSUME IInv, UNCHANGED <<saved, client, opens>>, faults' \in 0..MaxFaults
    PROVE  RestTyped
BY Typed DEF IInv, RuntimeTypeOK, RestTyped

LEMMA ListenStep == ASSUME IInv, NEW k \in Kids, Listen(k) PROVE IInv'
<1>1. UNCHANGED <<bound, owned, host, call, posix, auxVars>> /\ RestTyped
  BY Rested DEF Listen, recordVars, tallyVars, IInv, RuntimeTypeOK
<1>2. PICK run \in {"ended", "listening"} : kid' = [kid EXCEPT ![k].run = run]
  BY DEF Listen
<1>3. Untouched(k) /\ kid[k].run \notin {"none", "reaped"}
  BY DEF Listen, Untouched, Untold
<1> QED
  BY <1>1, <1>2, <1>3, RunIsMilder, KidKeeps

LEMMA KidEndsStep == ASSUME IInv, NEW k \in Kids, KidEnds(k) PROVE IInv'
<1>1. UNCHANGED <<bound, owned, host, call, posix, auxVars>> /\ RestTyped
  BY Rested, FaultType DEF KidEnds, recordVars, IInv, RuntimeTypeOK
<1>2. kid[k].run \notin {"none", "reaped"} /\ kid' = [kid EXCEPT ![k].run = "ended"]
  BY DEF KidEnds, Untold
<1> QED
  BY <1>1, <1>2, RunIsMilder, KidKeeps

LEMMA ExitEventStep == ASSUME IInv, NEW k \in Kids, ExitEvent(k) PROVE IInv'
<1> DEFINE h == kid[k].of
<1>1. /\ host \in [Hosts -> HostState] /\ kid \in [Kids -> KidState] /\ kid[k] \in KidState
      /\ RuntimeTypeOK /\ h \in Hosts /\ Serves(h) /\ kid[k].run = "ended"
      /\ \A j \in Kids : kid[j].of \in Hosts \cup {None}
  <2>1. kid[k].run = "ended" /\ host[h].at \in Serving
    BY DEF ExitEvent
  <2>2. h # None
    BY <2>1 DEF IInv, Known
  <2> QED
    BY <2>1, <2>2, Typed DEF IInv, Serves
<1> DEFINE new == [kid[k] EXCEPT !.run = "reaped"]
           at == [host[h] EXCEPT !.child = None]
<1>2. /\ kid' = [kid EXCEPT ![k] = new] /\ host' = [host EXCEPT ![h] = at]
      /\ owned' = (IF owned = host[h].pid THEN None ELSE owned)
      /\ UNCHANGED <<bound, saved, call, client, posix, tallyVars, auxVars>>
  BY <1>1 DEF ExitEvent, Cleared
<1>3. new \in KidState /\ new.run = "reaped" /\ new.of = h
  BY <1>1 DEF KidState
<1>4. at \in HostState /\ at.at = host[h].at /\ at.pid = host[h].pid /\ at.child = None
  BY <1>1 DEF HostState
<1> HIDE DEF h, new, at
<1>5. /\ kid' \in [Kids -> KidState] /\ kid'[k].run = "reaped" /\ kid'[k].of = h
      /\ \A j \in Kids \ {k} : kid'[j] = kid[j]
      /\ \A j \in Kids : kid'[j].of = kid[j].of
  BY <1>1, <1>2, <1>3 DEF h
<1>6. /\ host' \in [Hosts -> HostState] /\ host'[h].child = None
      /\ \A g \in Hosts \ {h} : host'[g] = host[g]
      /\ \A g \in Hosts : host'[g].at = host[g].at /\ host'[g].pid = host[g].pid
  BY <1>1, <1>2, <1>4
<1>7. \A g \in Hosts : Serves(g)' <=> Serves(g)
  BY <1>6 DEF Serves
<1>8. owned' \in Kids \cup {None} /\ (owned' # None => owned' = owned)
  BY <1>1, <1>2 DEF RuntimeTypeOK
<1>9. RuntimeTypeOK'
  <2>1. bound' \subseteq {g \in Hosts : host'[g].at \in Serving}
    BY <1>1, <1>2, <1>6 DEF RuntimeTypeOK
  <2>2. RestTyped
    BY <1>1, <1>2, Rested DEF RuntimeTypeOK, tallyVars
  <2> QED
    BY <1>1, <1>2, <1>5, <1>6, <1>8, <2>1, <2>2 DEF RuntimeTypeOK, RestTyped, KidState, HostState, ClientState, auxVars
<1>10. Known'
  <2>1. \A j \in Kids : kid'[j].run = "none" <=> kid[j].run = "none"
    BY <1>1, <1>5
  <2>2. owned' # None => kid'[owned'].run # "none"
    BY <1>1, <1>8, <2>1, Numbers DEF IInv, Known, RuntimeTypeOK
  <2>3. \A j \in Kids : (kid'[j].run = "none" <=> kid'[j].of = None)
                        /\ (kid'[j].of # None => host'[kid'[j].of].at \in Serving \cup {"gone"})
    BY <1>1, <1>5, <1>6, <2>1 DEF IInv, Known
  <2>4. ASSUME NEW g \in Hosts
        PROVE  /\ host'[g].child # None => host'[g].child = host'[g].pid /\ kid'[host'[g].child].run # "reaped"
               /\ host'[g].pid # None => kid'[host'[g].pid].of = g
    <3>1. host[g].pid \in Kids \cup {None} /\ host[g].child \in Kids \cup {None}
      BY <1>1, Typed
    <3>2. host[g].pid # None => kid'[host'[g].pid].of = g
      BY <1>5, <1>6, <3>1 DEF IInv, Known
    <3>3. CASE g = h
      BY <1>6, <3>2, <3>3
    <3>4. CASE g # h
      <4>1. host'[g] = host[g] /\ (host[g].child # None => host[g].child = host[g].pid /\ kid[host[g].child].run # "reaped"
                                                           /\ kid[host[g].child].of = g)
        BY <1>6, <3>4 DEF IInv, Known
      <4>2. host[g].child # None => host[g].child # k
        BY <3>4, <4>1 DEF h
      <4> QED
        BY <1>5, <3>1, <3>2, <4>1, <4>2
    <3> QED
      BY <3>3, <3>4
  <2>5. \A g \in Hosts : ~Serves(g)' => call'[g] = NoCalls
    BY <1>2, <1>7 DEF IInv, Known
  <2> QED
    BY <2>2, <2>3, <2>4, <2>5 DEF Known
<1>11. OneServes'
  BY <1>2, <1>7 DEF IInv, OneServes, auxVars
<1>12. /\ \A j \in Kids : Untouched(j)' <=> Untouched(j)
       /\ \A g \in Hosts, j \in Kids : Unreaped(g, j)' => Unreaped(g, j)
       /\ Unreaped(h, k)
  BY <1>1, <1>5 DEF Untouched, Unreaped, Untold, h
<1>13. OneStart'
  <2> SUFFICES ASSUME orderly, NEW g \in Hosts
               PROVE  /\ \A c, d \in Calls : call[g][c] # "idle" /\ call[g][d] # "idle" => c = d
                      /\ \A i, j \in Kids : Unreaped(g, i)' /\ Unreaped(g, j)' => i = j
                      /\ call[g] # NoCalls => \A j \in Kids : ~Unreaped(g, j)'
                      /\ \A j \in Kids : kid'[j].of = g /\ Untouched(j)' /\ Serves(g)' => host'[g].child = j
    BY <1>2 DEF OneStart, auxVars
  <2>1. ASSUME NEW j \in Kids, kid'[j].of = g, Untouched(j)', Serves(g)'
        PROVE  host'[g].child = j
    <3>1. Unreaped(g, j) /\ kid[j].of = g /\ Untouched(j) /\ Serves(g) /\ j # k
      BY <1>1, <1>5, <1>7, <1>12, <2>1 DEF Unreaped, Untouched, Untold
    <3>2. g # h
      BY <1>12, <3>1 DEF IInv, OneStart
    <3> QED
      BY <1>6, <3>1, <3>2 DEF IInv, OneStart
  <2> QED
    BY <1>12, <2>1 DEF IInv, OneStart
<1>14. OnRecord'
  <2> SUFFICES ASSUME alone, orderly
               PROVE  /\ \A j \in Kids : Untouched(j)' => owned' = j
                      /\ \A g \in Hosts, c \in Calls : call[g][c] \in Recovering => \A j \in Kids : ~Untouched(j)'
    BY <1>2 DEF OnRecord, auxVars
  <2>1. ASSUME NEW j \in Kids, Untouched(j)'
        PROVE  owned' = j
    <3>1. Untouched(j) /\ owned = j /\ j # k
      BY <1>1, <1>12, <2>1 DEF IInv, OnRecord, Untouched, Untold
    <3>2. host[h].pid # j
      <4>1. SUFFICES ASSUME host[h].pid = j PROVE FALSE
        OBVIOUS
      <4>2. Unreaped(h, j)
        BY <1>1, <3>1, <4>1, Numbers DEF IInv, Known, Unreaped, Untouched, Untold
      <4> QED
        BY <1>1, <1>12, <3>1, <4>2 DEF IInv, OneStart
    <3> QED
      BY <1>2, <3>1, <3>2
  <2> QED
    BY <1>12, <2>1 DEF IInv, OnRecord
<1> QED
  BY <1>9, <1>10, <1>11, <1>13, <1>14 DEF IInv

--------------------------------------------------------------------------------
(* A host stops its Harness, or leaves it.                                       *)

\* stop() tells the child, if there is one, and clears its record; with one start at a
\* time that leaves no Harness of h that runs.
LEMMA StoppedIsMilder ==
    ASSUME IInv, NEW h \in Hosts, Serves(h), Stopped(h)
    PROVE  /\ Milder
           /\ owned' \in Kids \cup {None} /\ (owned' # None => owned' = owned)
           /\ orderly => \A k \in Kids : kid[k].of = h => ~Untouched(k)'
           /\ alone /\ orderly => \A k \in Kids : Untouched(k)' => owned' = k
           /\ \A k \in Kids : kid'[k].run # kid[k].run => k = host[h].child /\ kid[k].of = h
<1> DEFINE k == host[h].child
<1>1. /\ k \in Kids \cup {None} /\ owned \in Kids \cup {None} /\ host[h].pid \in Kids \cup {None}
      /\ k # None => k = host[h].pid /\ kid[k].of = h /\ kid[k].run # "reaped"
  BY Typed DEF IInv, RuntimeTypeOK, Known
<1>2. /\ kid' = IF k # None /\ KidLives(k) THEN Ending(k) ELSE kid
      /\ owned' = IF owned = host[h].pid THEN None ELSE owned
  BY DEF Stopped, Cleared
<1>3. orderly => \A j \in Kids : kid[j].of = h /\ Untouched(j) => k = j
  BY DEF IInv, OneStart
<1>4. alone /\ orderly => \A j \in Kids : Untouched(j) => owned = j
  BY DEF IInv, OnRecord
<1>5. host[h].pid # None => kid[host[h].pid].of = h
  BY DEF IInv, Known
<1> HIDE DEF k
<1>6. owned' \in Kids \cup {None} /\ (owned' # None => owned' = owned)
  BY <1>1, <1>2
<1>7. /\ Milder
      /\ k # None /\ Untouched(k) => kid'[k].run \notin Untold
      /\ \A j \in Kids : kid'[j].run # kid[j].run => j = k
  <2>1. CASE k # None /\ KidLives(k)
    <3>1. k \in Kids /\ kid[k].run \notin {"none", "reaped"} /\ kid' = [kid EXCEPT ![k].run = "ending"]
      BY <1>1, <1>2, <2>1 DEF KidLives, Untold, Ending
    <3>2. Milder /\ kid'[k].run = "ending" /\ \A j \in Kids \ {k} : kid'[j] = kid[j]
      BY <3>1, RunIsMilder
    <3> QED
      BY <3>2 DEF Untouched, Untold
  <2>2. CASE ~(k # None /\ KidLives(k))
    BY <1>2, <2>2, SameIsMilder DEF KidLives, Untouched
  <2> QED
    BY <2>1, <2>2
<1>8. orderly => \A j \in Kids : kid[j].of = h => ~Untouched(j)'
  BY <1>3, <1>7, Numbers DEF Milder, Untouched
<1>9. alone /\ orderly => \A j \in Kids : Untouched(j)' => owned' = j
  BY <1>2, <1>4, <1>5, <1>7, <1>8, Numbers DEF Milder
<1>10. \A j \in Kids : kid'[j].run # kid[j].run => j = host[h].child /\ kid[j].of = h
  BY <1>1, <1>7, Numbers DEF k
<1> QED
  BY <1>6, <1>7, <1>8, <1>9, <1>10

\* h serves as before, or is gone, and has no child that it did not tell to end.
LEMMA LeaveKeeps ==
    ASSUME IInv, RestTyped, Milder, NEW h \in Hosts, HostLives(h),
           NEW at \in {host[h].at, "gone"},
           host' = [host EXCEPT ![h].at = at, ![h].child = None],
           call' = IF at = "gone" THEN [call EXCEPT ![h] = NoCalls] ELSE call,
           bound' \subseteq bound, at = "gone" => h \notin bound',
           alone => \A g \in Hosts : g \in bound /\ g \notin bound' => g = h /\ at = "gone",
           owned' \in Kids \cup {None}, owned' # None => owned' = owned,
           orderly /\ at # "gone" => \A k \in Kids : kid[k].of = h => ~Untouched(k)',
           alone /\ orderly => \A k \in Kids : Untouched(k)' => owned' = k,
           UNCHANGED <<posix, auxVars>>
    PROVE  IInv'
<1>1. /\ host \in [Hosts -> HostState] /\ host[h] \in HostState /\ RuntimeTypeOK
      /\ \A k \in Kids : kid[k].of \in Hosts \cup {None}
      /\ \A g \in Hosts : host[g].pid \in Kids \cup {None} /\ host[g].child \in Kids \cup {None}
      /\ bound \subseteq {g \in Hosts : host[g].at \in Serving}
      /\ call \in [Hosts -> [Calls -> {"idle"} \cup Waits]]
  BY Typed DEF IInv, RuntimeTypeOK
<1> DEFINE new == [host[h] EXCEPT !.at = at, !.child = None]
<1>2. new \in HostState /\ new.at = at /\ new.child = None /\ new.pid = host[h].pid
  BY <1>1 DEF HostState
<1>3. host' = [host EXCEPT ![h] = new]
  BY <1>1
<1> HIDE DEF new
<1>4. /\ host' \in [Hosts -> HostState] /\ host'[h].child = None /\ host'[h].at = at
      /\ \A g \in Hosts \ {h} : host'[g] = host[g]
      /\ \A g \in Hosts : host'[g].pid = host[g].pid
  BY <1>1, <1>2, <1>3
<1>5. \A g \in Hosts : Serves(g)' <=> Serves(g) /\ (g = h => at # "gone")
  BY <1>4 DEF Serves, Serving
<1>6. /\ call' \in [Hosts -> [Calls -> {"idle"} \cup Waits]]
      /\ \A g \in Hosts : call'[g] = call[g] \/ (g = h /\ at = "gone" /\ call'[g] = NoCalls)
      /\ at = "gone" => call'[h] = NoCalls
  BY <1>1 DEF NoCalls
<1>7. RuntimeTypeOK'
  <2>1. bound' \subseteq {g \in Hosts : host'[g].at \in Serving}
    BY <1>1, <1>4 DEF RuntimeTypeOK
  <2> QED
    BY <1>1, <1>4, <1>6, <2>1 DEF RuntimeTypeOK, RestTyped, Milder, KidState, HostState, ClientState, auxVars
<1>8. Known'
  <2>1. owned' # None => kid'[owned'].run # "none"
    BY Numbers DEF IInv, Known, Milder
  <2>2. \A k \in Kids : (kid'[k].run = "none" <=> kid'[k].of = None)
                        /\ (kid'[k].of # None => host'[kid'[k].of].at \in Serving \cup {"gone"})
    BY <1>1, <1>4 DEF IInv, Known, Milder
  <2>3. \A g \in Hosts : /\ host'[g].child # None => host'[g].child = host'[g].pid /\ kid'[host'[g].child].run # "reaped"
                         /\ host'[g].pid # None => kid'[host'[g].pid].of = g
    BY <1>1, <1>4 DEF IInv, Known, Milder
  <2>4. \A g \in Hosts : ~Serves(g)' => call'[g] = NoCalls
    BY <1>5, <1>6 DEF IInv, Known
  <2> QED
    BY <2>1, <2>2, <2>3, <2>4 DEF Known
<1>9. OneServes'
  BY <1>5 DEF IInv, OneServes, auxVars
<1>10. OneStart'
  <2> SUFFICES ASSUME orderly, NEW g \in Hosts
               PROVE  /\ \A c, d \in Calls : call'[g][c] # "idle" /\ call'[g][d] # "idle" => c = d
                      /\ \A i, j \in Kids : Unreaped(g, i)' /\ Unreaped(g, j)' => i = j
                      /\ call'[g] # NoCalls => \A j \in Kids : ~Unreaped(g, j)'
                      /\ \A j \in Kids : kid'[j].of = g /\ Untouched(j)' /\ Serves(g)' => host'[g].child = j
    BY DEF OneStart, auxVars
  <2>1. \A j \in Kids : Unreaped(g, j)' <=> Unreaped(g, j)
    BY DEF Milder, Unreaped
  <2>2. \A c \in Calls : NoCalls[c] = "idle"
    BY DEF NoCalls
  <2>3. \A c, d \in Calls : call'[g][c] # "idle" /\ call'[g][d] # "idle" => c = d
    BY <1>6, <2>2 DEF IInv, OneStart
  <2>4. /\ \A i, j \in Kids : Unreaped(g, i)' /\ Unreaped(g, j)' => i = j
        /\ call'[g] # NoCalls => \A j \in Kids : ~Unreaped(g, j)'
    BY <1>6, <2>1 DEF IInv, OneStart
  <2>5. \A j \in Kids : kid'[j].of = g /\ Untouched(j)' /\ Serves(g)' => host'[g].child = j
    BY <1>4, <1>5 DEF IInv, OneStart, Milder
  <2> QED
    BY <2>3, <2>4, <2>5
<1>11. OnRecord'
  <2> SUFFICES ASSUME alone, orderly
               PROVE  \A g \in Hosts, c \in Calls : call'[g][c] \in Recovering => \A j \in Kids : ~Untouched(j)'
    BY DEF OnRecord, auxVars
  <2>1. \A g \in Hosts, c \in Calls : call'[g][c] \in Recovering => call[g][c] \in Recovering
    BY <1>6 DEF NoCalls, Recovering
  <2> QED
    BY <2>1 DEF IInv, OnRecord, Milder
<1> QED
  BY <1>7, <1>8, <1>9, <1>10, <1>11 DEF IInv

LEMMA HarnessStopStep == ASSUME IInv, NEW h \in Hosts, HarnessStop(h) PROVE IInv'
<1>1. /\ Serves(h) /\ host \in [Hosts -> HostState] /\ bound' = bound /\ call' = call /\ posix' = posix
      /\ UNCHANGED auxVars /\ Stopped(h)
  BY Typed DEF HarnessStop, Asked, Serves, IInv
<1>2. RestTyped
  BY Rested, FaultType DEF HarnessStop, IInv
<1>3. host' = [host EXCEPT ![h].at = host[h].at, ![h].child = None]
  BY <1>1 DEF HarnessStop, HostState
<1>4. HostLives(h) /\ host[h].at # "gone"
  BY <1>1 DEF Serves, Serving, HostLives
<1>5. PICK at \in {host[h].at, "gone"} : at = host[h].at
  OBVIOUS
<1>6. host' = [host EXCEPT ![h].at = at, ![h].child = None] /\ at # "gone"
  BY <1>3, <1>4, <1>5
<1> QED
  BY <1>1, <1>2, <1>4, <1>6, StoppedIsMilder, LeaveKeeps

LEMMA ExitsStep == ASSUME IInv, NEW h \in Hosts, Exits(h) PROVE IInv'
<1>1. /\ Serves(h) /\ HostLives(h) /\ Stopped(h) /\ posix' = posix /\ UNCHANGED auxVars
      /\ host' = [host EXCEPT ![h].at = "gone", ![h].child = None]
      /\ call' = [call EXCEPT ![h] = NoCalls]
      /\ bound' = IF posix THEN {} ELSE bound \ {h}
  BY DEF Exits, Serves, Serving, HostLives, Unbound
<1>2. RestTyped
  BY Rested DEF Exits, tallyVars, IInv, RuntimeTypeOK
<1>3. alone => \A g \in Hosts : g \in bound => g = h
  BY <1>1 DEF IInv, RuntimeTypeOK, OneServes, Serves
<1> QED
  BY <1>1, <1>2, <1>3, StoppedIsMilder, LeaveKeeps

LEMMA HostDiesStep == ASSUME IInv, NEW h \in Hosts, HostDies(h) PROVE IInv'
<1>1. /\ HostLives(h) /\ posix' = posix /\ UNCHANGED <<auxVars, owned, kid>>
      /\ host' = [host EXCEPT ![h].at = "gone", ![h].child = None]
      /\ call' = [call EXCEPT ![h] = NoCalls]
      /\ bound' = bound \ {h}
  BY DEF HostDies, recordVars
<1>2. RestTyped
  BY Rested, FaultType DEF HostDies, recordVars, IInv
<1>3. Milder /\ owned \in Kids \cup {None}
  BY <1>1, SameIsMilder DEF IInv, RuntimeTypeOK
<1>4. alone /\ orderly => \A k \in Kids : Untouched(k)' => owned = k
  BY <1>3 DEF IInv, OnRecord, Milder
<1> QED
  BY <1>1, <1>2, <1>3, <1>4, LeaveKeeps

--------------------------------------------------------------------------------
(* harness.start.                                                                *)

\* Only a host that serves has a call in flight.
LEMMA CallerServes ==
    ASSUME IInv, NEW h \in Hosts, NEW c \in Calls, call[h][c] # "idle"
    PROVE  Serves(h) /\ call[h] # NoCalls
<1>1. NoCalls[c] = "idle"
  BY DEF NoCalls
<1> QED
  BY <1>1 DEF IInv, Known

\* With one start at a time, h has no child while it starts one.
LEMMA CallerHasNone ==
    ASSUME IInv, NEW h \in Hosts, NEW c \in Calls, call[h][c] # "idle", orderly
    PROVE  host[h].child = None /\ \A k \in Kids : ~Unreaped(h, k)
<1>1. \A k \in Kids : ~Unreaped(h, k)
  BY CallerServes DEF IInv, OneStart
<1>2. host[h].child \in Kids \cup {None}
  BY Typed DEF IInv
<1> QED
  BY <1>1, <1>2, Numbers DEF IInv, Known, Unreaped

\* ... and what it kills or clears is on record, or nothing is.
LEMMA CallMoves ==
    ASSUME IInv, NEW h \in Hosts, NEW c \in Calls, call[h][c] # "idle",
           NEW place \in {"idle"} \cup Waits, Goto(h, c, place)
    PROVE  /\ call' \in [Hosts -> [Calls -> {"idle"} \cup Waits]]
           /\ \A g \in Hosts : ~Serves(g) => call'[g] = call[g]
           /\ \A g \in Hosts \ {h} : call'[g] = call[g]
           /\ call'[h][c] = place
           /\ \A d \in Calls \ {c} : call'[h][d] = call[h][d]
<1>1. call \in [Hosts -> [Calls -> {"idle"} \cup Waits]] /\ call[h] \in [Calls -> {"idle"} \cup Waits]
  BY DEF IInv, RuntimeTypeOK
<1> DEFINE new == [call[h] EXCEPT ![c] = place]
<1>2. /\ new \in [Calls -> {"idle"} \cup Waits] /\ new[c] = place
      /\ \A d \in Calls \ {c} : new[d] = call[h][d]
  BY <1>1
<1>3. call' = [call EXCEPT ![h] = new]
  BY <1>1 DEF Goto
<1> HIDE DEF new
<1>4. Serves(h)
  BY CallerServes
<1> QED
  BY <1>1, <1>2, <1>3, <1>4

\* A call goes on, and spawns nothing.
LEMMA CallKeeps ==
    ASSUME IInv, RestTyped, Milder, NEW h \in Hosts, NEW c \in Calls, call[h][c] # "idle",
           NEW place \in {"idle"} \cup Waits, Goto(h, c, place),
           owned' \in Kids \cup {None}, owned' # None => owned' = owned,
           alone /\ orderly => /\ \A k \in Kids : Untouched(k)' => owned' = k
                               /\ place \in Recovering => \A k \in Kids : ~Untouched(k)',
           UNCHANGED <<bound, host, posix, auxVars>>
    PROVE  IInv'
<1>1. /\ call' \in [Hosts -> [Calls -> {"idle"} \cup Waits]]
      /\ \A g \in Hosts : ~Serves(g) => call'[g] = call[g]
      /\ \A g \in Hosts \ {h} : call'[g] = call[g]
      /\ call'[h][c] = place
      /\ \A d \in Calls \ {c} : call'[h][d] = call[h][d]
  BY CallMoves
<1>2. RuntimeTypeOK'
  BY <1>1 DEF IInv, Milder, RestTyped, RuntimeTypeOK, KidState, ClientState, auxVars
<1>3. Known'
  <2>1. owned' # None => kid'[owned'].run # "none"
    BY Numbers DEF IInv, Known, Milder
  <2>2. \A k \in Kids : (kid'[k].run = "none" <=> kid'[k].of = None)
                        /\ (kid'[k].of # None => host'[kid'[k].of].at \in Serving \cup {"gone"})
    BY DEF IInv, Known, Milder
  <2>3. \A g \in Hosts : /\ host'[g].child # None => host'[g].child = host'[g].pid /\ kid'[host'[g].child].run # "reaped"
                         /\ host'[g].pid # None => kid'[host'[g].pid].of = g
    <3>1. \A g \in Hosts : host[g].pid \in Kids \cup {None} /\ host[g].child \in Kids \cup {None}
      BY Typed DEF IInv
    <3> QED
      BY <3>1 DEF IInv, Known, Milder
  <2>4. \A g \in Hosts : ~Serves(g)' => call'[g] = NoCalls
    BY <1>1 DEF IInv, Known, Serves
  <2> QED
    BY <2>1, <2>2, <2>3, <2>4 DEF Known
<1>4. OneServes'
  BY DEF IInv, OneServes, Serves, auxVars
<1>5. OneStart'
  <2> SUFFICES ASSUME orderly, NEW g \in Hosts
               PROVE  /\ \A a, d \in Calls : call'[g][a] # "idle" /\ call'[g][d] # "idle" => a = d
                      /\ \A i, j \in Kids : Unreaped(g, i)' /\ Unreaped(g, j)' => i = j
                      /\ call'[g] # NoCalls => \A j \in Kids : ~Unreaped(g, j)'
                      /\ \A j \in Kids : kid'[j].of = g /\ Untouched(j)' /\ Serves(g)' => host'[g].child = j
    BY DEF OneStart, auxVars
  <2>1. \A j \in Kids : Unreaped(g, j)' <=> Unreaped(g, j)
    BY DEF Milder, Unreaped
  <2>2. \A a, d \in Calls : call'[g][a] # "idle" /\ call'[g][d] # "idle" => a = d
    BY <1>1 DEF IInv, OneStart
  <2>3. call'[g] # NoCalls => \A j \in Kids : ~Unreaped(g, j)'
    BY <1>1, <2>1, CallerHasNone DEF IInv, OneStart
  <2>4. \A j \in Kids : kid'[j].of = g /\ Untouched(j)' /\ Serves(g)' => host'[g].child = j
    BY DEF IInv, OneStart, Milder, Serves
  <2> QED
    BY <2>1, <2>2, <2>3, <2>4 DEF IInv, OneStart
<1>6. OnRecord'
  <2>1. alone /\ orderly => \A k \in Kids : Untouched(k)' => owned' = k
    OBVIOUS
  <2>2. ASSUME alone, orderly, NEW g \in Hosts, NEW a \in Calls, call'[g][a] \in Recovering
        PROVE  \A k \in Kids : ~Untouched(k)'
    <3>1. CASE g = h /\ a = c
      <4>1. place \in Recovering
        BY <1>1, <2>2, <3>1
      <4> QED
        BY <2>2, <4>1
    <3>2. CASE ~(g = h /\ a = c)
      <4>1. call[g][a] \in Recovering
        BY <1>1, <2>2, <3>2
      <4> QED
        BY <2>2, <4>1 DEF IInv, OnRecord, Milder
    <3> QED
      BY <3>1, <3>2
  <2> QED
    BY <2>1, <2>2 DEF OnRecord, auxVars
<1> QED
  BY <1>2, <1>3, <1>4, <1>5, <1>6 DEF IInv

\* A Harness on record that outlived its owner is told to end: nothing runs any more.
LEMMA OrphanEnds ==
    ASSUME IInv, NEW h \in Hosts, Orphaned(h), kid' = Ending(owned)
    PROVE  /\ Milder /\ owned \in Kids /\ ~HostLives(kid[owned].of)
           /\ \A k \in Kids : kid'[k].run # kid[k].run => k = owned
           /\ alone /\ orderly => \A k \in Kids : ~Untouched(k)'
<1>1. owned \in Kids /\ ~HostLives(kid[owned].of) /\ KidLives(owned)
  BY DEF Orphaned, OwnerLives, IInv, RuntimeTypeOK
<1>2. kid[owned].run \notin {"none", "reaped"} /\ kid' = [kid EXCEPT ![owned].run = "ending"]
  BY <1>1 DEF KidLives, Untold, Ending
<1>3. Milder /\ kid'[owned].run = "ending" /\ \A j \in Kids \ {owned} : kid'[j] = kid[j]
  BY <1>1, <1>2, RunIsMilder
<1>4. ASSUME alone, orderly, NEW k \in Kids, Untouched(k)'
      PROVE  FALSE
  <2>1. k = owned
    BY <1>3, <1>4 DEF IInv, OnRecord, Milder
  <2> QED
    BY <1>3, <1>4, <2>1 DEF Untouched, Untold
<1> QED
  BY <1>1, <1>3, <1>4

\* A record that names no orphan names nothing that runs: only the host of the call
\* serves, and its Harness has ended.
LEMMA NoOrphanNoneRuns ==
    ASSUME IInv, NEW h \in Hosts, NEW c \in Calls, call[h][c] # "idle", ~Orphaned(h), alone, orderly
    PROVE  \A k \in Kids : ~Untouched(k)
<1> SUFFICES ASSUME NEW k \in Kids, Untouched(k) PROVE FALSE
  OBVIOUS
<1>1. owned = k /\ kid[k].of \in Hosts \cup {None} /\ owned # None
  BY Typed, Numbers DEF IInv, OnRecord
<1>2. KidLives(owned)
  BY <1>1 DEF KidLives, Untouched
<1>3. HostLives(kid[k].of)
  BY <1>1, <1>2 DEF Orphaned, OwnerLives
<1>4. kid[k].run # "none" /\ kid[k].run # "reaped"
  BY DEF Untouched, Untold
<1>5. kid[k].of \in Hosts /\ Serves(kid[k].of)
  BY <1>1, <1>3, <1>4 DEF IInv, Known, HostLives, Serves
<1>6. kid[k].of = h
  BY <1>5, CallerServes DEF IInv, OneServes
<1>7. Unreaped(h, k)
  BY <1>4, <1>6 DEF Unreaped
<1> QED
  BY <1>7, CallerHasNone

LEMMA PortAnswersStep ==
    ASSUME IInv, NEW h \in Hosts, NEW c \in Calls, PortAnswers(h, c)
    PROVE  IInv'
<1>1. /\ call[h][c] = "probing" /\ UNCHANGED <<bound, host, posix, auxVars>>
      /\ owned \in Kids \cup {None}
  BY DEF PortAnswers, IInv, RuntimeTypeOK
<1>2. RestTyped
  BY Rested DEF PortAnswers, tallyVars, IInv, RuntimeTypeOK
<1>3. CASE UNCHANGED <<owned, kid>> /\ Goto(h, c, "idle")
  <2>1. Milder /\ alone /\ orderly => \A k \in Kids : Untouched(k)' => owned' = k
    BY <1>3, SameIsMilder DEF IInv, OnRecord, Milder
  <2>2. PICK place \in {"idle"} : Goto(h, c, place)
    BY <1>3
  <2>3. Milder /\ place \notin Recovering
    BY <1>3, SameIsMilder DEF Recovering
  <2> QED
    BY <1>1, <1>2, <1>3, <2>1, <2>2, <2>3, CallKeeps
<1>4. CASE /\ owned # None /\ (OwnerLives(h) => kid[owned].of = h)
           /\ IF Orphaned(h) THEN kid' = Ending(owned) /\ UNCHANGED owned
                             ELSE owned' = Kept(h) /\ UNCHANGED kid
           /\ Goto(h, c, IF Orphaned(h) THEN "killing" ELSE "port wait")
  <2>1. PICK place \in {"killing", "port wait"} : Goto(h, c, place)
    BY <1>4
  <2>2. CASE Orphaned(h)
    <3>1. Milder /\ (alone /\ orderly => \A k \in Kids : ~Untouched(k)') /\ owned' = owned
      BY <1>4, <2>2, OrphanEnds
    <3> QED
      BY <1>1, <1>2, <2>1, <3>1, CallKeeps DEF Waits
  <2>3. CASE ~Orphaned(h)
    <3>1. Milder /\ owned' \in {owned, None}
      BY <1>4, <2>3, SameIsMilder DEF Kept
    <3>2. alone /\ orderly => \A k \in Kids : ~Untouched(k)'
      BY <1>1, <2>3, <3>1, NoOrphanNoneRuns DEF Milder
    <3> QED
      BY <1>1, <1>2, <2>1, <3>1, <3>2, CallKeeps DEF Waits
  <2> QED
    BY <2>2, <2>3
<1> QED
  BY <1>3, <1>4 DEF PortAnswers

LEMMA RecoveredStep ==
    ASSUME IInv, NEW h \in Hosts, NEW c \in Calls, Recovered(h, c)
    PROVE  IInv'
<1>1. /\ call[h][c] = "killing" /\ UNCHANGED <<bound, host, posix, auxVars>>
      /\ owned' = None /\ Milder /\ RestTyped
  BY SameIsMilder, Rested DEF Recovered, tallyVars, IInv, RuntimeTypeOK
<1>2. alone /\ orderly => \A k \in Kids : ~Untouched(k)'
  BY <1>1 DEF IInv, OnRecord, Milder, Recovering
<1>3. PICK place \in {"port wait"} : Goto(h, c, place)
  BY DEF Recovered
<1> QED
  BY <1>1, <1>2, <1>3, CallKeeps DEF Waits

\* h starts a Harness, while no Harness runs if one start is made at a time.
LEMMA SpawnKeeps ==
    ASSUME IInv, RestTyped, NEW h \in Hosts, NEW c \in Calls, call[h][c] # "idle",
           NEW record \in {owned, None}, Spawn(h, record), Goto(h, c, "idle"),
           alone /\ orderly => \A k \in Kids : ~Untouched(k),
           UNCHANGED <<bound, posix, auxVars>>
    PROVE  IInv'
<1>1. PICK place \in {"idle"} : Goto(h, c, place)
  OBVIOUS
<1>2. CASE host[h].child # None /\ owned' = record /\ UNCHANGED <<kid, host>>
  <2>1. Milder /\ ~orderly /\ owned \in Kids \cup {None}
    BY <1>2, SameIsMilder, CallerHasNone DEF IInv, RuntimeTypeOK
  <2> QED
    BY <1>1, <1>2, <2>1, CallKeeps
<1>3. ASSUME NEW k \in Kids, host[h].child = None, kid[k].run = "none",
             kid' = [kid EXCEPT ![k] = [run |-> "starting", of |-> h, port |-> host[h].port]],
             host' = [host EXCEPT ![h].child = k, ![h].pid = k],
             owned' = k
      PROVE  IInv'
  <2>1. /\ host \in [Hosts -> HostState] /\ kid \in [Kids -> KidState] /\ RuntimeTypeOK
        /\ host[h] \in HostState /\ host[h].port \in Ports /\ kid[k].of = None
        /\ \A j \in Kids : kid[j].of \in Hosts \cup {None}
        /\ \A g \in Hosts : host[g].pid \in Kids \cup {None} /\ host[g].child \in Kids \cup {None}
        /\ Serves(h)
    BY <1>3, Typed, CallerServes DEF IInv, Known
  <2> DEFINE new == [run |-> "starting", of |-> h, port |-> host[h].port]
             at == [host[h] EXCEPT !.child = k, !.pid = k]
  <2>2. new \in KidState /\ new.run = "starting" /\ new.of = h
    BY <2>1 DEF KidState, Untold
  <2>3. at \in HostState /\ at.at = host[h].at /\ at.child = k /\ at.pid = k
    BY <2>1 DEF HostState
  <2>4. kid' = [kid EXCEPT ![k] = new] /\ host' = [host EXCEPT ![h] = at]
    BY <1>3, <2>1
  <2> HIDE DEF new, at
  <2>5. /\ kid' \in [Kids -> KidState] /\ kid'[k].run = "starting" /\ kid'[k].of = h
        /\ \A j \in Kids \ {k} : kid'[j] = kid[j]
    BY <2>1, <2>2, <2>4
  <2>6. /\ host' \in [Hosts -> HostState] /\ host'[h].child = k /\ host'[h].pid = k
        /\ \A g \in Hosts \ {h} : host'[g] = host[g]
        /\ \A g \in Hosts : host'[g].at = host[g].at
    BY <2>1, <2>3, <2>4
  <2>7. \A g \in Hosts : Serves(g)' <=> Serves(g)
    BY <2>6 DEF Serves
  <2>8. /\ call' \in [Hosts -> [Calls -> {"idle"} \cup Waits]]
        /\ \A g \in Hosts : ~Serves(g) => call'[g] = call[g]
        /\ \A g \in Hosts \ {h} : call'[g] = call[g]
        /\ call'[h][c] = "idle"
        /\ \A d \in Calls \ {c} : call'[h][d] = call[h][d]
    BY <1>1, CallMoves
  <2>9. RuntimeTypeOK'
    <3>1. bound' \subseteq {g \in Hosts : host'[g].at \in Serving}
      BY <2>1, <2>6 DEF RuntimeTypeOK
    <3> QED
      BY <1>3, <2>1, <2>5, <2>6, <2>8, <3>1 DEF RuntimeTypeOK, RestTyped, KidState, HostState, ClientState, auxVars
  <2>10. \A g \in Hosts : host[g].pid # k /\ host[g].child # k
    BY <2>1, Numbers DEF IInv, Known
  <2>11. Known'
    <3>1. owned' # None => kid'[owned'].run # "none"
      BY <1>3, <2>5
    <3>2. \A j \in Kids : (kid'[j].run = "none" <=> kid'[j].of = None)
                          /\ (kid'[j].of # None => host'[kid'[j].of].at \in Serving \cup {"gone"})
      <4>1. (kid'[k].run = "none" <=> kid'[k].of = None) /\ host'[h].at \in Serving
        BY <2>1, <2>5, <2>6, Numbers DEF Serves
      <4>2. ASSUME NEW j \in Kids \ {k}
            PROVE  (kid'[j].run = "none" <=> kid'[j].of = None)
                   /\ (kid'[j].of # None => host'[kid'[j].of].at \in Serving \cup {"gone"})
        BY <2>1, <2>5, <2>6 DEF IInv, Known
      <4> QED
        BY <2>5, <4>1, <4>2
    <3>3. ASSUME NEW g \in Hosts
          PROVE  /\ host'[g].child # None => host'[g].child = host'[g].pid /\ kid'[host'[g].child].run # "reaped"
                 /\ host'[g].pid # None => kid'[host'[g].pid].of = g
      <4>1. CASE g = h
        BY <2>5, <2>6, <4>1
      <4>2. CASE g # h
        BY <2>1, <2>5, <2>6, <2>10, <4>2 DEF IInv, Known
      <4> QED
        BY <4>1, <4>2
    <3>4. \A g \in Hosts : ~Serves(g)' => call'[g] = NoCalls
      BY <2>1, <2>7, <2>8 DEF IInv, Known
    <3> QED
      BY <3>1, <3>2, <3>3, <3>4 DEF Known
  <2>12. OneServes'
    BY <2>7 DEF IInv, OneServes, auxVars
  <2>13. OneStart'
    <3> SUFFICES ASSUME orderly, NEW g \in Hosts
                 PROVE  /\ \A a, d \in Calls : call'[g][a] # "idle" /\ call'[g][d] # "idle" => a = d
                        /\ \A i, j \in Kids : Unreaped(g, i)' /\ Unreaped(g, j)' => i = j
                        /\ call'[g] # NoCalls => \A j \in Kids : ~Unreaped(g, j)'
                        /\ \A j \in Kids : kid'[j].of = g /\ Untouched(j)' /\ Serves(g)' => host'[g].child = j
      BY DEF OneStart, auxVars
    <3>1. \A j \in Kids : ~Unreaped(h, j)
      BY CallerHasNone
    <3>2. \A j \in Kids \ {k} : /\ Unreaped(g, j)' <=> Unreaped(g, j)
                                /\ Untouched(j)' <=> Untouched(j)
      BY <2>5 DEF Unreaped, Untouched
    <3>3. CASE g = h
      <4>1. \A d \in Calls : call'[h][d] = "idle"
        BY <2>8, CallerServes DEF IInv, OneStart
      <4>2. call'[h] = NoCalls
        BY <2>8, <4>1 DEF NoCalls
      <4>3. \A j \in Kids : Unreaped(h, j)' => j = k
        BY <3>1, <3>2, <3>3
      <4>4. \A j \in Kids : kid'[j].of = h /\ Untouched(j)' => j = k
        BY <4>3 DEF Unreaped, Untouched, Untold
      <4> QED
        BY <2>6, <3>3, <4>1, <4>2, <4>3, <4>4
    <3>4. CASE g # h
      <4>1. ~Unreaped(g, k)' /\ kid'[k].of # g
        BY <2>5, <3>4 DEF Unreaped
      <4>2. call'[g] = call[g] /\ host'[g] = host[g]
        BY <2>6, <2>8, <3>4
      <4>3. \A i, j \in Kids : Unreaped(g, i)' /\ Unreaped(g, j)' => i = j
        BY <3>2, <4>1 DEF IInv, OneStart
      <4>4. call'[g] # NoCalls => \A j \in Kids : ~Unreaped(g, j)'
        BY <3>2, <4>1, <4>2 DEF IInv, OneStart
      <4>5. \A j \in Kids : kid'[j].of = g /\ Untouched(j)' /\ Serves(g)' => host'[g].child = j
        BY <2>5, <2>7, <3>2, <4>1, <4>2 DEF IInv, OneStart
      <4> QED
        BY <4>2, <4>3, <4>4, <4>5 DEF IInv, OneStart
    <3> QED
      BY <3>3, <3>4
  <2>14. OnRecord'
    <3> SUFFICES ASSUME alone, orderly
                 PROVE  /\ \A j \in Kids : Untouched(j)' => owned' = j
                        /\ \A g \in Hosts, a \in Calls : call'[g][a] \in Recovering => \A j \in Kids : ~Untouched(j)'
      BY DEF OnRecord, auxVars
    <3>1. \A j \in Kids : Untouched(j)' => j = k
      BY <2>5 DEF Untouched
    <3>2. \A g \in Hosts \ {h} : call'[g] = NoCalls
      BY <2>1, <2>8 DEF IInv, Known, OneServes
    <3>3. \A d \in Calls : call'[h][d] = "idle"
      BY <2>8, CallerServes DEF IInv, OneStart
    <3>4. \A g \in Hosts, a \in Calls : call'[g][a] = "idle"
      BY <3>2, <3>3 DEF NoCalls
    <3> QED
      BY <1>3, <3>1, <3>4 DEF Recovering
  <2> QED
    BY <2>9, <2>11, <2>12, <2>13, <2>14 DEF IInv
<1> QED
  BY <1>2, <1>3 DEF Spawn

LEMMA RecoverAndSpawnKeeps ==
    ASSUME IInv, RestTyped, NEW h \in Hosts, NEW c \in Calls, call[h][c] # "idle",
           RecoverAndSpawn(h, c), UNCHANGED <<bound, posix, auxVars>>
    PROVE  IInv'
<1>1. CASE Orphaned(h) /\ kid' = Ending(owned) /\ Goto(h, c, "killing again") /\ UNCHANGED <<owned, host>>
  <2>1. /\ Milder /\ (alone /\ orderly => \A k \in Kids : ~Untouched(k)')
        /\ owned \in Kids
    BY <1>1, OrphanEnds
  <2>2. PICK place \in {"killing again"} : Goto(h, c, place)
    BY <1>1
  <2> QED
    BY <1>1, <2>1, <2>2, CallKeeps DEF Waits
<1>2. CASE ~Orphaned(h) /\ Spawn(h, Kept(h)) /\ Goto(h, c, "idle")
  <2>1. PICK record \in {owned, None} : Spawn(h, record)
    BY <1>2 DEF Kept
  <2>2. alone /\ orderly => \A k \in Kids : ~Untouched(k)
    BY <1>2, NoOrphanNoneRuns
  <2> QED
    BY <1>2, <2>1, <2>2, SpawnKeeps
<1> QED
  BY <1>1, <1>2 DEF RecoverAndSpawn

LEMMA StartsStep ==
    ASSUME IInv, NEW h \in Hosts, NEW c \in Calls,
           PortIsFree(h, c) \/ PortWaited(h, c) \/ RecoveredAgain(h, c)
    PROVE  IInv'
<1>1. UNCHANGED <<bound, posix, auxVars>> /\ RestTyped /\ call[h][c] # "idle"
  BY Rested DEF PortIsFree, PortWaited, RecoveredAgain, tallyVars, IInv, RuntimeTypeOK
<1>2. CASE RecoverAndSpawn(h, c)
  BY <1>1, <1>2, RecoverAndSpawnKeeps
<1>3. CASE RecoveredAgain(h, c)
  <2>1. alone /\ orderly => \A k \in Kids : ~Untouched(k)
    BY <1>3 DEF RecoveredAgain, IInv, OnRecord, Recovering
  <2>2. PICK record \in {None} : Spawn(h, record) /\ Goto(h, c, "idle")
    BY <1>3 DEF RecoveredAgain
  <2> QED
    BY <1>1, <2>1, <2>2, SpawnKeeps
<1> QED
  BY <1>2, <1>3 DEF PortIsFree, PortWaited

LEMMA HarnessStartStep ==
    ASSUME IInv, NEW h \in Hosts, NEW c \in Calls, HarnessStart(h, c)
    PROVE  IInv'
<1>1. /\ Serves(h) /\ call[h][c] = "idle" /\ Goto(h, c, "probing")
      /\ orderly' = (orderly /\ call[h] = NoCalls /\ \A k \in Kids : kid[k].of = h => kid[k].run = "reaped")
      /\ UNCHANGED <<bound, recordVars, host, kid, client, posix, tallyVars, alone>>
  BY DEF HarnessStart, Asked, Serves
<1>2. call \in [Hosts -> [Calls -> {"idle"} \cup Waits]] /\ call[h] \in [Calls -> {"idle"} \cup Waits]
  BY DEF IInv, RuntimeTypeOK
<1> DEFINE new == [call[h] EXCEPT ![c] = "probing"]
<1>3. /\ new \in [Calls -> {"idle"} \cup Waits] /\ new[c] = "probing"
      /\ \A d \in Calls \ {c} : new[d] = call[h][d]
  BY <1>2 DEF Waits
<1>4. call' = [call EXCEPT ![h] = new]
  BY <1>1, <1>2 DEF Goto
<1> HIDE DEF new
<1>5. /\ call' \in [Hosts -> [Calls -> {"idle"} \cup Waits]] /\ call'[h][c] = "probing"
      /\ \A d \in Calls \ {c} : call'[h][d] = call[h][d]
      /\ \A g \in Hosts \ {h} : call'[g] = call[g]
  BY <1>2, <1>3, <1>4
<1>6. orderly' \in BOOLEAN
  BY <1>1 DEF IInv, RuntimeTypeOK
<1>7. RuntimeTypeOK'
  BY <1>1, <1>5, <1>6 DEF IInv, RuntimeTypeOK, recordVars, tallyVars
<1>8. Known'
  BY <1>1, <1>5 DEF IInv, Known, Serves, recordVars
<1>9. OneServes'
  BY <1>1 DEF IInv, OneServes, Serves
<1>10. OneStart'
  <2> SUFFICES ASSUME orderly', NEW g \in Hosts
               PROVE  /\ \A a, d \in Calls : call'[g][a] # "idle" /\ call'[g][d] # "idle" => a = d
                      /\ \A i, j \in Kids : Unreaped(g, i)' /\ Unreaped(g, j)' => i = j
                      /\ call'[g] # NoCalls => \A j \in Kids : ~Unreaped(g, j)'
                      /\ \A j \in Kids : kid'[j].of = g /\ Untouched(j)' /\ Serves(g)' => host'[g].child = j
    BY DEF OneStart
  <2>1. /\ orderly /\ \A d \in Calls : call[h][d] = "idle"
        /\ \A j \in Kids : ~Unreaped(h, j)
    BY <1>1 DEF NoCalls, Unreaped
  <2>2. \A j \in Kids : (Unreaped(g, j)' <=> Unreaped(g, j)) /\ (Untouched(j)' <=> Untouched(j))
    BY <1>1 DEF Unreaped, Untouched
  <2>3. \A a, d \in Calls : call'[g][a] # "idle" /\ call'[g][d] # "idle" => a = d
    BY <1>5, <2>1 DEF IInv, OneStart
  <2>4. call'[g] # NoCalls => \A j \in Kids : ~Unreaped(g, j)'
    BY <1>5, <2>1, <2>2 DEF IInv, OneStart
  <2>5. \A i, j \in Kids : Unreaped(g, i)' /\ Unreaped(g, j)' => i = j
    BY <2>1, <2>2 DEF IInv, OneStart
  <2>6. \A j \in Kids : kid'[j].of = g /\ Untouched(j)' /\ Serves(g)' => host'[g].child = j
    BY <1>1, <2>1, <2>2 DEF IInv, OneStart, Serves
  <2> QED
    BY <2>3, <2>4, <2>5, <2>6
<1>11. OnRecord'
  <2> SUFFICES ASSUME alone, orderly'
               PROVE  /\ \A j \in Kids : Untouched(j)' => owned' = j
                      /\ \A g \in Hosts, a \in Calls : call'[g][a] \in Recovering => \A j \in Kids : ~Untouched(j)'
    BY <1>1 DEF OnRecord
  <2>1. orderly /\ owned' = owned /\ \A j \in Kids : Untouched(j)' <=> Untouched(j)
    BY <1>1 DEF Untouched, recordVars
  <2>2. \A g \in Hosts, a \in Calls : call'[g][a] \in Recovering => call[g][a] \in Recovering
    BY <1>5 DEF Recovering
  <2> QED
    BY <2>1, <2>2 DEF IInv, OnRecord
<1> QED
  BY <1>7, <1>8, <1>9, <1>10, <1>11 DEF IInv

--------------------------------------------------------------------------------
(* The theorems.                                                                 *)

LEMMA Start == RuntimeInit => IInv
<1> SUFFICES ASSUME RuntimeInit PROVE IInv
  OBVIOUS
<1>1. /\ \A h \in Hosts : host[h] = NoHost /\ call[h] = NoCalls
      /\ \A k \in Kids : kid[k] = [run |-> "none", of |-> None, port |-> 1]
      /\ owned = None /\ bound = {}
  BY DEF RuntimeInit
<1>2. RuntimeTypeOK
  <2>1. NoHost \in HostState /\ 1 \in Ports
    BY Numbers DEF NoHost, HostState
  <2>2. host \in [Hosts -> HostState]
    BY <2>1 DEF RuntimeInit
  <2>3. kid \in [Kids -> KidState]
    BY <2>1 DEF RuntimeInit, KidState
  <2>4. client \in [Clients -> ClientState]
    BY <2>1 DEF RuntimeInit, ClientState
  <2>5. call \in [Hosts -> [Calls -> {"idle"} \cup Waits]]
    BY DEF RuntimeInit, NoCalls
  <2>6. /\ bound \subseteq {h \in Hosts : host[h].at \in Serving} /\ owned \in Kids \cup {None} /\ saved \in Ports
        /\ posix \in BOOLEAN /\ alone \in BOOLEAN /\ orderly \in BOOLEAN
        /\ opens \in 0..MaxOpens /\ faults \in 0..MaxFaults
    BY <2>1, RuntimeAssumption DEF RuntimeInit
  <2> QED
    BY <2>2, <2>3, <2>4, <2>5, <2>6 DEF RuntimeTypeOK, HostState, KidState, ClientState
<1>3. Known
  BY <1>1 DEF Known, NoHost
<1>4. OneServes
  BY <1>1 DEF OneServes, Serves, Serving, NoHost
<1>5. OneStart
  BY <1>1, Numbers DEF OneStart, Serves, Serving, NoHost, NoCalls, Unreaped, Untouched, Untold
<1>6. OnRecord
  <2>1. \A k \in Kids : ~Untouched(k)
    BY <1>1 DEF Untouched, Untold
  <2> QED
    BY <2>1 DEF OnRecord
<1> QED
  BY <1>2, <1>3, <1>4, <1>5, <1>6 DEF IInv

LEMMA Step == ASSUME IInv, [RuntimeNext]_runtimeVars PROVE IInv'
<1>1. CASE UNCHANGED runtimeVars
  <2>1. RestTyped
    BY <1>1, Rested DEF runtimeVars, recordVars, tallyVars, IInv, RuntimeTypeOK
  <2> QED
    BY <1>1, <2>1, ClientKeeps DEF runtimeVars, recordVars
<1>2. ASSUME NEW c \in Clients, OpenClient(c) \/ Attaches(c) \/ Detach(c)
      PROVE  IInv'
  BY <1>2, ClientStep, ProbeStep DEF Attaches
<1>3. ASSUME NEW h \in Hosts, HostStep(h)
      PROVE  IInv'
  <2>1. CASE Check(h) \/ Bind(h) \/ Drain(h) \/ Exits(h) \/ HostDies(h) \/ HarnessStop(h)
    BY <2>1, CheckStep, BindStep, DrainStep, ExitsStep, HostDiesStep, HarnessStopStep
  <2>2. ASSUME NEW c \in Calls,
               \/ HarnessStart(h, c) \/ PortAnswers(h, c) \/ PortIsFree(h, c)
               \/ Recovered(h, c) \/ PortWaited(h, c) \/ RecoveredAgain(h, c)
        PROVE  IInv'
    BY <2>2, HarnessStartStep, PortAnswersStep, RecoveredStep, StartsStep
  <2> QED
    BY <1>3, <2>1, <2>2 DEF HostStep
<1>4. ASSUME NEW k \in Kids, Listen(k) \/ KidEnds(k) \/ ExitEvent(k)
      PROVE  IInv'
  BY <1>4, ListenStep, KidEndsStep, ExitEventStep
<1> QED
  BY <1>1, <1>2, <1>3, <1>4 DEF RuntimeNext

\* What is named was spawned, one host serves, and its Harness is the one on record: the
\* inductive invariant that serve(), harness.start and recoverOwnedStale() keep together.
THEOREM Invariance == RuntimeSpec => []IInv
<1>1. RuntimeInit => IInv
  BY Start
<1>2. IInv /\ [RuntimeNext]_runtimeVars => IInv'
  BY Step
<1> QED
  BY <1>1, <1>2, PTL DEF RuntimeSpec

\* One host serves an instance unless one was bound beside another, and a Harness which
\* nobody told to stop is on record unless starts overlapped: what host.cjs and
\* harness-service.cjs keep of docs/runtime-ui-separation.md:52.
THEOREM RuntimeIsSafe == RuntimeSpec => []RuntimeSafe
<1>1. IInv => RuntimeSafe
  BY DEF IInv, RuntimeSafe, AloneMeansOneHost, HarnessIsOnRecord, OneServes, OnRecord, Serves, Untouched
<1> QED
  BY <1>1, Invariance, PTL

--------------------------------------------------------------------------------
(* A live owner's Harness.                                                       *)

\* k is told to end by its own host, which forgets it, or when that host is gone.
Spared(k) ==
    Untouched(k) /\ kid'[k].run = "ending" =>
       LET h == kid[k].of IN ~HostLives(h) \/ (host[h].child = k /\ host'[h].child = None)

LEMMA KidSpares ==
    ASSUME IInv, NEW j \in Kids, Listen(j) \/ KidEnds(j) \/ ExitEvent(j), NEW k \in Kids
    PROVE  Spared(k)
<1>1. kid \in [Kids -> KidState] /\ kid[k] \in KidState
  BY Typed DEF IInv
<1>2. PICK run \in {"ended", "listening", "reaped"} : kid' = [kid EXCEPT ![j].run = run]
  BY DEF Listen, KidEnds, ExitEvent
<1>3. kid'[k].run \in {kid[k].run, run}
  BY <1>1, <1>2 DEF KidState
<1> QED
  BY <1>3 DEF Spared, Untouched, Untold

LEMMA StopSpares ==
    ASSUME IInv, NEW h \in Hosts, Exits(h) \/ HarnessStop(h), NEW k \in Kids
    PROVE  Spared(k)
<1>1. /\ Serves(h) /\ Stopped(h) /\ host \in [Hosts -> HostState] /\ host[h] \in HostState
      /\ \/ host' = [host EXCEPT ![h].child = None]
         \/ host' = [host EXCEPT ![h].at = "gone", ![h].child = None]
  BY Typed DEF IInv, Exits, HarnessStop, Asked, Serves, Serving
<1>2. kid'[k].run # kid[k].run => k = host[h].child /\ kid[k].of = h
  BY <1>1, StoppedIsMilder
<1>3. host'[h].child = None
  BY <1>1 DEF HostState
<1> QED
  BY <1>2, <1>3 DEF Spared, Untouched, Untold

LEMMA OrphanSpares ==
    ASSUME IInv, NEW h \in Hosts, Orphaned(h), kid' = Ending(owned), NEW k \in Kids
    PROVE  Spared(k)
BY OrphanEnds DEF Spared, Untouched, Untold

LEMMA SpawnSpares ==
    ASSUME IInv, NEW h \in Hosts, NEW record \in {owned, None}, Spawn(h, record), NEW k \in Kids
    PROVE  Spared(k)
<1>1. kid \in [Kids -> KidState]
  BY Typed DEF IInv
<1>2. CASE UNCHANGED kid
  BY <1>2 DEF Spared, Untouched, Untold
<1>3. ASSUME NEW j \in Kids, kid' = [kid EXCEPT ![j] = [run |-> "starting", of |-> h, port |-> host[h].port]]
      PROVE  kid'[k] = kid[k] \/ kid'[k].run = "starting"
  BY <1>1, <1>3
<1>4. CASE \E j \in Kids : kid' = [kid EXCEPT ![j] = [run |-> "starting", of |-> h, port |-> host[h].port]]
  BY <1>3, <1>4 DEF Spared, Untouched, Untold
<1> QED
  BY <1>2, <1>4 DEF Spawn

LEMMA CallSpares ==
    ASSUME IInv, NEW h \in Hosts, NEW c \in Calls, NEW k \in Kids,
           \/ HarnessStart(h, c) \/ PortAnswers(h, c) \/ PortIsFree(h, c)
           \/ Recovered(h, c) \/ PortWaited(h, c) \/ RecoveredAgain(h, c)
    PROVE  Spared(k)
<1>1. CASE UNCHANGED kid
  BY <1>1 DEF Spared, Untouched, Untold
<1>2. CASE Orphaned(h) /\ kid' = Ending(owned)
  BY <1>2, OrphanSpares
<1>3. CASE \E record \in {owned, None} : Spawn(h, record)
  BY <1>3, SpawnSpares
<1>4. \/ UNCHANGED kid
      \/ Orphaned(h) /\ kid' = Ending(owned)
      \/ \E record \in {owned, None} : Spawn(h, record)
  BY DEF HarnessStart, PortAnswers, PortIsFree, Recovered, PortWaited, RecoveredAgain, RecoverAndSpawn, Kept
<1> QED
  BY <1>1, <1>2, <1>3, <1>4

LEMMA EachIsSpared ==
    ASSUME IInv, [RuntimeNext]_runtimeVars, NEW k \in Kids
    PROVE  Spared(k)
<1>1. CASE UNCHANGED kid
  BY <1>1 DEF Spared, Untouched, Untold
<1>2. ASSUME NEW c \in Clients, OpenClient(c) \/ Attaches(c) \/ Detach(c)
      PROVE  UNCHANGED kid
  BY <1>2 DEF OpenClient, Attaches, Resolve, Probe, Wait, Connect, Lose, Detach
<1>3. ASSUME NEW h \in Hosts, HostStep(h)
      PROVE  Spared(k)
  <2>1. CASE Check(h) \/ Bind(h) \/ Drain(h) \/ HostDies(h)
    BY <1>1, <2>1 DEF Check, Bind, Drain, HostDies
  <2>2. CASE Exits(h) \/ HarnessStop(h)
    BY <2>2, StopSpares
  <2>3. ASSUME NEW c \in Calls,
               \/ HarnessStart(h, c) \/ PortAnswers(h, c) \/ PortIsFree(h, c)
               \/ Recovered(h, c) \/ PortWaited(h, c) \/ RecoveredAgain(h, c)
        PROVE  Spared(k)
    BY <2>3, CallSpares
  <2> QED
    BY <1>3, <2>1, <2>2, <2>3 DEF HostStep
<1>4. ASSUME NEW j \in Kids, Listen(j) \/ KidEnds(j) \/ ExitEvent(j)
      PROVE  Spared(k)
  BY <1>4, KidSpares
<1> QED
  BY <1>1, <1>2, <1>3, <1>4 DEF RuntimeNext, runtimeVars

\* However many hosts there are and however their starts overlap, recoverOwnedStale()
\* kills the Harness of no host that lives (host.cjs:226).
THEOREM LiveOwnersSpared == RuntimeSpec => LiveOwnerIsSpared
<1> DEFINE Sparing == \A k \in Kids : Spared(k)
<1>1. IInv /\ [RuntimeNext]_runtimeVars => [Sparing]_runtimeVars
  BY EachIsSpared
<1>2. Sparing <=> \A k \in Kids : kid[k].run \in Untold /\ kid'[k].run = "ending" =>
            LET h == kid[k].of IN ~HostLives(h) \/ (host[h].child = k /\ host'[h].child = None)
  BY DEF Spared, Untouched
<1> QED
  BY <1>1, <1>2, Invariance, PTL DEF RuntimeSpec, LiveOwnerIsSpared

================================================================================
