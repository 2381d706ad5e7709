------------------------------ MODULE MCHandover -------------------------------
(* Two systems for TLC, of which a behaviour shows one: the companion and the     *)
(* application it watches (RestartHandover), or the runtime hosts of an instance  *)
(* (RuntimeHost), with one client and every bound, or with more clients and fewer *)
(* processes.                                                                     *)
EXTENDS RestartHandover, RuntimeHost

CONSTANTS
    Lone,              \* the client of the instances with one client
    Few,               \* bound: hosts, and Harnesses, where there are more clients
    FewFaults          \* bound: faults where there are more clients

VARIABLE subject

MCInit ==
    /\ Init /\ RuntimeInit
    /\ subject \in {"companion", "one client", "clients"}
    /\ subject = "companion" => ~posix

\* The bounds of the two instances of RuntimeHost.
Within ==
    IF subject = "one client"
    THEN \A c \in Clients \ {Lone} : client'[c].at = "off"
    ELSE /\ faults' <= FewFaults
         /\ \A h \in Hosts : h > Few => host'[h].at = "none"
         /\ \A k \in Kids : k > Few => kid'[k].run = "none"

Watch(action) == subject = "companion" /\ action /\ UNCHANGED <<runtimeVars, subject>>
Serve(action) == subject # "companion" /\ action /\ Within /\ UNCHANGED <<vars, subject>>

allVars == <<vars, runtimeVars, subject>>

MCSpec ==
    /\ MCInit /\ [][Watch(Next) \/ Serve(RuntimeNext)]_allVars
    /\ WF_allVars(Watch(AppProceeds)) /\ \A c \in Comps : WF_allVars(Watch(Proceed(c)))
    /\ \A c \in Clients : WF_allVars(Serve(Attaches(c)))

================================================================================
