------------------------------ MODULE Convert ------------------------------
(***************************************************************************)
(* The conversion of office documents to PDF: every worker thread has a    *)
(* unoserver listener of its own (`InlineUnoserver`), a process that keeps *)
(* LibreOffice running between documents, and falls back to a LibreOffice  *)
(* per document, on a borrowed profile (`SpawnProfiles`), when it has none *)
(* or loses it.                                                            *)
(***************************************************************************)
EXTENDS Naturals, FiniteSets

CONSTANTS
    Threads,    \* the worker's threads, those that replace others included
    Ports,      \* local ports
    Docs,       \* documents
    Damaged,    \* documents LibreOffice cannot convert
    Stuck,      \* documents LibreOffice never comes to an end with
    MaxJobs,    \* bound on conversions
    MaxFaults,  \* bound on processes that hang, die or come up too late, and on
                \* exceptions of a conversion
    NoThread, NoPort, NoDoc, NoProfile

Profiles == 1..Cardinality(Threads)

ASSUME ConvertAssumption ==
    /\ IsFiniteSet(Threads)
    /\ Damaged \subseteq Docs /\ Stuck \subseteq Docs
    /\ MaxJobs \in Nat /\ MaxFaults \in Nat
    /\ NoProfile \notin Nat

VARIABLES
    pc, doc,   \* what each thread is doing, with which document
    result,    \* what became of it
    hindered,  \* threads whose attempt at it has itself met with a failure
    failed,    \* threads whose listener could not be started
    uri,       \* the port of each thread's listener
    process,   \* the state of each thread's listener
    running,   \* InlineUnoserver._running
    server,    \* the thread whose listener has each thread's request
    free,      \* SpawnProfiles._free
    made,      \* how many profiles were made
    lent,      \* the profile each thread has borrowed
    phase,     \* the worker: "running", or how far its exit has got
    jobs, faults

client == <<pc, doc, result, hindered>>
listener == <<failed, uri, process, running, server>>
profile == <<free, made, lent>>
bounds == <<jobs, faults>>
vars == <<client, listener, profile, phase, bounds>>

-----------------------------------------------------------------------------
Goto(t, step) == pc' = [pc EXCEPT ![t] = step]

(* An outcome of the document ends the thread's conversion. *)
Return(t, outcome) ==
    /\ Goto(t, "idle")
    /\ result' = [result EXCEPT ![t] = outcome]
    /\ UNCHANGED doc

(* The listener answers; that of a LibreOffice that has crashed under it,   *)
(* with an error.                                                          *)
Answering == {"ready", "crashed"}

(* process.poll() is None *)
Alive(t) == process[t] \in {"starting", "bound", "ready", "crashed", "wedged", "killed"}
Serves(t, p) == uri[t] = p /\ process[t] \in {"bound", "ready", "crashed", "wedged"}

(* The listeners of some threads end; requests they had are lost. *)
End(gone) ==
    /\ process' = [t \in Threads |-> IF t \in DOMAIN gone THEN gone[t] ELSE process[t]]
    /\ server' = [t \in Threads |-> IF server[t] \in DOMAIN gone THEN NoThread ELSE server[t]]

(* InlineUnoserver.stop, of several listeners: a process that outlasts the *)
(* wait for its end is killed, and may be there a moment longer.           *)
Stop(stopped) ==
    /\ running' = running \ stopped
    /\ \E gone \in [{t \in stopped : Alive(t)} -> {"exited", "killed"}] : End(gone)

Fault ==
    /\ faults < MaxFaults
    /\ faults' = faults + 1
    /\ UNCHANGED jobs

-----------------------------------------------------------------------------
(* A thread: _document_to_pdf *)

Begin(t) ==
    /\ phase = "running" /\ pc[t] = "idle" /\ jobs < MaxJobs
    /\ jobs' = jobs + 1
    /\ \E d \in Docs : doc' = [doc EXCEPT ![t] = d]
    /\ result' = [result EXCEPT ![t] = "none"]
    /\ hindered' = hindered \ {t}
    /\ Goto(t, "ensure")
    /\ UNCHANGED <<listener, profile, phase, faults>>

(* InlineUnoserver.ensure, of a listener that failed or runs. *)
Ensure(t) ==
    /\ pc[t] = "ensure"
    /\ \/ t \in failed /\ Goto(t, "borrow")
       \/ t \notin failed /\ Alive(t) /\ Goto(t, "request")
    /\ UNCHANGED <<doc, result, hindered, listener, profile, phase, bounds>>

(* InlineUnoserver.ensure, otherwise: first, stop_orphaned. *)
StopOrphaned(t) ==
    /\ pc[t] = "ensure" /\ t \notin failed /\ ~Alive(t)
    /\ Stop({u \in running : pc[u] = "ended"})
    /\ Goto(t, "ports")
    /\ UNCHANGED <<doc, result, hindered, failed, uri, profile, phase, bounds>>

(* free_ports: a port nobody has bound, right now. *)
FreePort(t) ==
    /\ pc[t] = "ports"
    /\ \E p \in Ports :
        /\ \A u \in Threads : ~Serves(u, p)
        /\ uri' = [uri EXCEPT ![t] = p]
    /\ Goto(t, "popen")
    /\ UNCHANGED <<doc, result, hindered, failed, process, running, server, profile, phase, bounds>>

(* Mutant: the listener is not registered. *)
Popen_Unregistered(t) ==
    /\ pc[t] = "popen"
    /\ process' = [process EXCEPT ![t] = "starting"]
    /\ Goto(t, "probe")
    /\ UNCHANGED <<doc, result, hindered, failed, uri, running, server, profile, phase, bounds>>

Popen(t) ==
    /\ pc[t] = "popen"
    /\ process' = [process EXCEPT ![t] = "starting"]
    /\ running' = running \union {t}
    /\ Goto(t, "probe")
    /\ UNCHANGED <<doc, result, hindered, failed, uri, server, profile, phase, bounds>>

(* proxy.info() is answered, by whoever listens on the port. *)
Probe(t) ==
    /\ pc[t] = "probe" /\ Alive(t)
    /\ \E s \in Threads : Serves(s, uri[t]) /\ process[s] \in Answering
    /\ Goto(t, "request")
    /\ UNCHANGED <<doc, result, hindered, listener, profile, phase, bounds>>

(* The listener exited, or is not ready at the deadline: it hangs, or is too *)
(* slow (a fault).                                                           *)
GiveUp(t) ==
    /\ pc[t] = "probe" /\ process[t] \notin Answering
    /\ IF process[t] \in {"starting", "bound"} THEN Fault ELSE UNCHANGED bounds
    /\ Stop({t})
    /\ failed' = failed \union {t}
    /\ Goto(t, "borrow")
    /\ UNCHANGED <<doc, result, hindered, uri, profile, phase>>

(* proxy.convert: the request reaches whoever listens on the port. *)
Request(t) ==
    /\ pc[t] = "request"
    /\ \/ \E s \in Threads :
            /\ Serves(s, uri[t])
            /\ server' = [server EXCEPT ![t] = s]
            /\ hindered' = IF process[s] = "crashed" THEN hindered \union {t} ELSE hindered
            /\ Goto(t, "reply")
       \/ /\ \A s \in Threads : ~Serves(s, uri[t])
          /\ Goto(t, "stop")
          /\ UNCHANGED <<server, hindered>>
    /\ UNCHANGED <<doc, result, failed, uri, process, running, profile, phase, bounds>>

(* The listener converts the document, or answers that it cannot, a Fault.  *)
Reply(t) ==
    /\ pc[t] = "reply" /\ server[t] # NoThread
    /\ \/ /\ process[server[t]] = "ready" /\ doc[t] \notin Stuck
          /\ Return(t, IF doc[t] \in Damaged THEN "rejected" ELSE "pdf")
       \/ process[server[t]] = "crashed" /\ Return(t, "rejected")
    /\ server' = [server EXCEPT ![t] = NoThread]
    /\ UNCHANGED <<hindered, failed, uri, process, running, profile, phase, bounds>>

(* Whatever else goes wrong as it converts the document is a Fault as well. *)
ReplyFault(t) ==
    /\ pc[t] = "reply" /\ server[t] # NoThread /\ process[server[t]] = "ready"
    /\ Fault
    /\ Return(t, "rejected")
    /\ hindered' = hindered \union {t}
    /\ server' = [server EXCEPT ![t] = NoThread]
    /\ UNCHANGED <<failed, uri, process, running, profile, phase>>

(* The listener's conversion timeout: it answers so, and exits. *)
ListenerTimeout(t) ==
    /\ pc[t] = "reply" /\ server[t] # NoThread /\ process[server[t]] = "ready"
    /\ doc[t] \in Stuck
    /\ Return(t, "rejected")
    /\ End([s \in {server[t]} |-> "exited"])
    /\ UNCHANGED <<hindered, failed, uri, running, profile, phase, bounds>>

(* Mutant: the client waits for a hung listener. *)
Unavailable_NoTimeout(t) ==
    /\ pc[t] = "reply"
    /\ server[t] = NoThread
    /\ Goto(t, "stop")
    /\ server' = [server EXCEPT ![t] = NoThread]
    /\ UNCHANGED <<doc, result, hindered, failed, uri, process, running, profile, phase, bounds>>

(* Mutant: an unreachable listener fails the document. *)
Unavailable_Rejected(t) ==
    /\ pc[t] = "reply"
    /\ server[t] # NoThread => process[server[t]] = "wedged"
    /\ Return(t, "rejected")
    /\ server' = [server EXCEPT ![t] = NoThread]
    /\ UNCHANGED <<hindered, failed, uri, process, running, profile, phase, bounds>>

(* UnoserverUnavailable: the listener is gone, or has not answered within  *)
(* the client's timeout, which is longer than the listener's own.          *)
Unavailable(t) ==
    /\ pc[t] = "reply"
    /\ server[t] # NoThread => process[server[t]] = "wedged"
    /\ Goto(t, "stop")
    /\ server' = [server EXCEPT ![t] = NoThread]
    /\ hindered' = hindered \ {t}
    /\ UNCHANGED <<doc, result, failed, uri, process, running, profile, phase, bounds>>

StopListener(t) ==
    /\ pc[t] = "stop"
    /\ Stop({t})
    /\ Goto(t, "borrow")
    /\ UNCHANGED <<doc, result, hindered, failed, uri, profile, phase, bounds>>

(* Mutant: the profile stays in the list of free ones. *)
Borrow_Shared(t) ==
    /\ pc[t] = "borrow"
    /\ IF free = {}
       THEN Goto(t, "make") /\ UNCHANGED <<free, lent>>
       ELSE /\ Goto(t, "spawn")
            /\ \E p \in free : lent' = [lent EXCEPT ![t] = p]
            /\ UNCHANGED free
    /\ UNCHANGED <<doc, result, hindered, listener, made, phase, bounds>>

(* SpawnProfiles.borrow: a free profile, or a new one. *)
Borrow(t) ==
    /\ pc[t] = "borrow"
    /\ IF free = {}
       THEN Goto(t, "make") /\ UNCHANGED <<free, lent>>
       ELSE /\ Goto(t, "spawn")
            /\ \E p \in free :
                /\ lent' = [lent EXCEPT ![t] = p]
                /\ free' = free \ {p}
    /\ UNCHANGED <<doc, result, hindered, listener, made, phase, bounds>>

(* mkdtemp, outside of the lock *)
MakeProfile(t) ==
    /\ pc[t] = "make"
    /\ made' = made + 1
    /\ lent' = [lent EXCEPT ![t] = made + 1]
    /\ Goto(t, "spawn")
    /\ UNCHANGED <<doc, result, hindered, listener, free, phase, bounds>>

(* Mutant: the profile is not given back when the conversion fails. *)
Spawn_Leaked(t) ==
    /\ pc[t] = "spawn"
    /\ Return(t, IF doc[t] \in Damaged \union Stuck THEN "rejected" ELSE "pdf")
    /\ free' = IF doc[t] \in Damaged \union Stuck THEN free ELSE free \union {lent[t]}
    /\ lent' = [lent EXCEPT ![t] = NoProfile]
    /\ UNCHANGED <<hindered, listener, made, phase, bounds>>

(* LibreOffice ends, or is killed at the timeout; the profile is given back. *)
Spawn(t) ==
    /\ pc[t] = "spawn"
    /\ Return(t, IF doc[t] \in Damaged \union Stuck THEN "rejected" ELSE "pdf")
    /\ free' = free \union {lent[t]}
    /\ lent' = [lent EXCEPT ![t] = NoProfile]
    /\ UNCHANGED <<hindered, listener, made, phase, bounds>>

(* Every exception of the spawn rejects the document: no profile, process or *)
(* output, or a LibreOffice that crashes.                                    *)
SpawnFails(t) ==
    /\ pc[t] \in {"make", "spawn"}
    /\ Fault
    /\ Return(t, "rejected")
    /\ hindered' = hindered \union {t}
    /\ free' = free \union ({lent[t]} \ {NoProfile})
    /\ lent' = [lent EXCEPT ![t] = NoProfile]
    /\ UNCHANGED <<listener, made, phase>>

(* An exception no handler names leaves the conversion: no port, process or  *)
(* directory, or an answer that is none of the protocol's.                   *)
Escape(t) ==
    /\ pc[t] \in {"ports", "popen", "probe", "reply", "borrow"}
    /\ Fault
    /\ Return(t, "raised")
    /\ server' = [server EXCEPT ![t] = NoThread]
    /\ UNCHANGED <<hindered, failed, uri, process, running, profile, phase>>

EndThread(t) ==
    /\ pc[t] = "idle"
    /\ Goto(t, "ended")
    /\ doc' = [doc EXCEPT ![t] = NoDoc]
    /\ result' = [result EXCEPT ![t] = "none"]
    /\ hindered' = hindered \ {t}
    /\ UNCHANGED <<listener, profile, phase, bounds>>

-----------------------------------------------------------------------------
(* The listener processes *)

(* A listener binds its port, or exits if another one has it. *)
Bind(t) ==
    /\ process[t] = "starting"
    /\ IF \E u \in Threads : Serves(u, uri[t])
       THEN End([s \in {t} |-> "exited"])
       ELSE process' = [process EXCEPT ![t] = "bound"] /\ UNCHANGED server
    /\ UNCHANGED <<client, failed, uri, running, profile, phase, bounds>>

(* LibreOffice is up: the listener answers. *)
Connect(t) ==
    /\ process[t] = "bound"
    /\ process' = [process EXCEPT ![t] = "ready"]
    /\ UNCHANGED <<client, failed, uri, running, server, profile, phase, bounds>>

(* A process that was killed ends, and one whose LibreOffice has crashed.   *)
Reap(t) ==
    /\ process[t] \in {"killed", "crashed"}
    /\ End([s \in {t} |-> "exited"])
    /\ UNCHANGED <<client, failed, uri, running, profile, phase, bounds>>

(* A listener dies, hangs, or loses its LibreOffice and goes on to answer.  *)
Break(t) ==
    /\ Fault
    /\ \/ /\ process[t] \in {"starting", "bound", "ready"}
          /\ End([s \in {t} |-> "exited"])
          /\ UNCHANGED hindered
       \/ /\ process[t] = "ready"
          /\ process' = [process EXCEPT ![t] = "wedged"]
          /\ UNCHANGED <<server, hindered>>
       \/ /\ process[t] = "ready"
          /\ process' = [process EXCEPT ![t] = "crashed"]
          /\ hindered' = hindered \union {u \in Threads : server[u] = t}
          /\ UNCHANGED server
    /\ UNCHANGED <<pc, doc, result, failed, uri, running, profile, phase>>

-----------------------------------------------------------------------------
(* The worker exits: its threads are joined, then the atexit handlers run, *)
(* the last registered first.                                              *)

Joined == \A t \in Threads : pc[t] = "ended"

RemoveProfiles ==
    /\ phase = "running" /\ Joined
    /\ free' = {}
    /\ phase' = "removed"
    /\ UNCHANGED <<client, listener, made, lent, bounds>>

StopAll ==
    /\ phase = "removed"
    /\ Stop(running)
    /\ phase' = "stopped"
    /\ UNCHANGED <<client, failed, uri, profile, bounds>>

ThreadStep(t) ==
    \/ Ensure(t) \/ StopOrphaned(t) \/ FreePort(t) \/ Popen(t) \/ Probe(t) \/ GiveUp(t)
    \/ Request(t) \/ Reply(t) \/ ListenerTimeout(t) \/ Unavailable(t) \/ StopListener(t)
    \/ Borrow(t) \/ MakeProfile(t) \/ Spawn(t)

(* What goes wrong in a conversion, beside the listener. *)
ThreadFault(t) == ReplyFault(t) \/ SpawnFails(t) \/ Escape(t)

ProcessStep(t) == Bind(t) \/ Connect(t) \/ Reap(t)

Init ==
    /\ pc = [t \in Threads |-> "idle"] /\ doc = [t \in Threads |-> NoDoc]
    /\ result = [t \in Threads |-> "none"]
    /\ hindered = {} /\ failed = {} /\ running = {}
    /\ uri = [t \in Threads |-> NoPort] /\ process = [t \in Threads |-> "none"]
    /\ server = [t \in Threads |-> NoThread]
    /\ free = {} /\ made = 0 /\ lent = [t \in Threads |-> NoProfile]
    /\ phase = "running" /\ jobs = 0 /\ faults = 0

Next ==
    \/ \E t \in Threads :
        \/ Begin(t) \/ ThreadStep(t) \/ ThreadFault(t) \/ EndThread(t)
        \/ ProcessStep(t) \/ Break(t)
    \/ RemoveProfiles \/ StopAll
    \/ phase = "stopped" /\ UNCHANGED vars

Spec == Init /\ [][Next]_vars
FairSpec == Spec /\ \A t \in Threads : WF_vars(ThreadStep(t)) /\ WF_vars(ProcessStep(t))

-----------------------------------------------------------------------------
(* Properties *)

Steps == {"idle", "ensure", "ports", "popen", "probe", "request", "reply", "stop",
          "borrow", "make", "spawn", "ended"}

(* Every variable has its type; there are never more profiles than threads, *)
(* each is given back to be used again (convert.py:182-202).                *)
TypeOK ==
    /\ pc \in [Threads -> Steps]
    /\ doc \in [Threads -> Docs \union {NoDoc}]
    /\ result \in [Threads -> {"none", "pdf", "rejected", "raised"}]
    /\ hindered \subseteq Threads
    /\ failed \subseteq Threads /\ running \subseteq Threads
    /\ uri \in [Threads -> Ports \union {NoPort}]
    /\ process \in [Threads -> {"none", "starting", "bound", "ready", "crashed", "wedged", "killed",
                             "exited"}]
    /\ server \in [Threads -> Threads \union {NoThread}]
    /\ free \subseteq Profiles /\ made \in 0..Cardinality(Threads)
    /\ lent \in [Threads -> Profiles \union {NoProfile}]
    /\ phase \in {"running", "removed", "stopped"}
    /\ jobs \in 0..MaxJobs /\ faults \in 0..MaxFaults

(* Two LibreOffice processes never run on one profile, which would lose     *)
(* documents, and none runs on one that may be borrowed (convert.py:183).   *)
ProfilesAreExclusive ==
    \A t \in Threads : lent[t] # NoProfile =>
        /\ lent[t] \notin free
        /\ \A u \in Threads \ {t} : lent[u] # lent[t]

(* A document is only rejected for what it is, or because the LibreOffice   *)
(* that has this very document crashed, or what the spawn needs for it      *)
(* failed. A listener that is late, hangs, ends or has lost its port costs  *)
(* no document: the thread spawns LibreOffice for it (convert.py:284-300).  *)
RejectedForCause ==
    \A t \in Threads : result[t] = "rejected" => doc[t] \in Damaged \union Stuck \/ t \in hindered

(* No listener outlives the worker: those of its threads, of threads that   *)
(* ended, and those that hang are stopped (convert.py:170-179).             *)
NoneOutlivesWorker ==
    phase = "stopped" => \A t \in Threads : process[t] \in {"none", "exited", "killed"}

(* A conversion comes to an end, although listeners hang (convert.py:237). *)
ConversionsEnd == \A t \in Threads : pc[t] = "ensure" ~> pc[t] \in {"idle", "ended"}

(* A listener serves the documents of its own thread (convert.py:60-63): it *)
(* never has the requests of two threads.                                   *)
ListenersAreOwn ==
    \A s \in Threads : Cardinality({t \in Threads : server[t] = s}) <= 1

=============================================================================
