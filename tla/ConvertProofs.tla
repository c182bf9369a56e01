--------------------------- MODULE ConvertProofs ---------------------------
(***************************************************************************)
(* For every number of threads, ports, documents and faults: LibreOffice   *)
(* profiles are exclusive, a document is rejected for what it is or for    *)
(* what befell it, and no listener outlives the worker.                    *)
(***************************************************************************)
EXTENDS Convert, FiniteSetTheorems, TLAPS

USE ConvertAssumption

(* Profiles are numbered as they are made; a thread has one exactly while  *)
(* it spawns LibreOffice, and none that is free or another thread's.       *)
Accounted ==
    /\ pc \in [Threads -> Steps]
    /\ made \in Nat /\ free \subseteq 1..made
    /\ lent \in [Threads -> (1..made) \union {NoProfile}]
    /\ \A t \in Threads : lent[t] # NoProfile <=> pc[t] = "spawn"
    /\ ProfilesAreExclusive

(* A step that leaves the profiles alone, of a thread that has none. *)
LEMMA OtherSteps ==
    ASSUME Accounted, UNCHANGED profile, NEW t \in Threads, pc[t] # "spawn",
           NEW step \in Steps \ {"spawn"}, Goto(t, step)
    PROVE  Accounted'
BY DEF Accounted, ProfilesAreExclusive, profile, Goto

(* Conversions through a listener keep the profiles accounted for. *)
LEMMA ListenerSteps ==
    ASSUME Accounted, NEW t \in Threads,
           \/ Begin(t) \/ Ensure(t) \/ StopOrphaned(t) \/ FreePort(t) \/ Popen(t)
           \/ Probe(t) \/ GiveUp(t) \/ Request(t) \/ Reply(t) \/ ListenerTimeout(t)
           \/ Unavailable(t) \/ StopListener(t) \/ EndThread(t) \/ ReplyFault(t) \/ Escape(t)
    PROVE  Accounted'
<1>1. UNCHANGED profile /\ pc[t] # "spawn"
  BY DEF Begin, Ensure, StopOrphaned, FreePort, Popen, Probe, GiveUp, Request, Reply,
         ListenerTimeout, Unavailable, StopListener, EndThread, ReplyFault, Escape
<1>2. \E step \in Steps \ {"spawn"} : Goto(t, step)
  BY DEF Begin, Ensure, StopOrphaned, FreePort, Popen, Probe, GiveUp, Request, Reply,
         ListenerTimeout, Unavailable, StopListener, EndThread, ReplyFault, Escape, Return, Steps
<1> QED BY <1>1, <1>2, OtherSteps

(* Borrowing, making and giving back a profile keeps it accounted for. *)
LEMMA ProfileSteps ==
    ASSUME Accounted, NEW t \in Threads, Borrow(t) \/ MakeProfile(t) \/ Spawn(t) \/ SpawnFails(t)
    PROVE  Accounted'
<1> USE DEF Accounted, ProfilesAreExclusive, Goto, Steps
<1>1. CASE Borrow(t) /\ free = {}
  BY <1>1 DEF Borrow
<1>2. CASE Borrow(t) /\ free # {}
  <2>1. PICK p \in free : lent' = [lent EXCEPT ![t] = p] /\ free' = free \ {p}
    BY <1>2 DEF Borrow
  <2>2. p \in 1..made /\ p # NoProfile
    BY <2>1
  <2>3. \A u \in Threads : lent[u] # p
    BY <2>1, <2>2
  <2>4. made' = made /\ pc' = [pc EXCEPT ![t] = "spawn"]
    BY <1>2 DEF Borrow
  <2> QED BY <2>1, <2>2, <2>3, <2>4
<1>3. CASE MakeProfile(t)
  <2>1. made + 1 \notin 1..made /\ 1..made \subseteq 1..(made + 1)
        /\ made + 1 \in 1..(made + 1) /\ made + 1 # NoProfile
    OBVIOUS
  <2>2. /\ made' = made + 1 /\ lent' = [lent EXCEPT ![t] = made + 1]
        /\ pc' = [pc EXCEPT ![t] = "spawn"] /\ free' = free
    BY <1>3 DEF MakeProfile
  <2>3. lent' \in [Threads -> (1..made') \union {NoProfile}] /\ free' \subseteq 1..made'
    BY <2>1, <2>2
  <2>4. \A u \in Threads \ {t} : lent'[u] = lent[u] /\ lent'[u] # lent'[t]
    BY <2>1, <2>2
  <2> QED BY <2>1, <2>2, <2>3, <2>4
<1>4. CASE Spawn(t)
  <2>1. /\ free' = free \union {lent[t]} /\ lent' = [lent EXCEPT ![t] = NoProfile]
        /\ pc' = [pc EXCEPT ![t] = "idle"] /\ made' = made /\ pc[t] = "spawn"
    BY <1>4 DEF Spawn, Return
  <2>2. lent[t] \in 1..made
    BY <2>1
  <2> QED BY <2>1, <2>2
<1>5. CASE SpawnFails(t)
  <2>1. /\ free' = free \union ({lent[t]} \ {NoProfile}) /\ lent' = [lent EXCEPT ![t] = NoProfile]
        /\ pc' = [pc EXCEPT ![t] = "idle"] /\ made' = made
    BY <1>5 DEF SpawnFails, Return
  <2>2. {lent[t]} \ {NoProfile} \subseteq 1..made
    OBVIOUS
  <2> QED BY <2>1, <2>2
<1> QED BY <1>1, <1>2, <1>3, <1>4, <1>5

(* Every step keeps the profiles accounted for.                            *)
LEMMA AccountedStep == Accounted /\ [Next]_vars => Accounted'
<1> SUFFICES ASSUME Accounted, [Next]_vars
             PROVE  Accounted'
  OBVIOUS
<1>1. ASSUME UNCHANGED pc, UNCHANGED <<made, lent>>, free' \subseteq free
      PROVE  Accounted'
  BY <1>1 DEF Accounted, ProfilesAreExclusive
<1>2. CASE UNCHANGED vars
  BY <1>1, <1>2 DEF vars, client, profile
<1>3. CASE RemoveProfiles \/ StopAll
  BY <1>1, <1>3 DEF RemoveProfiles, StopAll, client, profile
<1>4. ASSUME NEW t \in Threads, ProcessStep(t) \/ Break(t)
      PROVE  Accounted'
  BY <1>1, <1>4 DEF ProcessStep, Bind, Connect, Reap, Break, client, profile
<1> QED BY <1>2, <1>3, <1>4, ListenerSteps, ProfileSteps DEF Next, ThreadStep, ThreadFault

(* Two LibreOffice processes never run on one profile, and none runs on one *)
(* that may be borrowed (convert.py:182-202).                               *)
THEOREM ProfilesExclusive == Spec => []ProfilesAreExclusive
<1>1. Init => Accounted
  BY DEF Init, Accounted, ProfilesAreExclusive, Steps
<1>2. Accounted => ProfilesAreExclusive
  BY DEF Accounted
<1> QED BY <1>1, <1>2, AccountedStep, PTL DEF Spec

-----------------------------------------------------------------------------
(* Listeners *)

Lasting == {"starting", "bound", "ready", "crashed", "wedged"}

(* A listener that would go on is registered.                               *)
Listed ==
    /\ process \in [Threads -> Lasting \union {"none", "killed", "exited"}]
    /\ running \subseteq Threads
    /\ \A t \in Threads : process[t] \in Lasting => t \in running

(* Once the worker exits, its threads have ended and start no listener.     *)
Registered ==
    /\ Listed
    /\ pc \in [Threads -> Steps]
    /\ phase \in {"running", "removed", "stopped"}
    /\ phase # "running" => Joined
    /\ phase = "stopped" => running = {}

(* Listeners that are stopped do not go on.                                 *)
LEMMA StopKeeps ==
    ASSUME Listed, NEW stopped \in SUBSET Threads, Stop(stopped)
    PROVE  Listed' /\ running' = running \ stopped
<1>1. PICK gone \in [{t \in stopped : Alive(t)} -> {"exited", "killed"}] : End(gone)
  BY DEF Stop
<1>2. \A t \in Threads : process'[t] = IF t \in stopped /\ Alive(t) THEN gone[t] ELSE process[t]
  BY <1>1 DEF End
<1>3. process' \in [Threads -> Lasting \union {"none", "killed", "exited"}]
  BY <1>1 DEF End, Listed
<1>4. ASSUME NEW t \in Threads, process'[t] \in Lasting PROVE t \in running \ stopped
  <2>1. CASE t \in stopped /\ Alive(t)
    BY <1>1, <1>2, <1>4, <2>1 DEF Lasting
  <2>2. CASE t \in stopped /\ ~Alive(t)
    BY <1>2, <1>4, <2>2 DEF Lasting, Alive
  <2>3. CASE t \notin stopped
    BY <1>2, <1>4, <2>3 DEF Listed
  <2> QED BY <2>1, <2>2, <2>3
<1> QED BY <1>3, <1>4 DEF Stop, Listed

(* So do listeners that end by themselves.                                  *)
LEMMA ExitKeeps ==
    ASSUME Listed, NEW s \in Threads, End([t \in {s} |-> "exited"]), UNCHANGED running
    PROVE  Listed'
  BY DEF Listed, End, Lasting

(* A thread that steps has not ended: the worker waits for it to exit.      *)
LEMMA ThreadSteps ==
    ASSUME Registered, NEW t \in Threads, pc[t] # "ended", NEW step \in Steps, Goto(t, step),
           UNCHANGED phase, Listed'
    PROVE  Registered'
<1>1. phase = "running" /\ pc' \in [Threads -> Steps]
  BY DEF Registered, Joined, Goto
<1> QED BY <1>1 DEF Registered

(* Each step of a thread starts a listener and registers it, stops          *)
(* listeners, ends one or leaves them alone.                                *)
LEMMA StepsList ==
    ASSUME Registered, NEW t \in Threads, Begin(t) \/ ThreadStep(t) \/ ThreadFault(t) \/ EndThread(t)
    PROVE  Listed'
<1>1. Listed
  BY DEF Registered
<1>2. ASSUME UNCHANGED <<process, running>> PROVE Listed'
  BY <1>1, <1>2 DEF Listed
<1>3. CASE StopOrphaned(t)
  BY <1>1, <1>3, StopKeeps DEF StopOrphaned, Listed
<1>4. CASE GiveUp(t) \/ StopListener(t)
  BY <1>1, <1>4, StopKeeps DEF GiveUp, StopListener
<1>5. CASE Popen(t)
  BY <1>1, <1>5 DEF Popen, Listed, Lasting
<1>6. CASE ListenerTimeout(t)
  <2>1. server[t] # NoThread /\ process[server[t]] = "ready"
    BY <1>6 DEF ListenerTimeout
  <2>2. process' = [s \in Threads |-> IF s = server[t] THEN "exited" ELSE process[s]]
    BY <1>6 DEF ListenerTimeout, End
  <2>3. running' = running
    BY <1>6 DEF ListenerTimeout
  <2> QED BY <1>1, <2>2, <2>3 DEF Listed, Lasting
<1>7. CASE \/ Begin(t) \/ Ensure(t) \/ FreePort(t) \/ Probe(t) \/ Request(t) \/ Reply(t)
           \/ Unavailable(t) \/ Borrow(t) \/ MakeProfile(t) \/ Spawn(t) \/ EndThread(t)
           \/ ReplyFault(t) \/ SpawnFails(t) \/ Escape(t)
  BY <1>2, <1>7 DEF Begin, Ensure, FreePort, Probe, Request, Reply, Unavailable, Borrow,
     MakeProfile, Spawn, EndThread, ReplyFault, SpawnFails, Escape, listener
<1> QED BY <1>3, <1>4, <1>5, <1>6, <1>7 DEF ThreadStep, ThreadFault

(* Every step keeps the listeners registered that would go on.             *)
LEMMA RegisteredStep == Registered /\ [Next]_vars => Registered'
<1> SUFFICES ASSUME Registered, [Next]_vars PROVE Registered'
  OBVIOUS
<1>1. Listed
  BY DEF Registered
<1>2. ASSUME NEW t \in Threads, Begin(t) \/ ThreadStep(t) \/ ThreadFault(t) \/ EndThread(t)
      PROVE  Registered'
  <2>1. Listed'
    BY <1>2, StepsList
  <2>2. pc[t] # "ended" /\ phase' = phase
    BY <1>2 DEF Begin, ThreadStep, EndThread, Ensure, StopOrphaned, FreePort, Popen, Probe, GiveUp,
       Request, Reply, ListenerTimeout, Unavailable, StopListener, Borrow, MakeProfile, Spawn,
       ThreadFault, ReplyFault, SpawnFails, Escape
  <2>3. \E step \in Steps : Goto(t, step)
    BY <1>2 DEF Begin, ThreadStep, EndThread, Ensure, StopOrphaned, FreePort, Popen, Probe, GiveUp,
       Request, Reply, ListenerTimeout, Unavailable, StopListener, Borrow, MakeProfile, Spawn,
       ThreadFault, ReplyFault, SpawnFails, Escape, Return, Steps
  <2> QED BY <2>1, <2>2, <2>3, ThreadSteps
<1>3. ASSUME Listed', UNCHANGED <<pc, running, phase>> PROVE Registered'
  BY <1>3 DEF Registered, Joined
<1>4. ASSUME NEW t \in Threads, ProcessStep(t) \/ Break(t) PROVE Registered'
  <2>1. UNCHANGED <<pc, running, phase>>
    BY <1>4 DEF ProcessStep, Bind, Connect, Reap, Break, client
  <2>2. \/ End([s \in {t} |-> "exited"])
        \/ process[t] \in Lasting /\ \E p \in Lasting : process' = [process EXCEPT ![t] = p]
    BY <1>4 DEF ProcessStep, Bind, Connect, Reap, Break, Lasting
  <2>3. Listed'
    BY <1>1, <2>1, <2>2, ExitKeeps DEF Listed, Lasting
  <2> QED BY <1>3, <2>1, <2>3
<1>5. CASE RemoveProfiles
  BY <1>5 DEF RemoveProfiles, Registered, Joined, Listed, client, listener
<1>6. CASE StopAll
  <2>1. Listed' /\ running' = running \ running
    BY <1>1, <1>6, StopKeeps DEF StopAll, Listed
  <2>2. Joined /\ pc' = pc /\ phase' = "stopped"
    BY <1>6 DEF StopAll, Registered, client
  <2> QED BY <2>1, <2>2 DEF Registered, Joined
<1>7. CASE UNCHANGED vars
  BY <1>7 DEF vars, client, listener, Registered, Listed, Joined
<1> QED BY <1>2, <1>4, <1>5, <1>6, <1>7 DEF Next

(* At the start there are no listeners.                                     *)
LEMMA RegisteredInit == Init => Registered
  BY DEF Init, Registered, Listed, Lasting, Steps

(* No listener outlives the worker: those of its threads, of threads that   *)
(* ended, and those that hang are stopped (convert.py:170-179).             *)
THEOREM WorkerIsLast == Spec => []NoneOutlivesWorker
<1>1. Registered => NoneOutlivesWorker
  BY DEF Registered, Listed, Lasting, NoneOutlivesWorker
<1> QED BY <1>1, RegisteredInit, RegisteredStep, PTL DEF Spec

-----------------------------------------------------------------------------
(* Rejected documents *)

Outcomes == {"none", "pdf", "rejected", "raised"}

(* A thread's request is with a listener only while it waits for the reply, *)
(* and known to be hindered if that listener has lost its LibreOffice.      *)
Handled ==
    /\ server \in [Threads -> Threads \union {NoThread}] /\ hindered \subseteq Threads
    /\ \A t \in Threads : server[t] # NoThread =>
        /\ pc[t] = "reply"
        /\ process[server[t]] = "crashed" => t \in hindered

(* Outcomes are those of the documents their threads have at hand.          *)
Judged ==
    /\ doc \in [Threads -> Docs \union {NoDoc}]
    /\ result \in [Threads -> Outcomes]
    /\ \A t \in Threads : result[t] # "none" => pc[t] = "idle"
    /\ RejectedForCause

(* What may become of the requests other than t's: they are dropped, or     *)
(* stay where they are, and no listener crashes.                            *)
OthersStay ==
    /\ server' \in [Threads -> Threads \union {NoThread}]
    /\ \A u \in Threads : server'[u] # NoThread =>
        /\ server[u] # NoThread /\ server'[u] = server[u]
        /\ process'[server'[u]] = "crashed" => process[server[u]] = "crashed"

(* Requests that a listener had when it ended are with nobody.              *)
LEMMA EndHandles ==
    ASSUME Handled, Listed, NEW S \in SUBSET Threads, NEW gone \in [S -> {"exited", "killed"}],
           End(gone)
    PROVE  OthersStay
<1>1. server' = [t \in Threads |-> IF server[t] \in S THEN NoThread ELSE server[t]]
  BY DEF End
<1>2. process' = [t \in Threads |-> IF t \in S THEN gone[t] ELSE process[t]]
  BY DEF End
<1>3. ASSUME NEW u \in Threads, server'[u] # NoThread
      PROVE  /\ server[u] \in Threads \ S /\ server'[u] = server[u] /\ server[u] # NoThread
             /\ process'[server'[u]] = process[server[u]]
  BY <1>1, <1>2, <1>3 DEF Handled
<1>4. server' \in [Threads -> Threads \union {NoThread}]
  BY <1>1 DEF Handled
<1> QED BY <1>3, <1>4 DEF OthersStay

(* The same of listeners that are stopped.                                  *)
LEMMA StopHandles ==
    ASSUME Handled, Listed, NEW stopped \in SUBSET Threads, Stop(stopped)
    PROVE  OthersStay
<1>1. PICK gone \in [{t \in stopped : Alive(t)} -> {"exited", "killed"}] : End(gone)
  BY DEF Stop
<1>2. {t \in stopped : Alive(t)} \in SUBSET Threads
  OBVIOUS
<1> QED BY <1>1, <1>2, EndHandles

(* A thread without a request goes on, and what hindered the others stays.  *)
LEMMA HandledKept ==
    ASSUME Handled, pc \in [Threads -> Steps], NEW t \in Threads, NEW step \in Steps, Goto(t, step),
           OthersStay, server'[t] = NoThread,
           hindered' \subseteq Threads, hindered \ {t} \subseteq hindered'
    PROVE  Handled'
BY DEF Handled, OthersStay, Goto

(* Every step of a thread keeps its request where it may be.                *)
LEMMA ThreadHandles ==
    ASSUME Handled, Listed, pc \in [Threads -> Steps], NEW t \in Threads,
           Begin(t) \/ ThreadStep(t) \/ ThreadFault(t) \/ EndThread(t)
    PROVE  Handled' /\ hindered \ {t} \subseteq hindered' /\ \E step \in Steps : Goto(t, step)
<1>1. hindered' \subseteq Threads /\ hindered \ {t} \subseteq hindered'
  <2>1. hindered \subseteq Threads
    BY DEF Handled
  <2>2. hindered' \in {hindered, hindered \ {t}, hindered \union {t}}
    BY DEF Begin, ThreadStep, ThreadFault, EndThread, Ensure, StopOrphaned, FreePort, Popen, Probe,
       GiveUp, Request, Reply, ListenerTimeout, Unavailable, StopListener, Borrow, MakeProfile, Spawn,
       ReplyFault, SpawnFails, Escape
  <2> QED BY <2>1, <2>2
<1>2. \E step \in Steps : Goto(t, step)
  BY DEF Begin, ThreadStep, ThreadFault, EndThread, Ensure, StopOrphaned, FreePort, Popen, Probe,
     GiveUp, Request, Reply, ListenerTimeout, Unavailable, StopListener, Borrow, MakeProfile, Spawn,
     ReplyFault, SpawnFails, Escape, Return, Steps
<1>3. ASSUME OthersStay, server'[t] = NoThread PROVE Handled'
  BY <1>1, <1>2, <1>3, HandledKept
<1>4. CASE StopOrphaned(t) \/ GiveUp(t) \/ StopListener(t)
  <2>1. server[t] = NoThread
    BY <1>4 DEF StopOrphaned, GiveUp, StopListener, Handled
  <2>2. \E stopped \in SUBSET Threads : Stop(stopped)
    BY <1>4 DEF StopOrphaned, GiveUp, StopListener, Listed
  <2>3. OthersStay
    BY <2>2, StopHandles
  <2> QED BY <1>1, <1>2, <1>3, <2>1, <2>3 DEF OthersStay
<1>5. CASE Popen(t)
  <2>1. server' = server /\ server[t] = NoThread
    BY <1>5 DEF Popen, Handled
  <2>2. \A u \in Threads : process'[u] = "crashed" => process[u] = "crashed"
    BY <1>5 DEF Popen, Listed
  <2>3. OthersStay
    BY <2>1, <2>2 DEF OthersStay, Handled
  <2> QED BY <1>1, <1>2, <1>3, <2>1, <2>3
<1>6. CASE ListenerTimeout(t)
  <2>1. server[t] \in Threads
    BY <1>6 DEF ListenerTimeout, Handled
  <2>2. End([s \in {server[t]} |-> "exited"]) /\ server'[t] = NoThread
    BY <1>6 DEF ListenerTimeout, End
  <2>3. OthersStay
    BY <2>1, <2>2, EndHandles
  <2> QED BY <1>1, <1>2, <1>3, <2>2, <2>3
<1>7. CASE Request(t) /\ \E s \in Threads : Serves(s, uri[t])
  <2>1. PICK s \in Threads :
            /\ server' = [server EXCEPT ![t] = s] /\ pc' = [pc EXCEPT ![t] = "reply"]
            /\ hindered' = IF process[s] = "crashed" THEN hindered \union {t} ELSE hindered
            /\ process' = process
    BY <1>7 DEF Request, Goto
  <2>2. Handled'
    BY <1>1, <2>1 DEF Handled
  <2> QED BY <1>1, <1>2, <2>2
<1>8. CASE Reply(t) \/ ReplyFault(t) \/ Unavailable(t) \/ Escape(t)
  <2>1. server' = [server EXCEPT ![t] = NoThread] /\ process' = process
    BY <1>8 DEF Reply, ReplyFault, Unavailable, Escape
  <2>2. OthersStay /\ server'[t] = NoThread
    BY <2>1 DEF OthersStay, Handled
  <2> QED BY <1>1, <1>2, <1>3, <2>2
<1>9. CASE \/ Begin(t) \/ Ensure(t) \/ FreePort(t) \/ Probe(t) \/ Borrow(t) \/ MakeProfile(t)
           \/ Spawn(t) \/ SpawnFails(t) \/ EndThread(t)
           \/ Request(t) /\ ~\E s \in Threads : Serves(s, uri[t])
  <2>1. server' = server /\ process' = process /\ pc[t] # "reply"
    BY <1>9 DEF Begin, Ensure, FreePort, Probe, Borrow, MakeProfile, Spawn, SpawnFails, EndThread,
       Request, listener
  <2>2. server[t] = NoThread
    BY <2>1 DEF Handled
  <2>3. OthersStay
    BY <2>1 DEF OthersStay, Handled
  <2> QED BY <1>1, <1>2, <1>3, <2>1, <2>2, <2>3
<1> QED BY <1>1, <1>2, <1>4, <1>5, <1>6, <1>7, <1>8, <1>9 DEF ThreadStep, ThreadFault

(* So do the steps of listeners and of the worker, which take no hindrance  *)
(* back.                                                                   *)
LEMMA OthersHandle ==
    ASSUME Handled, Registered,
           \/ \E t \in Threads : ProcessStep(t) \/ Break(t)
           \/ RemoveProfiles \/ StopAll \/ UNCHANGED vars
    PROVE  Handled' /\ hindered \subseteq hindered' /\ UNCHANGED <<pc, doc, result>>
<1>1. UNCHANGED <<pc, doc, result>> /\ Listed
  BY DEF ProcessStep, Bind, Connect, Reap, Break, RemoveProfiles, StopAll, vars, client, Registered
<1>2. ASSUME OthersStay, hindered' = hindered PROVE Handled' /\ hindered \subseteq hindered'
  BY <1>1, <1>2 DEF Handled, OthersStay
<1>3. ASSUME NEW t \in Threads, End([s \in {t} |-> "exited"]), hindered' = hindered
      PROVE  Handled' /\ hindered \subseteq hindered'
  <2>1. {t} \in SUBSET Threads /\ [s \in {t} |-> "exited"] \in [{t} -> {"exited", "killed"}]
    OBVIOUS
  <2>2. OthersStay
    BY <1>1, <1>3, <2>1, EndHandles
  <2> QED BY <1>2, <1>3, <2>2
<1>4. ASSUME NEW t \in Threads, NEW state \in {"bound", "ready", "wedged"},
             process' = [process EXCEPT ![t] = state], server' = server, hindered' = hindered
      PROVE  Handled' /\ hindered \subseteq hindered'
  <2>1. \A u \in Threads : process'[u] = "crashed" => process[u] = "crashed"
    BY <1>1, <1>4 DEF Listed
  <2>2. OthersStay
    BY <1>4, <2>1 DEF OthersStay, Handled
  <2> QED BY <1>2, <1>4, <2>2
<1>5. ASSUME NEW t \in Threads, process' = [process EXCEPT ![t] = "crashed"], server' = server,
             hindered' = hindered \union {u \in Threads : server[u] = t}
      PROVE  Handled' /\ hindered \subseteq hindered'
  <2>1. ASSUME NEW u \in Threads, server'[u] # NoThread, process'[server'[u]] = "crashed"
        PROVE  u \in hindered'
    <3>1. server[u] \in Threads
      BY <1>5, <2>1 DEF Handled
    <3>2. CASE server[u] = t
      BY <1>5, <3>2
    <3>3. CASE server[u] # t
      BY <1>1, <1>5, <2>1, <3>1, <3>3 DEF Handled, Listed
    <3> QED BY <3>2, <3>3
  <2> QED BY <1>1, <1>5, <2>1 DEF Handled
<1>6. ASSUME UNCHANGED <<process, server, hindered>>
      PROVE  Handled' /\ hindered \subseteq hindered'
  BY <1>1, <1>6 DEF Handled
<1>7. ASSUME NEW t \in Threads, ProcessStep(t) PROVE Handled' /\ hindered \subseteq hindered'
  <2>1. hindered' = hindered
    BY <1>7 DEF ProcessStep, Bind, Connect, Reap, client
  <2>2. \/ End([s \in {t} |-> "exited"])
        \/ \E state \in {"bound", "ready"} :
              process' = [process EXCEPT ![t] = state] /\ server' = server
    BY <1>7 DEF ProcessStep, Bind, Connect, Reap
  <2> QED BY <1>3, <1>4, <2>1, <2>2
<1>8. ASSUME NEW t \in Threads, Break(t) PROVE Handled' /\ hindered \subseteq hindered'
  BY <1>3, <1>4, <1>5, <1>8 DEF Break
<1>9. CASE StopAll
  <2>1. Stop(running) /\ running \in SUBSET Threads /\ hindered' = hindered
    BY <1>1, <1>9 DEF StopAll, Listed, client
  <2>2. OthersStay
    BY <1>1, <2>1, StopHandles
  <2> QED BY <1>1, <1>2, <2>1, <2>2
<1>10. CASE RemoveProfiles \/ UNCHANGED vars
  BY <1>6, <1>10 DEF RemoveProfiles, vars, client, listener
<1> QED BY <1>1, <1>7, <1>8, <1>9, <1>10

(* A thread has its own outcome, and the others keep theirs.                *)
LEMMA JudgedKept ==
    ASSUME Judged, NEW t \in Threads, NEW step \in Steps, Goto(t, step),
           pc \in [Threads -> Steps], hindered \ {t} \subseteq hindered',
           NEW d \in Docs \union {NoDoc}, doc' = [doc EXCEPT ![t] = d],
           NEW outcome \in Outcomes, result' = [result EXCEPT ![t] = outcome],
           outcome # "none" => step = "idle",
           outcome = "rejected" => d \in Damaged \union Stuck \/ t \in hindered'
    PROVE  Judged'
<1> USE DEF Judged, RejectedForCause, Goto
<1>1. \A u \in Threads \ {t} : doc'[u] = doc[u] /\ result'[u] = result[u] /\ pc'[u] = pc[u]
  OBVIOUS
<1>2. doc'[t] = d /\ result'[t] = outcome /\ pc'[t] = step
  OBVIOUS
<1> QED BY <1>1, <1>2

(* Every step keeps outcomes those of the documents at hand.               *)
LEMMA JudgedStep == Judged /\ Handled /\ Registered /\ [Next]_vars => Judged' /\ Handled'
<1> SUFFICES ASSUME Judged, Handled, Registered, [Next]_vars PROVE Judged' /\ Handled'
  OBVIOUS
<1>1. Listed /\ pc \in [Threads -> Steps] /\ doc \in [Threads -> Docs \union {NoDoc}]
  BY DEF Registered, Judged
<1>2. ASSUME NEW t \in Threads, Begin(t) \/ ThreadStep(t) \/ ThreadFault(t) \/ EndThread(t)
      PROVE  Judged' /\ Handled'
  <2>1. PICK step \in Steps : Goto(t, step)
    BY <1>1, <1>2, ThreadHandles
  <2>2. Handled' /\ hindered \ {t} \subseteq hindered'
    BY <1>1, <1>2, ThreadHandles
  <2>3. ASSUME NEW d \in Docs \union {NoDoc}, doc' = [doc EXCEPT ![t] = d],
               NEW outcome \in Outcomes, result' = [result EXCEPT ![t] = outcome],
               outcome # "none" => pc' = [pc EXCEPT ![t] = "idle"],
               outcome = "rejected" => d \in Damaged \union Stuck \/ t \in hindered'
        PROVE  Judged'
    <3>1. outcome # "none" => step = "idle"
      BY <1>1, <2>1, <2>3 DEF Goto
    <3> QED BY <1>1, <2>1, <2>2, <2>3, <3>1, JudgedKept
  <2>4. CASE Begin(t)
    <3>1. PICK d \in Docs : doc' = [doc EXCEPT ![t] = d]
      BY <2>4 DEF Begin
    <3>2. result' = [result EXCEPT ![t] = "none"]
      BY <2>4 DEF Begin
    <3> QED BY <2>2, <2>3, <3>1, <3>2 DEF Outcomes
  <2>5. CASE EndThread(t)
    BY <2>2, <2>3, <2>5 DEF EndThread, Outcomes
  <2>6. CASE Reply(t) \/ ListenerTimeout(t) \/ Spawn(t) \/ ReplyFault(t) \/ SpawnFails(t) \/ Escape(t)
    <3>1. PICK outcome \in {"pdf", "rejected", "raised"} :
            /\ doc' = doc /\ result' = [result EXCEPT ![t] = outcome]
            /\ pc' = [pc EXCEPT ![t] = "idle"]
            /\ outcome = "rejected" => doc[t] \in Damaged \union Stuck \/ t \in hindered'
      BY <2>6 DEF Reply, ListenerTimeout, Spawn, ReplyFault, SpawnFails, Escape, Return, Goto, Handled
    <3>2. doc' = [doc EXCEPT ![t] = doc[t]] /\ doc[t] \in Docs \union {NoDoc}
      BY <1>1, <3>1
    <3> QED BY <2>2, <2>3, <3>1, <3>2 DEF Outcomes
  <2>7. CASE \/ Ensure(t) \/ StopOrphaned(t) \/ FreePort(t) \/ Popen(t) \/ Probe(t) \/ GiveUp(t)
             \/ Request(t) \/ Unavailable(t) \/ StopListener(t) \/ Borrow(t) \/ MakeProfile(t)
    <3>1. doc' = doc /\ result' = result /\ pc[t] # "idle"
      BY <2>7 DEF Ensure, StopOrphaned, FreePort, Popen, Probe, GiveUp, Request, Unavailable,
         StopListener, Borrow, MakeProfile
    <3>2. result[t] = "none" /\ result = [result EXCEPT ![t] = "none"]
      BY <3>1 DEF Judged
    <3>3. doc' = [doc EXCEPT ![t] = doc[t]] /\ doc[t] \in Docs \union {NoDoc}
      BY <1>1, <3>1
    <3> QED BY <2>2, <2>3, <3>1, <3>2, <3>3 DEF Outcomes
  <2> QED BY <1>2, <2>4, <2>5, <2>6, <2>7 DEF ThreadStep, ThreadFault
<1>3. CASE \/ \E t \in Threads : ProcessStep(t) \/ Break(t)
           \/ RemoveProfiles \/ StopAll \/ UNCHANGED vars
  <2>1. Handled' /\ hindered \subseteq hindered' /\ UNCHANGED <<pc, doc, result>>
    BY <1>3, OthersHandle
  <2> QED BY <2>1 DEF Judged, RejectedForCause
<1> QED BY <1>2, <1>3 DEF Next

(* A document is only rejected for what it is, or because the LibreOffice   *)
(* that had it crashed or its own spawn failed, whatever becomes of the     *)
(* listeners and with whomever their ports are shared (convert.py:284-300). *)
THEOREM RejectedCorrectly == Spec => []RejectedForCause
<1>1. Init => Judged /\ Handled
  BY DEF Init, Judged, RejectedForCause, Handled, Outcomes
<1>2. Judged => RejectedForCause
  BY DEF Judged
<1> QED BY <1>1, <1>2, RegisteredInit, JudgedStep, RegisteredStep, PTL DEF Spec

-----------------------------------------------------------------------------
(* Types *)

Spawning == {t \in Threads : pc[t] = "spawn"}
Making == {t \in Threads : pc[t] = "make"}

(* Every profile that was made is free or lent, and one is only made by a   *)
(* thread for which there was none: with those that are being made, there   *)
(* are no more of them than threads.                                       *)
ProfilesCounted ==
    /\ phase = "running" => 1..made \subseteq free \union {lent[t] : t \in Spawning}
    /\ made + Cardinality(Making) <= Cardinality(Threads)

(* The sets of threads are finite, and those apart add up.                  *)
LEMMA ThreadsCounted ==
    ASSUME NEW A \in SUBSET Threads, NEW B \in SUBSET Threads
    PROVE  /\ Cardinality(A) \in Nat
           /\ \A t : Cardinality(A \ {t}) = IF t \in A THEN Cardinality(A) - 1 ELSE Cardinality(A)
           /\ \A t \in Threads \ A : Cardinality(A \union {t}) = Cardinality(A) + 1
           /\ A \intersect B = {} => Cardinality(A) + Cardinality(B) <= Cardinality(Threads)
<1>1. IsFiniteSet(A) /\ IsFiniteSet(B)
  BY FS_Subset
<1>2. \A t : Cardinality(A \ {t}) = IF t \in A THEN Cardinality(A) - 1 ELSE Cardinality(A)
  BY <1>1, FS_RemoveElement
<1>3. \A t \in Threads \ A : Cardinality(A \union {t}) = Cardinality(A) + 1
  BY <1>1, FS_AddElement
<1>4. ASSUME A \intersect B = {} PROVE Cardinality(A) + Cardinality(B) <= Cardinality(Threads)
  <2>1. Cardinality(A \union B) = Cardinality(A) + Cardinality(B)
    <3>1. Cardinality(A \union B) = Cardinality(A) + Cardinality(B) - Cardinality(A \intersect B)
      BY <1>1, FS_Union
    <3>2. Cardinality(A \intersect B) = 0
      BY <1>4, FS_EmptySet
    <3>3. Cardinality(A) \in Nat /\ Cardinality(B) \in Nat
      BY <1>1, FS_CardinalityType
    <3> QED BY <3>1, <3>2, <3>3
  <2>2. Cardinality(A \union B) <= Cardinality(Threads)
    BY FS_Subset
  <2> QED BY <2>1, <2>2
<1> QED BY <1>1, <1>2, <1>3, <1>4, FS_CardinalityType

(* A thread that finds no free profile finds one lent to another for each   *)
(* that was made, so that its own is one too many for nobody.               *)
LEMMA RoomForOne ==
    ASSUME Accounted, ProfilesCounted, NEW t \in Threads, pc[t] = "borrow", free = {},
           phase = "running"
    PROVE  made + Cardinality(Making) + 1 <= Cardinality(Threads)
<1>1. 1..made \subseteq {lent[u] : u \in Spawning}
  BY DEF ProfilesCounted
<1>2. IsFiniteSet(Spawning) /\ made \in Nat
  BY FS_Subset DEF Spawning, Accounted
<1>3. /\ IsFiniteSet({lent[u] : u \in Spawning})
      /\ Cardinality({lent[u] : u \in Spawning}) <= Cardinality(Spawning)
  <2> DEFINE of == [u \in Spawning |-> lent[u]]
  <2>1. of \in Surjection(Spawning, {lent[u] : u \in Spawning})
    BY DEF Surjection
  <2> QED BY <1>2, <2>1, FS_Surjection
<1>4. made <= Cardinality(Spawning)
  <2>1. Cardinality(1..made) = made
    BY <1>2, FS_Interval
  <2>2. Cardinality(1..made) <= Cardinality({lent[u] : u \in Spawning})
    BY <1>1, <1>3, FS_Subset
  <2>3. Cardinality(Spawning) \in Nat /\ Cardinality({lent[u] : u \in Spawning}) \in Nat
    BY <1>2, <1>3, FS_CardinalityType
  <2> QED BY <1>2, <1>3, <2>1, <2>2, <2>3
<1>5. Cardinality(Making \union {t}) = Cardinality(Making) + 1 /\ Cardinality(Making) \in Nat
  BY ThreadsCounted DEF Making
<1>6. Cardinality(Spawning) + Cardinality(Making \union {t}) <= Cardinality(Threads)
  BY ThreadsCounted DEF Making, Spawning
<1>7. Cardinality(Spawning) \in Nat /\ Cardinality(Threads) \in Nat
  BY ThreadsCounted, <1>2, FS_CardinalityType
<1> QED BY <1>2, <1>4, <1>5, <1>6, <1>7

(* A step that neither borrows nor gives back leaves the count as it is.    *)
LEMMA OthersCount ==
    ASSUME Accounted, ProfilesCounted, NEW t \in Threads, pc[t] \notin {"make", "spawn"},
           NEW step \in Steps \ {"make", "spawn"}, Goto(t, step), UNCHANGED <<profile, phase>>
    PROVE  ProfilesCounted'
<1>1. Making' = Making /\ Spawning' = Spawning
  BY DEF Making, Spawning, Accounted, Goto
<1> QED BY <1>1 DEF ProfilesCounted, profile

(* Nor does the count change as profiles are borrowed, made and given back. *)
LEMMA ProfilesCount ==
    ASSUME Accounted, Registered, ProfilesCounted, NEW t \in Threads,
           Borrow(t) \/ MakeProfile(t) \/ Spawn(t) \/ SpawnFails(t)
    PROVE  ProfilesCounted'
<1>1. pc[t] \in {"borrow", "make", "spawn"} /\ phase = "running" /\ phase' = "running"
  BY DEF Borrow, MakeProfile, Spawn, SpawnFails, Registered, Joined
<1>2. /\ made \in Nat /\ Cardinality(Making) \in Nat /\ Cardinality(Threads) \in Nat
      /\ 1..made \subseteq free \union {lent[u] : u \in Spawning}
      /\ made + Cardinality(Making) <= Cardinality(Threads)
  BY <1>1, ThreadsCounted DEF Accounted, ProfilesCounted, Making
<1>3. pc \in [Threads -> Steps] /\ lent \in [Threads -> (1..made) \union {NoProfile}]
  BY DEF Accounted
<1>4. CASE Borrow(t) /\ free = {}
  <2>1. Making' = Making \union {t} /\ t \notin Making /\ Spawning' = Spawning
    BY <1>3, <1>4 DEF Borrow, Goto, Making, Spawning
  <2>2. Cardinality(Making') = Cardinality(Making) + 1
    <3>1. Making \in SUBSET Threads /\ t \in Threads \ Making
      BY <2>1 DEF Making
    <3>2. Cardinality(Making \union {t}) = Cardinality(Making) + 1
      BY <3>1, ThreadsCounted
    <3> QED BY <2>1, <3>2
  <2>3. made + Cardinality(Making) + 1 <= Cardinality(Threads)
    BY <1>1, <1>4, RoomForOne DEF Borrow
  <2>4. made' = made /\ free' = free /\ lent' = lent
    BY <1>4 DEF Borrow
  <2> QED BY <1>2, <2>1, <2>2, <2>3, <2>4 DEF ProfilesCounted
<1>5. CASE Borrow(t) /\ free # {}
  <2>1. PICK p \in free : lent' = [lent EXCEPT ![t] = p] /\ free' = free \ {p}
    BY <1>5 DEF Borrow
  <2>2. Spawning' = Spawning \union {t} /\ t \notin Spawning /\ Making' = Making /\ made' = made
    BY <1>3, <1>5 DEF Borrow, Goto, Making, Spawning
  <2>3. lent'[t] = p /\ \A u \in Spawning : lent'[u] = lent[u]
    BY <1>3, <2>1, <2>2 DEF Spawning
  <2>4. free \union {lent[u] : u \in Spawning} \subseteq free' \union {lent'[u] : u \in Spawning'}
    BY <2>1, <2>2, <2>3
  <2> QED BY <1>2, <2>2, <2>4 DEF ProfilesCounted
<1>6. CASE MakeProfile(t)
  <2>1. made' = made + 1 /\ lent' = [lent EXCEPT ![t] = made + 1] /\ free' = free
    BY <1>6 DEF MakeProfile
  <2>2. /\ Spawning' = Spawning \union {t} /\ t \notin Spawning
        /\ Making' = Making \ {t} /\ t \in Making
    BY <1>3, <1>6 DEF MakeProfile, Goto, Making, Spawning
  <2>3. lent'[t] = made + 1 /\ \A u \in Spawning : lent'[u] = lent[u]
    BY <1>3, <2>1, <2>2 DEF Spawning
  <2>4. 1..made' \subseteq free' \union {lent'[u] : u \in Spawning'}
    <3>1. 1..made' = (1..made) \union {made + 1}
      BY <1>2, <2>1
    <3> QED BY <1>2, <2>1, <2>2, <2>3, <3>1
  <2>5. Cardinality(Making') = Cardinality(Making) - 1
    BY <2>2, ThreadsCounted DEF Making
  <2> QED BY <1>2, <2>1, <2>4, <2>5 DEF ProfilesCounted
<1>7. CASE Spawn(t)
  <2>1. free' = free \union {lent[t]} /\ lent' = [lent EXCEPT ![t] = NoProfile] /\ made' = made
    BY <1>7 DEF Spawn
  <2>2. Spawning' = Spawning \ {t} /\ Making' = Making
    BY <1>3, <1>7 DEF Spawn, Return, Goto, Making, Spawning
  <2>3. \A u \in Spawning' : lent'[u] = lent[u]
    BY <1>3, <2>1, <2>2 DEF Spawning
  <2>4. free \union {lent[u] : u \in Spawning} \subseteq free' \union {lent'[u] : u \in Spawning'}
    BY <2>1, <2>2, <2>3
  <2> QED BY <1>2, <2>1, <2>2, <2>4 DEF ProfilesCounted
<1>8. CASE SpawnFails(t)
  <2>1. /\ free' = free \union ({lent[t]} \ {NoProfile}) /\ made' = made
        /\ lent' = [lent EXCEPT ![t] = NoProfile]
    BY <1>8 DEF SpawnFails
  <2>2. Spawning' = Spawning \ {t} /\ Making' = Making \ {t}
    BY <1>3, <1>8 DEF SpawnFails, Return, Goto, Making, Spawning
  <2>3. \A u \in Spawning' : lent'[u] = lent[u]
    BY <1>3, <2>1, <2>2 DEF Spawning
  <2>4. t \in Spawning => lent[t] # NoProfile
    BY DEF Spawning, Accounted
  <2>5. free \union {lent[u] : u \in Spawning} \subseteq free' \union {lent'[u] : u \in Spawning'}
    BY <2>1, <2>2, <2>3, <2>4
  <2>6. Cardinality(Making') <= Cardinality(Making) /\ Cardinality(Making') \in Nat
    <3>1. Making \in SUBSET Threads
      BY DEF Making
    <3>2. /\ Cardinality(Making) \in Nat
          /\ Cardinality(Making \ {t})
                = IF t \in Making THEN Cardinality(Making) - 1 ELSE Cardinality(Making)
      BY <3>1, ThreadsCounted
    <3>3. Making \ {t} \in SUBSET Threads
      BY <3>1
    <3>4. Cardinality(Making \ {t}) \in Nat
      BY <3>3, ThreadsCounted
    <3> QED BY <2>2, <3>2, <3>4
  <2> QED BY <1>1, <1>2, <2>1, <2>5, <2>6 DEF ProfilesCounted
<1> QED BY <1>4, <1>5, <1>6, <1>7, <1>8

(* The types that depend on nothing else.                                   *)
OtherTypes ==
    /\ failed \subseteq Threads
    /\ uri \in [Threads -> Ports \union {NoPort}]
    /\ server \in [Threads -> Threads \union {NoThread}]
    /\ jobs \in 0..MaxJobs /\ faults \in 0..MaxFaults

LEMMA OtherTypesStep == OtherTypes /\ [Next]_vars => OtherTypes'
<1> SUFFICES ASSUME OtherTypes, [Next]_vars PROVE OtherTypes'
  OBVIOUS
<1> USE DEF OtherTypes
<1>1. ASSUME UNCHANGED <<failed, uri, server, bounds>> PROVE OtherTypes'
  BY <1>1 DEF bounds
<1>2. ASSUME NEW gone, End(gone) PROVE server' \in [Threads -> Threads \union {NoThread}]
  BY <1>2 DEF End
<1>3. ASSUME NEW stopped, Stop(stopped) PROVE server' \in [Threads -> Threads \union {NoThread}]
  BY <1>2, <1>3 DEF Stop
<1>4. ASSUME Fault \/ UNCHANGED bounds PROVE jobs' \in 0..MaxJobs /\ faults' \in 0..MaxFaults
  BY <1>4 DEF Fault, bounds
<1>5. ASSUME NEW t \in Threads, Begin(t) PROVE OtherTypes'
  BY <1>5 DEF Begin, listener
<1>6. ASSUME NEW t \in Threads, StopOrphaned(t) \/ StopListener(t) PROVE OtherTypes'
  BY <1>3, <1>4, <1>6 DEF StopOrphaned, StopListener
<1>7. ASSUME NEW t \in Threads, GiveUp(t) PROVE OtherTypes'
  BY <1>3, <1>4, <1>7 DEF GiveUp
<1>8. ASSUME NEW t \in Threads, \/ Request(t) \/ Reply(t) \/ Unavailable(t)
                              \/ ReplyFault(t) \/ Escape(t)
      PROVE  OtherTypes'
  BY <1>4, <1>8 DEF Request, Reply, Unavailable, ReplyFault, Escape
<1>9. ASSUME NEW t \in Threads, ListenerTimeout(t) \/ Bind(t) \/ Reap(t) PROVE OtherTypes'
  BY <1>2, <1>4, <1>9 DEF ListenerTimeout, Bind, Reap
<1>10. ASSUME NEW t \in Threads, Break(t) PROVE OtherTypes'
  BY <1>2, <1>4, <1>10 DEF Break
<1>11. ASSUME NEW t \in Threads, FreePort(t) \/ SpawnFails(t) PROVE OtherTypes'
  BY <1>4, <1>11 DEF FreePort, SpawnFails, listener
<1>12. ASSUME NEW t \in Threads,
              \/ Ensure(t) \/ Popen(t) \/ Probe(t) \/ Borrow(t) \/ MakeProfile(t) \/ Spawn(t)
              \/ EndThread(t) \/ Connect(t)
       PROVE  OtherTypes'
  BY <1>1, <1>12 DEF Ensure, Popen, Probe, Borrow, MakeProfile, Spawn, EndThread, Connect,
     listener
<1>13. CASE StopAll
  BY <1>3, <1>4, <1>13 DEF StopAll
<1>14. CASE RemoveProfiles \/ UNCHANGED vars
  BY <1>1, <1>14 DEF RemoveProfiles, vars, listener
<1> QED BY <1>5, <1>6, <1>7, <1>8, <1>9, <1>10, <1>11, <1>12, <1>13, <1>14
     DEF Next, ThreadStep, ThreadFault, ProcessStep

LEMMA CountedStep ==
    Accounted /\ Registered /\ ProfilesCounted /\ [Next]_vars => ProfilesCounted'
<1> SUFFICES ASSUME Accounted, Registered, ProfilesCounted, [Next]_vars PROVE ProfilesCounted'
  OBVIOUS
<1>1. ASSUME UNCHANGED <<pc, profile, phase>> PROVE ProfilesCounted'
  BY <1>1 DEF ProfilesCounted, Making, Spawning, profile
<1>2. ASSUME NEW t \in Threads, Begin(t) \/ ThreadStep(t) \/ ThreadFault(t) \/ EndThread(t),
             ~(Borrow(t) \/ MakeProfile(t) \/ Spawn(t) \/ SpawnFails(t))
      PROVE  ProfilesCounted'
  <2>1. pc[t] \notin {"make", "spawn"} /\ UNCHANGED <<profile, phase>>
    BY <1>2 DEF Begin, ThreadStep, EndThread, Ensure, StopOrphaned, FreePort, Popen, Probe, GiveUp,
       Request, Reply, ListenerTimeout, Unavailable, StopListener, ThreadFault, ReplyFault, Escape
  <2>2. \E step \in Steps \ {"make", "spawn"} : Goto(t, step)
    BY <1>2 DEF Begin, ThreadStep, EndThread, Ensure, StopOrphaned, FreePort, Popen, Probe, GiveUp,
       Request, Reply, ListenerTimeout, Unavailable, StopListener, ThreadFault, ReplyFault, Escape,
       Return, Steps
  <2> QED BY <2>1, <2>2, OthersCount
<1>3. ASSUME NEW t \in Threads, ProcessStep(t) \/ Break(t) PROVE ProfilesCounted'
  BY <1>1, <1>3 DEF ProcessStep, Bind, Connect, Reap, Break, client
<1>4. CASE RemoveProfiles \/ StopAll
  <2>1. pc' = pc /\ made' = made /\ phase' # "running"
    BY <1>4 DEF RemoveProfiles, StopAll, client, profile
  <2> QED BY <2>1 DEF ProfilesCounted, Making
<1>5. CASE UNCHANGED vars
  BY <1>1, <1>5 DEF vars, client
<1> QED BY <1>2, <1>3, <1>4, <1>5, ProfilesCount DEF Next, ThreadFault, ThreadStep

(* Every variable has its type; there are never more profiles than threads, *)
(* whichever of them find none free at once (convert.py:182-202).           *)
THEOREM TypeCorrect == Spec => []TypeOK
<1>1. Init => Accounted /\ Judged /\ Handled /\ OtherTypes
  BY DEF Init, Accounted, ProfilesAreExclusive, Judged, Handled, RejectedForCause, Outcomes,
     OtherTypes, Steps
<1>2. Init => ProfilesCounted
  <2> SUFFICES ASSUME Init PROVE ProfilesCounted
    OBVIOUS
  <2>1. Making = {} /\ 1..made = {}
    BY DEF Init, Making
  <2>2. Cardinality(Making) = 0 /\ Cardinality(Threads) \in Nat
    BY <2>1, FS_EmptySet, FS_CardinalityType
  <2> QED BY <2>1, <2>2 DEF Init, ProfilesCounted
<1>3. Accounted /\ Judged /\ Handled /\ Registered /\ OtherTypes /\ ProfilesCounted => TypeOK
  <2> SUFFICES ASSUME Accounted, Judged, Handled, Registered, OtherTypes, ProfilesCounted
               PROVE  TypeOK
    OBVIOUS
  <2>1. Cardinality(Making) \in Nat /\ Cardinality(Threads) \in Nat /\ made \in Nat
    BY ThreadsCounted, FS_CardinalityType DEF Making, Accounted
  <2>2. made \in 0..Cardinality(Threads) /\ 1..made \subseteq Profiles
    BY <2>1 DEF ProfilesCounted, Profiles
  <2>3. free \subseteq Profiles /\ lent \in [Threads -> Profiles \union {NoProfile}]
    BY <2>2 DEF Accounted
  <2> QED BY <2>2, <2>3 DEF TypeOK, Accounted, Judged, Handled, Outcomes, Registered,
     Listed, Lasting, OtherTypes
<1> QED BY <1>1, <1>2, <1>3, RegisteredInit, AccountedStep, JudgedStep, RegisteredStep, OtherTypesStep, CountedStep,
       PTL DEF Spec
=============================================================================
