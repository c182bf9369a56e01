------------------------ MODULE EmailThreadingProofs ------------------------
(***************************************************************************)
(* For all emails, workers and schedules: links between emails are sound,  *)
(* and of a reply and its original the later one finds the earlier one.    *)
(***************************************************************************)
EXTENDS EmailThreading, TLAPS

USE ThreadingAssumption

(* What the cache, a worker and its buffer may hold. *)
Sound ==
    /\ \A i \in Ids : \A e \in midEnt[i] : i \in MessageId[e]
    /\ \A i \in Ids : \A e \in entMid[i] : i \in InReplyTo[e]
    /\ \A w \in Workers :
        /\ pc[w] # "idle" =>
            /\ email[w] \in Emails
            /\ ids[w] \subseteq MessageId[email[w]] /\ refs[w] \subseteq InReplyTo[email[w]]
            /\ \A e \in links[w] : Answers(email[w], e)
            /\ \A p \in puts[w] : Answers(p[1], p[3])
        /\ pc[w] = "idle" => puts[w] = {}
        /\ pc[w] = "notify" => current[w] \in MessageId[email[w]]
        /\ pc[w] = "await" => current[w] \in InReplyTo[email[w]]
    /\ LinksAreReplies

(* The dataset starts without links. *)
LEMMA InitSound == Init => TypeOK /\ Sound
BY DEF Init, TypeOK, Sound, LinksAreReplies, Linked

(* A worker that starts a job, or leaves a trace in the cache, keeps what is *)
(* there sound.                                                              *)
LEMMA CacheStaysSound ==
    ASSUME TypeOK, Sound, NEW w \in Workers, Start(w) \/ Announce(w) \/ Await(w)
    PROVE  TypeOK' /\ Sound'
<1> USE DEF TypeOK, Sound, cache, store, task, history
<1>0. UNCHANGED store => LinksAreReplies'
  BY DEF LinksAreReplies, Linked
<1>1. CASE Start(w)
  BY <1>0, <1>1 DEF Start
<1>2. CASE Announce(w)
  <2>1. PICK i \in ids[w] :
            /\ midEnt' = [midEnt EXCEPT ![i] = @ \union {email[w]}]
            /\ ids' = [ids EXCEPT ![w] = @ \ {i}]
            /\ current' = [current EXCEPT ![w] = i]
    BY <1>2 DEF Announce
  <2>2. i \in Ids /\ i \in MessageId[email[w]] /\ email[w] \in Emails
    BY <1>2, <2>1 DEF Announce
  <2>3. \A k \in Ids : \A e \in midEnt'[k] : k \in MessageId[e]
    BY <2>1, <2>2
  <2>4. TypeOK'
    BY <1>2, <2>1, <2>2 DEF Announce
  <2> QED BY <1>0, <1>2, <2>1, <2>2, <2>3, <2>4 DEF Announce
<1>3. CASE Await(w)
  <2>1. current[w] \in Ids /\ current[w] \in InReplyTo[email[w]] /\ email[w] \in Emails
    BY <1>3 DEF Await
  <2>2. \A k \in Ids : \A e \in entMid'[k] : k \in InReplyTo[e]
    BY <1>3, <2>1 DEF Await
  <2>3. TypeOK'
    BY <1>3, <2>1 DEF Await
  <2> QED BY <1>0, <1>3, <2>2, <2>3 DEF Await
<1> QED BY <1>1, <1>2, <1>3

(* What a worker finds in the cache are replies, or are replied to. *)
LEMMA LookupIsSound ==
    ASSUME TypeOK, Sound, NEW w \in Workers, Notify(w) \/ Resolve(w)
    PROVE  TypeOK' /\ Sound'
<1> USE DEF TypeOK, Sound, cache, store, task, history
<1>0. UNCHANGED store => LinksAreReplies'
  BY DEF LinksAreReplies, Linked
<1>1. CASE Notify(w)
  <2> DEFINE new == {<<r, current[w], email[w]>> : r \in entMid[current[w]] \ {email[w]}}
  <2>1. current[w] \in Ids /\ current[w] \in MessageId[email[w]] /\ email[w] \in Emails
    BY <1>1 DEF Notify
  <2>2. \A r \in entMid[current[w]] \ {email[w]} : r \in Emails /\ Answers(r, email[w])
    BY <2>1 DEF Answers
  <2>3. \A p \in new : p \in Emails \X Ids \X Emails /\ Answers(p[1], p[3])
    BY <2>1, <2>2
  <2>4. puts' = [puts EXCEPT ![w] = @ \union new]
    BY <1>1 DEF Notify
  <2> HIDE DEF new
  <2>5. TypeOK'
    BY <1>1, <2>3, <2>4 DEF Notify
  <2> QED BY <1>0, <1>1, <2>3, <2>4, <2>5 DEF Notify
<1>2. CASE Resolve(w)
  <2>1. PICK i \in refs[w] :
            /\ links' = [links EXCEPT ![w] = @ \union (midEnt[i] \ {email[w]})]
            /\ refs' = [refs EXCEPT ![w] = @ \ {i}]
            /\ current' = [current EXCEPT ![w] = i]
    BY <1>2 DEF Resolve
  <2>2. i \in Ids /\ i \in InReplyTo[email[w]] /\ email[w] \in Emails
    BY <1>2, <2>1 DEF Resolve
  <2>3. \A e \in midEnt[i] \ {email[w]} : e \in Emails /\ Answers(email[w], e)
    BY <2>2 DEF Answers
  <2>4. TypeOK'
    BY <1>2, <2>1, <2>2 DEF Resolve
  <2> QED BY <1>0, <1>2, <2>1, <2>2, <2>3, <2>4 DEF Resolve
<1> QED BY <1>1, <1>2

(* What a worker writes to the store are sound links. *)
LEMMA StoreStaysSound ==
    ASSUME TypeOK, Sound, NEW w \in Workers, Succeed(w) \/ Raise(w)
    PROVE  TypeOK' /\ Sound'
<1> USE DEF TypeOK, Sound, cache, store, task, history
<1>1. pc[w] # "idle" /\ email[w] \in Emails /\ Finalize(w)
  BY DEF Succeed, Raise
<1>2. own' \in [Emails -> SUBSET Emails] /\ notes' \in [Emails -> [Ids -> SUBSET Emails]]
  BY <1>1 DEF Finalize
<1>3. LinksAreReplies'
  <2> SUFFICES ASSUME NEW r \in Emails, NEW e \in Emails, Linked(r, e)'
               PROVE  Answers(r, e)
    BY DEF LinksAreReplies, Answers
  <2>1. CASE e \in own'[r]
    <3>1. e \in own[r] \/ (r = email[w] /\ e \in links[w])
      BY <1>1, <2>1 DEF Finalize
    <3> QED BY <1>1, <3>1 DEF LinksAreReplies, Linked
  <2>2. CASE \E i \in Ids : e \in notes'[r][i]
    <3>1. PICK i \in Ids : e \in notes'[r][i]
      BY <2>2
    <3>2. e \in notes[r][i] \/ \E p \in puts[w] : p[1] = r /\ e = p[3]
      BY <1>1, <3>1 DEF Finalize
    <3> QED BY <1>1, <3>2 DEF LinksAreReplies, Linked
  <2> QED BY <2>1, <2>2 DEF Linked
<1>4. /\ puts' \in [Workers -> SUBSET (Emails \X Ids \X Emails)]
      /\ pc' \in [Workers -> {"idle", "resolve", "notify", "await"}]
      /\ known' \in [Emails -> SUBSET Emails]
  BY <1>1 DEF Finalize
<1>5. TypeOK'
  <2>1. CASE Succeed(w)
    BY <1>1, <1>2, <1>4, <2>1 DEF Succeed
  <2>2. CASE Raise(w)
    BY <1>1, <1>2, <1>4, <2>2 DEF Raise
  <2> QED BY <2>1, <2>2
<1> QED BY <1>1, <1>3, <1>5 DEF Finalize, Succeed, Raise

(* Every step keeps the types, and what is there sound.                     *)
LEMMA SoundStep == TypeOK /\ Sound /\ [Next]_vars => (TypeOK /\ Sound)'
<1> SUFFICES ASSUME TypeOK, Sound, [Next]_vars
             PROVE  (TypeOK /\ Sound)'
  OBVIOUS
<1>1. CASE UNCHANGED vars
  BY <1>1 DEF TypeOK, Sound, LinksAreReplies, Linked, vars, cache, store, task, history
<1> QED BY <1>1, CacheStaysSound, LookupIsSound, StoreStaysSound DEF Next

(* Caches, links and fragments hold emails of the dataset, and no more jobs *)
(* are run again than fail.                                                 *)
THEOREM TypeCorrect == Spec => []TypeOK
<1> QED BY InitSound, SoundStep, PTL DEF Spec

(* An email is only ever linked to an email it replies to, never to itself, *)
(* however the jobs that share the cache interleave (email.py:228-251).     *)
THEOREM LinksSound == Spec => []LinksAreReplies
<1>1. TypeOK /\ Sound => LinksAreReplies
  BY DEF Sound
<1> QED BY <1>1, InitSound, SoundStep, PTL DEF Spec

-----------------------------------------------------------------------------
(* The later one finds the earlier one *)

(* What a job has resolved it has left a trace of, and it has found what was *)
(* there before it started.                                                  *)
Traced(w) ==
    /\ \A i \in MessageId[email[w]] \ ids[w] : email[w] \in midEnt[i]
    /\ \A i \in InReplyTo[email[w]] \ refs[w] :
        email[w] \in entMid[i] \/ (pc[w] = "await" /\ current[w] = i)
    /\ saw[w] \subseteq ended
    /\ \A e \in saw[w] \ {email[w]} : \A i \in InReplyTo[email[w]] \intersect MessageId[e] :
        i \in refs[w] \/ e \in links[w]
    /\ \A r \in saw[w] \ {email[w]} : \A i \in MessageId[email[w]] \intersect InReplyTo[r] :
        i \in ids[w] \/ <<r, i, email[w]>> \in puts[w] \/ (pc[w] = "notify" /\ current[w] = i)
    /\ \A p \in puts[w] : p[3] = email[w] /\ p[2] \in MessageId[email[w]]

WorkersTraced == \A w \in Workers : pc[w] # "idle" => Traced(w)

(* An email whose job has ended can be found in the cache both ways.         *)
EndedTraced ==
    \A e \in ended :
        /\ \A i \in MessageId[e] : e \in midEnt[i]
        /\ \A i \in InReplyTo[e] : e \in entMid[i]

(* A job that ended well was the last to write its email, and linked it.     *)
RepliesFound ==
    \A r \in Emails : Settled(r) => \A e \in known[r] : Answers(r, e) => e \in own[r]

Unique(e) == \A x \in Emails \ {e} : MessageId[x] \intersect MessageId[e] = {}

(* It has also noted itself at its replies, where no other email does.       *)
OriginalsNoted ==
    \A e \in Emails : Settled(e) /\ Unique(e) =>
        \A r \in known[e] \ {e} : \A i \in MessageId[e] \intersect InReplyTo[r] : e \in notes[r][i]

Later == WorkersTraced /\ EndedTraced /\ RepliesFound /\ OriginalsNoted

(* A worker is not disturbed by what others leave in the cache.              *)
LEMMA OthersStayTraced ==
    ASSUME NEW w, Traced(w), ended \subseteq ended',
           \A i \in MessageId[email[w]] : midEnt[i] \subseteq midEnt'[i],
           \A i \in InReplyTo[email[w]] : entMid[i] \subseteq entMid'[i],
           pc'[w] = pc[w], email'[w] = email[w], ids'[w] = ids[w], refs'[w] = refs[w],
           current'[w] = current[w], links'[w] = links[w], puts'[w] = puts[w], saw'[w] = saw[w]
    PROVE  Traced(w)'
  BY DEF Traced

(* The store stays as it is for the emails no job of which comes to an end. *)
LEMMA StoreStaysLinked ==
    ASSUME RepliesFound, OriginalsNoted, UNCHANGED <<store, known>>,
           \A e \in Emails : Settled(e)' => Settled(e)
    PROVE  RepliesFound' /\ OriginalsNoted'
  BY DEF RepliesFound, OriginalsNoted, store

(* A step of a job that has not come to its end settles no email.            *)
LEMMA BusyIsUnsettled ==
    ASSUME TypeOK, NEW w \in Workers, pc[w] # "idle", pc'[w] # "idle", UNCHANGED <<todo, email, ended>>,
           \A v \in Workers \ {w} : pc'[v] = pc[v], NEW e \in Emails, Settled(e)'
    PROVE  Settled(e)
  BY DEF Settled

(* A job that starts has resolved nothing, and its email is not settled.     *)
LEMMA StartLater ==
    ASSUME TypeOK, Sound, Later, NEW w \in Workers, Start(w)
    PROVE  Later'
<1> USE DEF TypeOK, cache, store, history
<1>1. PICK e \in Emails :
          /\ todo[e] > 0 /\ todo' = [todo EXCEPT ![e] = @ - 1]
          /\ email' = [email EXCEPT ![w] = e]
          /\ ids' = [ids EXCEPT ![w] = MessageId[e]] /\ refs' = [refs EXCEPT ![w] = InReplyTo[e]]
          /\ saw' = [saw EXCEPT ![w] = ended]
  BY DEF Start
<1>2. /\ links' = [links EXCEPT ![w] = {}] /\ pc' = [pc EXCEPT ![w] = "resolve"]
      /\ UNCHANGED <<midEnt, entMid, own, notes, current, puts, ended, known>>
      /\ pc[w] = "idle" /\ puts[w] = {}
  BY DEF Start, Sound
<1>3. Traced(w)'
  <2>1. /\ email'[w] = e /\ ids'[w] = MessageId[e] /\ refs'[w] = InReplyTo[e]
        /\ saw'[w] = ended' /\ puts'[w] = {}
    BY <1>1, <1>2
  <2> QED BY <2>1 DEF Traced
<1>4. ASSUME NEW v \in Workers \ {w}, pc'[v] # "idle" PROVE Traced(v)'
  <2>1. Traced(v)
    BY <1>2, <1>4 DEF Later, WorkersTraced
  <2> QED BY <1>1, <1>2, <2>1, OthersStayTraced
<1>5. WorkersTraced' /\ EndedTraced'
  BY <1>2, <1>3, <1>4 DEF Later, WorkersTraced, EndedTraced
<1>6. ASSUME NEW r \in Emails, Settled(r)' PROVE Settled(r)
  <2>1. r # e
    BY <1>1, <1>2, <1>6 DEF Settled
  <2>2. todo[r] = 0 /\ r \in ended
    BY <1>1, <1>2, <1>6, <2>1 DEF Settled
  <2>3. \A v \in Workers \ {w} : pc[v] # "idle" => email[v] # r
    BY <1>1, <1>2, <1>6 DEF Settled
  <2> QED BY <1>2, <2>2, <2>3 DEF Settled
<1>7. RepliesFound' /\ OriginalsNoted'
  BY <1>2, <1>6, StoreStaysLinked DEF Later
<1> QED BY <1>5, <1>7 DEF Later

(* A step of a job leaves its trace, or finds those of others.               *)
LEMMA JobLater ==
    ASSUME TypeOK, Sound, Later, NEW w \in Workers,
           Announce(w) \/ Notify(w) \/ Resolve(w) \/ Await(w)
    PROVE  Later'
<1> USE DEF TypeOK, cache, store, task, history
<1>1. /\ pc[w] # "idle" /\ pc'[w] # "idle" /\ email[w] \in Emails
      /\ UNCHANGED <<own, notes, todo, email, ended, saw, known>>
      /\ \A v \in Workers \ {w} : pc'[v] = pc[v]
  BY DEF Announce, Notify, Resolve, Await, Sound
<1>2. /\ \A i \in Ids : midEnt[i] \subseteq midEnt'[i] /\ entMid[i] \subseteq entMid'[i]
      /\ \A v \in Workers \ {w} : /\ ids'[v] = ids[v] /\ refs'[v] = refs[v]
                                  /\ current'[v] = current[v] /\ links'[v] = links[v]
                                  /\ puts'[v] = puts[v]
  <2>1. CASE Announce(w)
    BY <2>1 DEF Announce
  <2>2. CASE Notify(w)
    BY <2>2 DEF Notify
  <2>3. CASE Resolve(w)
    BY <2>3 DEF Resolve
  <2>4. CASE Await(w)
    BY <2>4 DEF Await
  <2> QED BY <2>1, <2>2, <2>3, <2>4
<1>3. Traced(w) /\ ids[w] \subseteq MessageId[email[w]] /\ refs[w] \subseteq InReplyTo[email[w]]
  BY <1>1 DEF Later, WorkersTraced, Sound
<1>4. Traced(w)'
  <2>1. CASE Announce(w)
    <3>1. PICK i \in ids[w] :
              /\ midEnt' = [midEnt EXCEPT ![i] = @ \union {email[w]}]
              /\ ids' = [ids EXCEPT ![w] = @ \ {i}]
              /\ current' = [current EXCEPT ![w] = i]
      BY <2>1 DEF Announce
    <3>2. i \in Ids /\ email[w] \in midEnt'[i] /\ ids'[w] = ids[w] \ {i} /\ current'[w] = i
      BY <3>1
    <3>3. /\ pc[w] = "resolve" /\ pc'[w] = "notify" /\ links' = links /\ puts' = puts
          /\ refs' = refs /\ entMid' = entMid
      BY <2>1 DEF Announce
    <3> QED BY <1>1, <1>2, <1>3, <3>2, <3>3 DEF Traced
  <2>2. CASE Notify(w)
    <3> DEFINE new == {<<r, current[w], email[w]>> : r \in entMid[current[w]] \ {email[w]}}
    <3>1. /\ puts'[w] = puts[w] \union new /\ pc[w] = "notify" /\ pc'[w] = "resolve"
          /\ UNCHANGED <<midEnt, entMid, ids, refs, links, current>>
      BY <2>2 DEF Notify
    <3>2. current[w] \in MessageId[email[w]]
      BY <3>1 DEF Sound
    <3>3. \A p \in new : p[3] = email[w] /\ p[2] \in MessageId[email[w]]
      BY <3>2
    <3>4. \A r \in saw[w] \ {email[w]} : current[w] \in InReplyTo[r] =>
              <<r, current[w], email[w]>> \in new
      BY <1>3 DEF Traced, Later, EndedTraced
    <3> HIDE DEF new
    <3>5. ASSUME NEW r \in saw[w] \ {email[w]}, NEW i \in MessageId[email[w]] \intersect InReplyTo[r]
          PROVE  i \in ids[w] \/ <<r, i, email[w]>> \in puts'[w]
      BY <1>3, <3>1, <3>4 DEF Traced
    <3> QED BY <1>1, <1>3, <3>1, <3>3, <3>5 DEF Traced
  <2>3. CASE Resolve(w)
    <3>1. PICK i \in refs[w] :
              /\ links' = [links EXCEPT ![w] = @ \union (midEnt[i] \ {email[w]})]
              /\ refs' = [refs EXCEPT ![w] = @ \ {i}]
              /\ current' = [current EXCEPT ![w] = i]
      BY <2>3 DEF Resolve
    <3>2. /\ i \in Ids /\ links'[w] = links[w] \union (midEnt[i] \ {email[w]})
          /\ refs'[w] = refs[w] \ {i} /\ current'[w] = i
      BY <3>1
    <3>3. /\ pc[w] = "resolve" /\ pc'[w] = "await" /\ UNCHANGED <<midEnt, entMid, ids, puts>>
      BY <2>3 DEF Resolve
    <3>4. \A e \in saw[w] \ {email[w]} : i \in MessageId[e] => e \in midEnt[i]
      BY <1>3 DEF Traced, Later, EndedTraced
    <3>5. ASSUME NEW e \in saw[w] \ {email[w]}, NEW k \in InReplyTo[email[w]] \intersect MessageId[e]
          PROVE  k \in refs'[w] \/ e \in links'[w]
      BY <1>3, <3>2, <3>4 DEF Traced
    <3> QED BY <1>1, <1>3, <3>2, <3>3, <3>5 DEF Traced
  <2>4. CASE Await(w)
    <3>1. /\ entMid' = [entMid EXCEPT ![current[w]] = @ \union {email[w]}]
          /\ pc[w] = "await" /\ pc'[w] = "resolve"
          /\ UNCHANGED <<midEnt, ids, refs, links, current, puts>>
      BY <2>4 DEF Await
    <3>2. current[w] \in Ids /\ email[w] \in entMid'[current[w]]
      BY <3>1 DEF Sound
    <3> QED BY <1>1, <1>2, <1>3, <3>1, <3>2 DEF Traced
  <2> QED BY <2>1, <2>2, <2>3, <2>4
<1>5. ASSUME NEW v \in Workers \ {w}, pc'[v] # "idle" PROVE Traced(v)'
  <2>1. Traced(v) /\ email[v] \in Emails
    BY <1>1, <1>5 DEF Later, WorkersTraced, Sound
  <2> QED BY <1>1, <1>2, <2>1, OthersStayTraced
<1>6. WorkersTraced'
  BY <1>4, <1>5 DEF WorkersTraced
<1>7. EndedTraced'
  BY <1>1, <1>2 DEF Later, EndedTraced
<1>8. RepliesFound' /\ OriginalsNoted'
  BY <1>1, BusyIsUnsettled, StoreStaysLinked DEF Later
<1> QED BY <1>6, <1>7, <1>8 DEF Later

(* A job that ends writes what it found, and notes itself where it was.      *)
LEMMA EndLater ==
    ASSUME TypeOK, Sound, Later, NEW w \in Workers, Succeed(w) \/ Raise(w)
    PROVE  Later'
<1> USE DEF TypeOK, cache, task
<1> DEFINE e == email[w]
           new(r, i) == {p \in puts[w] : p[1] = r /\ p[2] = i}
<1>1. /\ pc[w] # "idle" /\ e \in Emails /\ Traced(w)
      /\ own' = [own EXCEPT ![e] = links[w]] /\ known' = [known EXCEPT ![e] = saw[w]]
      /\ puts' = [puts EXCEPT ![w] = {}] /\ pc' = [pc EXCEPT ![w] = "idle"]
      /\ UNCHANGED <<midEnt, entMid, email, ids, refs, links, current, saw>>
  BY DEF Succeed, Raise, Finalize, Sound, Later, WorkersTraced
<1>2. \A r \in Emails, i \in Ids :
          notes'[r][i] = IF new(r, i) = {} THEN notes[r][i] ELSE {p[3] : p \in new(r, i)}
  <2>1. notes' = [r \in Emails |-> [i \in Ids |->
                    IF new(r, i) = {} THEN notes[r][i] ELSE {p[3] : p \in new(r, i)}]]
    BY Zenon DEF Succeed, Raise, Finalize
  <2> HIDE DEF new
  <2> QED BY <2>1
<1>3. ended \subseteq ended' /\ \A x \in ended' : x \in ended \/ (x = e /\ Succeed(w))
  BY DEF Succeed, Raise
<1>4. WorkersTraced'
  <2> SUFFICES ASSUME NEW v \in Workers, pc'[v] # "idle" PROVE Traced(v)'
    BY DEF WorkersTraced
  <2>1. v # w /\ Traced(v)
    BY <1>1 DEF Later, WorkersTraced
  <2> QED BY <1>1, <1>3, <2>1, OthersStayTraced
<1>5. EndedTraced'
  <2>1. Succeed(w) => /\ \A i \in MessageId[e] : e \in midEnt[i]
                      /\ \A i \in InReplyTo[e] : e \in entMid[i]
    BY <1>1 DEF Succeed, Traced
  <2> QED BY <1>1, <1>3, <2>1 DEF Later, EndedTraced
<1>6. ASSUME NEW x \in Emails, Settled(x)'
      PROVE  IF x = e THEN Succeed(w) ELSE Settled(x)
  <2>1. CASE x = e
    <3>1. Raise(w) => todo'[e] # 0
      BY <1>1 DEF Raise
    <3> QED BY <1>6, <2>1, <3>1 DEF Settled
  <2>2. CASE x # e
    <3>1. todo'[x] = todo[x] /\ x \in ended
      BY <1>1, <1>3, <1>6, <2>2 DEF Succeed, Raise, Settled
    <3>2. \A v \in Workers : pc[v] # "idle" => email[v] # x
      BY <1>1, <1>6, <2>2 DEF Settled
    <3> QED BY <1>6, <2>2, <3>1, <3>2 DEF Settled
  <2> QED BY <2>1, <2>2
<1>7. RepliesFound'
  <2> SUFFICES ASSUME NEW r \in Emails, Settled(r)', NEW x \in known'[r], Answers(r, x)
               PROVE  x \in own'[r]
    BY DEF RepliesFound, Answers
  <2>1. CASE r = e
    <3>1. refs[w] = {} /\ x \in saw[w] \ {e}
      BY <1>1, <1>6, <2>1 DEF Succeed, Answers
    <3>2. PICK i \in InReplyTo[e] : i \in MessageId[x]
      BY <2>1 DEF Answers
    <3>3. x \in links[w]
      BY <1>1, <3>1, <3>2 DEF Traced
    <3> QED BY <1>1, <2>1, <3>3
  <2>2. CASE r # e
    BY <1>1, <1>6, <2>2 DEF Later, RepliesFound
  <2> QED BY <2>1, <2>2
<1>8. OriginalsNoted'
  <2> SUFFICES ASSUME NEW x \in Emails, Settled(x)', Unique(x), NEW r \in known'[x] \ {x},
                      NEW i \in MessageId[x] \intersect InReplyTo[r]
               PROVE  x \in notes'[r][i]
    BY DEF OriginalsNoted, Unique
  <2>1. i \in Ids /\ r \in Emails
    BY <1>1
  <2>2. CASE x = e
    <3>1. ids[w] = {} /\ pc[w] = "resolve" /\ r \in saw[w] \ {e}
      BY <1>1, <1>6, <2>2 DEF Succeed
    <3>2. <<r, i, e>> \in new(r, i)
      BY <1>1, <2>2, <3>1 DEF Traced
    <3>3. <<r, i, e>>[3] = e
      OBVIOUS
    <3> HIDE DEF new
    <3>4. e \in {p[3] : p \in new(r, i)} /\ new(r, i) # {}
      BY <3>2, <3>3
    <3>5. notes'[r][i] = {p[3] : p \in new(r, i)}
      BY <1>2, <2>1, <3>4
    <3> QED BY <2>2, <3>4, <3>5
  <2>3. CASE x # e
    <3>1. new(r, i) = {}
      BY <1>1, <2>3 DEF Traced, Unique
    <3>2. notes'[r][i] = notes[r][i]
      BY <1>2, <2>1, <3>1
    <3>3. r \in known[x] \ {x} /\ Settled(x)
      BY <1>1, <1>6, <2>3
    <3> QED BY <3>2, <3>3 DEF Later, OriginalsNoted
  <2> QED BY <2>2, <2>3
<1> QED BY <1>4, <1>5, <1>7, <1>8 DEF Later

(* A reply that was last written by a job that started after a job of the   *)
(* original had ended is linked to it; so is one whose original came later, *)
(* if no other email claims the same Message-ID (email.py:243-251).         *)
THEOREM LaterLinked == Spec => []LaterIsLinked
<1>1. Init => Later
  BY DEF Init, Later, WorkersTraced, EndedTraced, RepliesFound, OriginalsNoted, Settled
<1>2. TypeOK /\ Sound /\ Later /\ [Next]_vars => Later'
  <2> SUFFICES ASSUME TypeOK, Sound, Later, [Next]_vars PROVE Later'
    OBVIOUS
  <2>1. CASE UNCHANGED vars
    BY <2>1 DEF Later, WorkersTraced, Traced, EndedTraced, RepliesFound, OriginalsNoted, Settled,
       vars, cache, store, task, history
  <2> QED BY <2>1, StartLater, JobLater, EndLater DEF Next
<1>3. TypeOK /\ Later => LaterIsLinked
  <2> SUFFICES ASSUME TypeOK, Later, NEW r \in Emails, NEW e \in Emails,
                      Answers(r, e), Settled(r), Settled(e)
               PROVE  /\ e \in known[r] => Linked(r, e)
                      /\ r \in known[e] /\ Unique(e) => Linked(r, e)
    BY DEF LaterIsLinked, Unique
  <2>1. e \in known[r] => Linked(r, e)
    BY DEF Later, RepliesFound, Linked
  <2>2. ASSUME r \in known[e], Unique(e) PROVE Linked(r, e)
    <3>1. PICK i \in MessageId[e] : i \in InReplyTo[r]
      BY DEF Answers
    <3>2. e \in notes[r][i] /\ i \in Ids
      BY <2>2, <3>1 DEF Later, OriginalsNoted, Answers
    <3> QED BY <3>2 DEF Linked
  <2> QED BY <2>1, <2>2
<1> QED BY <1>1, <1>2, <1>3, InitSound, SoundStep, PTL DEF Spec

=============================================================================
