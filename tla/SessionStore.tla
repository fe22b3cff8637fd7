----------------------------- MODULE SessionStore -----------------------------
(***************************************************************************)
(* MemoryStore (internal/vcontext/store.go): what the chunks of a request  *)
(* leave for each other, by session and key.  Every operation runs under   *)
(* one mutex, so it is one step.  Expiry and the cap on sessions are       *)
(* enforced by sweep, which runs inside the operations and never alone.    *)
(*                                                                         *)
(* held and touched are ghosts: what a caller put into a session since it  *)
(* was created or closed, and when it last touched it.                     *)
(***************************************************************************)
EXTENDS Integers, FiniteSets, Sequences, SequencesExt, FiniteSetsExt, Functions

CONSTANTS
  Ids,         \* sessions
  Keys,        \* keys of their entries
  TTL,         \* ttl()
  MaxSessions, \* maxSessions()
  MaxEntries,  \* maxEntries()
  MaxTime,     \* bound: the clock stops here
  MaxEvicted   \* bound: evictions counted

\* ttl(), maxSessions() and maxEntries() replace what is not positive.
ASSUME StoreAssumption ==
  /\ TTL \in Nat \ {0} /\ MaxSessions \in Nat \ {0} /\ MaxEntries \in Nat \ {0}
  /\ MaxTime \in Nat

VARIABLES
  now,      \* the injected clock
  sessions, \* [some of Ids -> [order, touched]]; entries has the keys of order
  evicted,  \* the counter of sessions dropped for the cap
  held,     \* [Ids -> the keys put into a session, in order]
  touched      \* [Ids -> when it was last touched]

storeVars == <<now, sessions, evicted, held, touched>>

StoreInit ==
  /\ now = 0 /\ sessions = <<>> /\ evicted = 0
  /\ held = [i \in Ids |-> <<>>] /\ touched = [i \in Ids |-> 0]

Tick ==
  /\ now < MaxTime
  /\ now' = now + 1
  /\ UNCHANGED <<sessions, evicted, held, touched>>

---------------------------------------------------------------------------
(* sweep.                                                                    *)

Expired(i) == sessions[i].touched < now - TTL

Live == {i \in DOMAIN sessions : ~Expired(i)}

Touched(i) == sessions[i].touched

\* Changed: the session touched last goes first.
OverCapNewest(live) ==
  {drop \in SUBSET live :
     /\ Cardinality(live \ drop) = Min({MaxSessions, Cardinality(live)})
     /\ \A d \in drop, k \in live \ drop : Touched(d) >= Touched(k)}

\* What may be dropped of the sessions that have not expired to be at the cap:
\* the least recently touched, and any of those touched at the same time.
OverCap(live) ==
  {drop \in SUBSET live :
     /\ Cardinality(live \ drop) = Min({MaxSessions, Cardinality(live)})
     /\ \A d \in drop, k \in live \ drop : Touched(d) <= Touched(k)}

\* What a sweep may leave of a store without the sessions gone.
Swept(gone) == {Restrict(sessions, (Live \ gone) \ drop) : drop \in OverCap(Live \ gone)}

\* The sweep that leaves store, one of these: what it drops for the cap is counted.
Sweep(gone, store) ==
  /\ evicted' = evicted + Cardinality(Live \ gone) - Cardinality(DOMAIN store)
  /\ evicted' <= MaxEvicted

---------------------------------------------------------------------------
(* The operations.                                                           *)

With(store, i, session) == [j \in DOMAIN store \cup {i} |-> IF j = i THEN session ELSE store[j]]

Empty == [order |-> <<>>, touched |-> 0]

Full(session, key) == key \notin ToSet(session.order) /\ Len(session.order) >= MaxEntries

\* Changed: a key that is there already is put at the end once more.
PutAgain(store, i, key) ==
  LET s == IF i \in DOMAIN store THEN store[i] ELSE Empty IN
  IF Full(s, key) THEN With(store, i, s)
  ELSE With(store, i, [order |-> Append(s.order, key), touched |-> now])

\* What Put does to a store it has swept: it creates the session, refuses a new
\* key beyond MaxEntries, and keeps the place of a key it overwrites.
PutInto(store, i, key) ==
  LET s == IF i \in DOMAIN store THEN store[i] ELSE Empty IN
  IF Full(s, key) THEN With(store, i, s)
  ELSE With(store, i, [order   |-> IF key \in ToSet(s.order) THEN s.order ELSE Append(s.order, key),
                       touched |-> now])

Put(i, key) ==
  /\ \E store \in Swept({}) : Sweep({}, store) /\ sessions' = PutInto(store, i, key)
  /\ LET kept == i \in DOMAIN sessions /\ ~Expired(i) /\ sessions'[i].order # <<key>>
         before == IF kept THEN held[i] ELSE <<>>
     IN IF key \in ToSet(sessions'[i].order)
        THEN /\ held' = [held EXCEPT ![i] = IF key \in ToSet(before) THEN before
                                            ELSE Append(before, key)]
             /\ touched' = [touched EXCEPT ![i] = now]
        ELSE UNCHANGED <<held, touched>>
  /\ UNCHANGED now

\* Get touches a session only when it finds the key.
Get(i, key) ==
  LET hit(store) == i \in DOMAIN store /\ key \in ToSet(store[i].order) IN
  /\ \E store \in Swept({}) :
       /\ Sweep({}, store)
       /\ sessions' = IF hit(store) THEN [store EXCEPT ![i].touched = now] ELSE store
  /\ touched' = IF hit(sessions') THEN [touched EXCEPT ![i] = now] ELSE touched
  /\ UNCHANGED <<now, held>>

\* All touches the session.
All(i) ==
  /\ \E store \in Swept({}) :
       /\ Sweep({}, store)
       /\ sessions' = IF i \in DOMAIN store THEN [store EXCEPT ![i].touched = now] ELSE store
  /\ touched' = IF i \in DOMAIN sessions' THEN [touched EXCEPT ![i] = now] ELSE touched
  /\ UNCHANGED <<now, held>>

\* Close deletes first and sweeps then.
CloseSession(i) ==
  /\ \E store \in Swept({i}) : Sweep({i}, store) /\ sessions' = store
  /\ held' = [held EXCEPT ![i] = <<>>]
  /\ UNCHANGED <<now, touched>>

\* Sessions sweeps, too.
Sessions ==
  /\ \E store \in Swept({}) : Sweep({}, store) /\ sessions' = store
  /\ UNCHANGED <<now, held, touched>>

StoreNext ==
  \/ Tick \/ Sessions
  \/ \E i \in Ids : All(i) \/ CloseSession(i)
  \/ \E i \in Ids, key \in Keys : Put(i, key) \/ Get(i, key)

---------------------------------------------------------------------------
(* Properties.                                                               *)

StoreTypeOK ==
  /\ now \in 0 .. MaxTime /\ evicted \in Nat
  /\ DOMAIN sessions \subseteq Ids
  /\ \A i \in DOMAIN sessions : /\ ToSet(sessions[i].order) \subseteq Keys
                                /\ sessions[i].touched \in 0 .. now

\* "MaxSessions bounds how many are held at once, whatever the TTL says"
\* (store.go:59-64); Put makes room before it inserts (store.go:160-172).
CapHolds == Cardinality(DOMAIN sessions) <= MaxSessions

\* No session grows beyond its own limit (store.go:66-68).
EntriesBounded == \A i \in DOMAIN sessions : Len(sessions[i].order) <= MaxEntries

\* What was put is there, once and in the order in which it came, until the
\* session is closed, expires after its last touch, or is counted as evicted
\* (store.go:30, 56-64, 238-243).
LostOnlyWhenTold ==
  LET lost == {i \in Ids : /\ held[i] # <<>> /\ touched[i] >= now - TTL
                           /\ i \notin DOMAIN sessions}
  IN /\ Cardinality(lost) <= evicted
     /\ \A i \in DOMAIN sessions : sessions[i].order = held[i]

\* Whatever a step drops without closing it had expired, or had been touched no
\* later than everything it keeps but the session it writes (store.go:62-65).
EvictsOldest ==
  [][\A d \in DOMAIN sessions \ DOMAIN sessions' :
       \/ Expired(d) \/ held'[d] = <<>>
       \/ \A k \in DOMAIN sessions \cap DOMAIN sessions' :
            sessions'[k].touched = now \/ Touched(d) <= Touched(k)]_storeVars

StoreKeeps == EntriesBounded /\ LostOnlyWhenTold
=============================================================================
