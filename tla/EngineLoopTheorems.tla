--------------------------- MODULE EngineLoopTheorems ---------------------------
(***************************************************************************)
(* Theorems about EngineLoop, for every value of its constants.            *)
(*                                                                         *)
(* Inv is the inductive invariant.  TypeOK, SequenceConserved and OneOwner *)
(* are not inductive alone: what Run holds in cur, todo and fin must be    *)
(* what active says (Control), the counters of a slot must agree with the  *)
(* place Run has reached (Counters, Unfinished).                           *)
(***************************************************************************)
EXTENDS EngineLoop, TLAPS, FiniteSetTheorems

Harvesting ==
  \/ pc \in {"harvest", "verify", "emit", "judge"}
  \/ pc = "finish" /\ fin.ret = "harvest"

\* What Run has in its hands at each place.
Place ==
  /\ pc # "finish" => fin = NoFin
  /\ pc = "finish" => /\ fin.req \in Requests
                      /\ fin.ret \in {"top", "harvest", "drain"}
                      /\ fin.reason \in Reasons
  /\ pc # "flush" => flush = <<>>
  /\ closed <=> pc \in {"flush", "exit"}
  /\ pc \in {"idle", "flush", "exit"} => Occupied = {}

\* What is left of the loops over active, and of the verification of cur.
Batch ==
  /\ pc \in {"pass1", "pass2"} \/ Harvesting => todo \subseteq Occupied
  /\ Harvesting => \A q \in todo : staged[active[q]] > 0
  /\ pc \in {"verify", "emit", "judge"} => cur \in Occupied /\ cur \notin todo
  /\ pc = "verify" => staged[active[cur]] > 0

Control == Place /\ Batch

\* The counters of a slot, and of a request that has none.
Counters ==
  /\ \A r \in Requests : staged[r] <= pos[r]
  /\ \A r \in Requests : ~primed[r] => pos[r] <= PromptLen[r]
  /\ \A r \in Requests : ~Running(r) /\ ~Finishing(r) =>
       pos[r] = 0 /\ ~primed[r] /\ generated[r] = 0 /\ staged[r] = 0
  /\ \A r \in Requests : status[r] = "accepted" => Admissible(r)

\* A stream that goes on has tokens left to generate.
Unfinished ==
  \A q \in Occupied :
    MaxTokens[active[q]] > 0 /\ ~(pc \in {"emit", "judge"} /\ q = cur)
      => generated[active[q]] < MaxTokens[active[q]]

Inv ==
  /\ TypeOK
  /\ SequenceConserved
  /\ OneOwner
  /\ Control
  /\ Counters
  /\ Unfinished
  /\ TokenLimit
  /\ NoLostWakeup
  /\ NobodyLeftBehind
  /\ FinalEventFirst

-----------------------------------------------------------------------------
(* Sequences.                                                              *)

\* The head and the tail of a sequence.
LEMMA TailFacts ==
  ASSUME NEW S, NEW s \in Seq(S), s # <<>>
  PROVE  /\ Tail(s) \in Seq(S)
         /\ Head(s) \in S /\ Head(s) = s[1]
         /\ Len(s) \in Nat \ {0}
         /\ DOMAIN s = 1 .. Len(s)
         /\ DOMAIN Tail(s) = 1 .. Len(s) - 1
         /\ \A i \in DOMAIN Tail(s) : Tail(s)[i] = s[i + 1]
  OBVIOUS

\* A sequence with one more element.
LEMMA AppendFacts ==
  ASSUME NEW S, NEW s \in Seq(S), NEW e \in S
  PROVE  /\ Append(s, e) \in Seq(S)
         /\ Len(s) \in Nat
         /\ DOMAIN s = 1 .. Len(s)
         /\ DOMAIN Append(s, e) = 1 .. Len(s) + 1
         /\ \A i \in DOMAIN s : Append(s, e)[i] = s[i]
         /\ Append(s, e)[Len(s) + 1] = e
  OBVIOUS

\* A queue without its head holds the others, once.
LEMMA PopFacts ==
  ASSUME NEW S, NEW s \in Seq(S), s # <<>>,
         \A i, j \in DOMAIN s : s[i] = s[j] => i = j
  PROVE  /\ \A i, j \in DOMAIN Tail(s) : Tail(s)[i] = Tail(s)[j] => i = j
         /\ \A x : (\E i \in DOMAIN Tail(s) : Tail(s)[i] = x)
                    <=> (\E i \in DOMAIN s : s[i] = x) /\ x # Head(s)
         /\ \E i \in DOMAIN s : s[i] = Head(s)
<1>1. \A i, j \in DOMAIN Tail(s) : Tail(s)[i] = Tail(s)[j] => i = j
  <2> SUFFICES ASSUME NEW i \in DOMAIN Tail(s), NEW j \in DOMAIN Tail(s),
                      Tail(s)[i] = Tail(s)[j]
               PROVE  i = j
    OBVIOUS
  <2>1. i + 1 \in DOMAIN s /\ j + 1 \in DOMAIN s /\ s[i + 1] = s[j + 1]
    BY TailFacts
  <2>2. i + 1 = j + 1
    BY <2>1
  <2> QED
    BY <2>2, TailFacts
<1>2. ASSUME NEW x, NEW i \in DOMAIN Tail(s), Tail(s)[i] = x
      PROVE  (\E k \in DOMAIN s : s[k] = x) /\ x # Head(s)
  <2>1. i + 1 \in DOMAIN s /\ s[i + 1] = x /\ 1 \in DOMAIN s /\ s[1] = Head(s)
        /\ i + 1 # 1
    BY <1>2, TailFacts
  <2> QED
    BY <2>1
<1>3. ASSUME NEW x, NEW i \in DOMAIN s, s[i] = x, x # Head(s)
      PROVE  \E k \in DOMAIN Tail(s) : Tail(s)[k] = x
  <2>1. i - 1 \in DOMAIN Tail(s) /\ Tail(s)[i - 1] = s[(i - 1) + 1] /\ (i - 1) + 1 = i
    BY <1>3, TailFacts
  <2> QED
    BY <1>3, <2>1
<1> QED
  <2>1. 1 \in DOMAIN s /\ s[1] = Head(s)
    BY TailFacts
  <2> QED
    BY <1>1, <1>2, <1>3, <2>1

-----------------------------------------------------------------------------
(* Types.                                                                  *)

\* The types hold at first.
LEMMA InitType == Init => TypeOK
<1> SUFFICES ASSUME Init PROVE TypeOK
  OBVIOUS
<1>1. free \in Seq(Seqs)
  BY ConstantsAssumption DEF Init, Seqs
<1>2. /\ 0 \in Seqs /\ BatchCap \in Nat
  BY ConstantsAssumption DEF Seqs
<1>3. out \in [Requests -> Seq(Reasons \cup {"text"})]
  BY DEF Init
<1>4. queue \in Seq(Requests) /\ flush \in Seq(Requests)
  BY DEF Init
<1>5. drafting \in BOOLEAN
  BY DEF Init
<1>6. fin \in FinRecords
  BY <1>2 DEF Init, NoFin, FinRecords
<1>7. pc \in PCs /\ room \in 0 .. BatchCap
  BY <1>2 DEF Init, PCs
<1>8. /\ primed \in [Requests -> BOOLEAN]
      /\ outClosed \in [Requests -> BOOLEAN]
      /\ cancelled \in [Requests -> BOOLEAN]
  BY DEF Init
<1>9. /\ status \in [Requests -> {"new", "refused", "accepted"}]
      /\ heard \in [Requests -> {"nothing", "final", "answered", "unanswered"}]
  BY DEF Init
<1>10. active \in [Seqs -> Requests \cup {None}]
  BY DEF Init
<1>11. /\ pos \in [Requests -> Nat]
       /\ generated \in [Requests -> Nat]
       /\ staged \in [Requests -> Nat]
  BY DEF Init
<1> QED
  BY <1>1, <1>2, <1>3, <1>4, <1>5, <1>6, <1>7, <1>8, <1>9, <1>10, <1>11
  DEF Init, TypeOK, SharedOK, RunOK, SlotOK, StreamOK

-----------------------------------------------------------------------------
(* Ownership.                                                              *)

\* The actions that start a finish, and those that end a harvest without one.
Finishers ==
  \/ \E q \in Seqs : DecodeNoKV(q) \/ HarvestCancelled(q) \/ HarvestSampling(q) \/ DrainActive(q)
  \/ SampleFail \/ SampleEOS \/ JudgeStop \/ JudgeLimit \/ JudgeDone

\* The steps that may call finish touch none of what callers share.
LEMMA FinishersFinish ==
  ASSUME Inv, Finishers
  PROVE  /\ pc \notin {"finish", "flush", "exit", "idle", "top", "admit", "unlocked"}
         /\ UNCHANGED <<shared, streams, flush>>
         /\ \/ UNCHANGED <<active, fin>> /\ pc' = "harvest"
            \/ \E q \in Occupied, reason \in Reasons, ret \in {"top", "harvest", "drain"} :
                 Finish(q, reason, ret)
<1> USE DEF Inv, Control, Place, Batch
<1>1. /\ pc \notin {"finish", "flush", "exit", "idle", "top", "admit", "unlocked"}
      /\ UNCHANGED <<shared, streams, flush>>
  BY DEF Finishers, DecodeNoKV, HarvestCancelled, HarvestSampling, DrainActive, SampleFail,
         SampleEOS, JudgeStop, JudgeLimit, JudgeDone
<1>2. ASSUME NEW left, NEW reason \in {"stop", "length", "none"}, Settle(left, reason), cur \in Occupied
      PROVE  \/ UNCHANGED <<active, fin>> /\ pc' = "harvest"
             \/ \E q \in Occupied, why \in Reasons, ret \in {"top", "harvest", "drain"} :
                  Finish(q, why, ret)
  BY <1>2 DEF Settle, Goto, Reasons
<1>3. \/ UNCHANGED <<active, fin>> /\ pc' = "harvest"
      \/ \E q \in Occupied, reason \in Reasons, ret \in {"top", "harvest", "drain"} :
                 Finish(q, reason, ret)
  <2>1. CASE \E q \in Seqs : DecodeNoKV(q) \/ DrainActive(q)
    BY <2>1 DEF DecodeNoKV, DrainActive, Reasons
  <2>2. CASE \E q \in Seqs : HarvestCancelled(q) \/ HarvestSampling(q)
    BY <2>2 DEF HarvestCancelled, HarvestSampling, Reasons, Harvesting
  <2>3. CASE SampleFail
    BY <2>3 DEF SampleFail, Reasons
  <2>4. CASE SampleEOS \/ JudgeStop
    BY <2>4, <1>2 DEF SampleEOS, JudgeStop
  <2>5. CASE JudgeLimit \/ JudgeDone
    BY <2>5, <1>2 DEF JudgeLimit, JudgeDone
  <2> QED
    BY <2>1, <2>2, <2>3, <2>4, <2>5 DEF Finishers
<1> QED
  BY <1>1, <1>3

\* A slot that calls finish still owns its stream.
LEMMA FinishOwner ==
  ASSUME Inv, pc # "finish", NEW q \in Occupied, NEW reason, NEW ret, Finish(q, reason, ret),
         UNCHANGED <<shared, streams, flush>>
  PROVE  SequenceConserved' /\ OneOwner'
<1>1. /\ fin = NoFin /\ None \notin Requests /\ active \in [Seqs -> Requests \cup {None}] /\ q \in Seqs
      /\ active[q] \in Requests
  BY ConstantsAssumption DEF Inv, Control, Place, Batch, TypeOK, RunOK, Occupied
<1>2. SequenceConserved'
  BY <1>1 DEF Inv, SequenceConserved, Finish, NoFin, shared
<1>3. OneOwner'
  <2> PICK f \in Requests : f = active[q]
    BY <1>1
  <2>1. ASSUME NEW r \in Requests, r # f
        PROVE (Running(r)' <=> Running(r)) /\ (Finishing(r)' <=> Finishing(r))
    <3>1. \A p \in Seqs : active'[p] = IF p = q THEN None ELSE active[p]
      BY <1>1 DEF Finish
    <3>2. fin'.req = active[q] /\ fin.req = None
      BY <1>1 DEF Finish, NoFin
    <3> QED
      BY <1>1, <2>1, <3>1, <3>2 DEF Running, Finishing
  <2>2. Running(f) /\ ~Running(f)' /\ Finishing(f)'
    <3>1. /\ \A p \in Seqs : active'[p] = IF p = q THEN None ELSE active[p]
          /\ fin'.req = f
      BY <1>1 DEF Finish
    <3> QED
      BY <1>1, <3>1 DEF Inv, OneOwner, Running, Finishing, Occupied
  <2>3. \A r \in Requests : (Queued(r)' <=> Queued(r)) /\ (Flushing(r)' <=> Flushing(r))
    BY DEF Queued, Flushing, shared
  <2>4. \A p, s \in Occupied' : active'[p] = active'[s] => p = s
    <3>1. \A p \in Seqs : active'[p] = IF p = q THEN None ELSE active[p]
      BY <1>1 DEF Finish
    <3> QED
      BY <3>1 DEF Inv, OneOwner, Occupied
  <2> QED
    BY <1>1, <2>1, <2>2, <2>3, <2>4 DEF Inv, OneOwner, shared, streams
<1> QED
  BY <1>2, <1>3

\* Submit makes the queue the owner.
LEMMA SubmitOwner ==
  ASSUME Inv, NEW r \in Requests, Submit(r)
  PROVE  SequenceConserved' /\ OneOwner'
<1>1. SequenceConserved'
  BY DEF Inv, SequenceConserved, Submit, runVars
<1>2. CASE UNCHANGED queue
  <2>1. \A s \in Requests : /\ status'[s] = IF s = r THEN "refused" ELSE status[s]
                            /\ status[r] = "new" /\ outClosed' = outClosed
    BY <1>2, AppendFacts DEF Inv, TypeOK, SharedOK, Submit, streams
  <2> QED
    BY <1>1, <1>2, <2>1 DEF Inv, OneOwner, Submit, runVars, Queued, Running, Finishing, Flushing, Occupied
<1>3. CASE queue' = Append(queue, r)
  <2>1. /\ queue \in Seq(Requests) /\ status[r] = "new" /\ queue' # queue
        /\ UNCHANGED <<active, fin, flush, outClosed>>
    BY <1>3, AppendFacts DEF Inv, TypeOK, SharedOK, Submit, runVars, streams
  <2>2. \A s \in Requests : status'[s] = IF s = r THEN "accepted" ELSE status[s]
    BY <2>1 DEF Inv, TypeOK, SharedOK, Submit
  <2>3. /\ ~Queued(r) /\ ~Running(r) /\ ~Finishing(r) /\ ~Flushing(r) /\ ~outClosed[r]
    BY <2>1 DEF Inv, OneOwner
  <2>4. /\ \A s \in Requests : Queued(s)' <=> Queued(s) \/ s = r
        /\ \A i, j \in DOMAIN queue' : queue'[i] = queue'[j] => i = j
    BY <1>3, <2>1, <2>3, AppendFacts DEF Queued, Inv, OneOwner
  <2>5. \A s \in Requests : /\ Running(s)' <=> Running(s)
                            /\ Finishing(s)' <=> Finishing(s)
                            /\ Flushing(s)' <=> Flushing(s)
    BY <2>1 DEF Running, Finishing, Flushing
  <2> QED
    BY <1>1, <2>1, <2>2, <2>3, <2>4, <2>5 DEF Inv, OneOwner, Occupied
<1> QED
  BY <1>2, <1>3 DEF Submit

\* A queued request that was left has no owner any more.
LEMMA AdmitDropOwner ==
  ASSUME Inv, AdmitDrop
  PROVE  SequenceConserved' /\ OneOwner'
<1>1. /\ queue \in Seq(Requests) /\ queue # <<>> /\ queue' = Tail(queue)
      /\ UNCHANGED <<free, active, fin, flush, status>>
      /\ outClosed \in [Requests -> BOOLEAN]
      /\ outClosed' = [outClosed EXCEPT ![Head(queue)] = TRUE]
  BY DEF Inv, TypeOK, SharedOK, StreamOK, AdmitDrop, runVars
<1> PICK h \in Requests : h = Head(queue)
  BY <1>1, TailFacts
<1>2. SequenceConserved'
  BY <1>1 DEF Inv, SequenceConserved
<1>3. /\ \A s \in Requests : Queued(s)' <=> Queued(s) /\ s # h
      /\ \A i, j \in DOMAIN queue' : queue'[i] = queue'[j] => i = j
      /\ Queued(h)
  <2>1. \A i, j \in DOMAIN queue : queue[i] = queue[j] => i = j
    BY DEF Inv, OneOwner
  <2>2. /\ \A i, j \in DOMAIN Tail(queue) : Tail(queue)[i] = Tail(queue)[j] => i = j
        /\ \A x : (\E i \in DOMAIN Tail(queue) : Tail(queue)[i] = x)
                  <=> (\E i \in DOMAIN queue : queue[i] = x) /\ x # Head(queue)
        /\ \E i \in DOMAIN queue : queue[i] = Head(queue)
    BY <1>1, <2>1, PopFacts
  <2> QED
    BY <1>1, <2>2 DEF Queued
<1>4. \A s \in Requests : /\ Running(s)' <=> Running(s)
                          /\ Finishing(s)' <=> Finishing(s)
                          /\ Flushing(s)' <=> Flushing(s)
                          /\ outClosed'[s] <=> outClosed[s] \/ s = h
  BY <1>1 DEF Running, Finishing, Flushing
<1> QED
  BY <1>1, <1>2, <1>3, <1>4 DEF Inv, OneOwner, Occupied

\* A queued request that is admitted is owned by its slot.
LEMMA AdmitTakeOwner ==
  ASSUME Inv, AdmitTake
  PROVE  SequenceConserved' /\ OneOwner'
<1>1. /\ queue \in Seq(Requests) /\ queue # <<>> /\ queue' = Tail(queue)
      /\ free \in Seq(Seqs) /\ free # <<>> /\ free' = Tail(free)
      /\ active \in [Seqs -> Requests \cup {None}] /\ fin = NoFin /\ None \notin Requests
      /\ active' = [active EXCEPT ![Head(free)] = Head(queue)]
      /\ UNCHANGED <<fin, flush, status, outClosed>>
  BY ConstantsAssumption DEF Inv, Control, Place, Batch, TypeOK, SharedOK, RunOK, AdmitTake, streams
<1> PICK h \in Requests : h = Head(queue)
  BY <1>1, TailFacts
<1> PICK q \in Seqs : q = Head(free)
  BY <1>1, TailFacts
<1>2. /\ \A p \in Seqs : active'[p] = IF p = q THEN h ELSE active[p]
      /\ active[q] = None
  <2>1. free[1] = q /\ 1 \in DOMAIN free
    BY <1>1, TailFacts
  <2> QED
    BY <1>1, <2>1 DEF Inv, SequenceConserved
<1>3. SequenceConserved'
  <2>1. /\ \A i, j \in DOMAIN free' : free'[i] = free'[j] => i = j
        /\ \A p \in Seqs : (\E i \in DOMAIN free' : free'[i] = p)
                             <=> (\E i \in DOMAIN free : free[i] = p) /\ p # q
        /\ \E i \in DOMAIN free : free[i] = q
    <3>1. \A i, j \in DOMAIN free : free[i] = free[j] => i = j
      BY DEF Inv, SequenceConserved
    <3>2. /\ \A i, j \in DOMAIN Tail(free) : Tail(free)[i] = Tail(free)[j] => i = j
          /\ \A x : (\E i \in DOMAIN Tail(free) : Tail(free)[i] = x)
                    <=> (\E i \in DOMAIN free : free[i] = x) /\ x # Head(free)
          /\ \E i \in DOMAIN free : free[i] = Head(free)
      BY <1>1, <3>1, PopFacts
    <3> QED
      BY <1>1, <3>2
  <2> QED
    BY <1>1, <1>2, <2>1 DEF Inv, SequenceConserved, NoFin
<1>4. /\ \A s \in Requests : Queued(s)' <=> Queued(s) /\ s # h
      /\ \A i, j \in DOMAIN queue' : queue'[i] = queue'[j] => i = j
      /\ Queued(h)
  <2>1. \A i, j \in DOMAIN queue : queue[i] = queue[j] => i = j
    BY DEF Inv, OneOwner
  <2>2. /\ \A i, j \in DOMAIN Tail(queue) : Tail(queue)[i] = Tail(queue)[j] => i = j
        /\ \A x : (\E i \in DOMAIN Tail(queue) : Tail(queue)[i] = x)
                  <=> (\E i \in DOMAIN queue : queue[i] = x) /\ x # Head(queue)
        /\ \E i \in DOMAIN queue : queue[i] = Head(queue)
    BY <1>1, <2>1, PopFacts
  <2> QED
    BY <1>1, <2>2 DEF Queued
<1>5. \A s \in Requests : /\ Running(s)' <=> Running(s) \/ s = h
                          /\ Finishing(s)' <=> Finishing(s)
                          /\ Flushing(s)' <=> Flushing(s)
  BY <1>1, <1>2 DEF Running, Finishing, Flushing
<1> QED
  <2>1. ~Running(h) /\ ~Finishing(h) /\ ~Flushing(h)
    BY <1>4 DEF Inv, OneOwner
  <2>2. \A p, s \in Occupied' : active'[p] = active'[s] => p = s
    BY <1>1, <1>2, <2>1 DEF Inv, OneOwner, Occupied, Running
  <2> QED
    BY <1>1, <1>3, <1>4, <1>5, <2>1, <2>2 DEF Inv, OneOwner

\* finish closes the stream it owned and gives the sequence back.
LEMMA FinishEndOwner ==
  ASSUME Inv, FinishEnd
  PROVE  SequenceConserved' /\ OneOwner'
<1>1. /\ free \in Seq(Seqs) /\ free' = Append(free, fin.seq) /\ fin.seq \in Seqs
      /\ fin.req \in Requests /\ None \notin Requests /\ fin' = NoFin /\ fin'.req = None
      /\ outClosed \in [Requests -> BOOLEAN]
      /\ outClosed' = [outClosed EXCEPT ![fin.req] = TRUE]
      /\ UNCHANGED <<active, queue, flush, status>>
  BY ConstantsAssumption
     DEF Inv, Control, Place, Batch, TypeOK, SharedOK, StreamOK, RunOK, FinRecords, FinishEnd, NoFin
<1>2. SequenceConserved'
  <2>1. ~ \E i \in DOMAIN free : free[i] = fin.seq
    BY <1>1 DEF Inv, SequenceConserved
  <2>2. /\ \A i, j \in DOMAIN free' : free'[i] = free'[j] => i = j
        /\ \A q \in Seqs : (\E i \in DOMAIN free' : free'[i] = q)
                             <=> (\E i \in DOMAIN free : free[i] = q) \/ q = fin.seq
    BY <1>1, <2>1, AppendFacts DEF Inv, SequenceConserved
  <2> QED
    BY <1>1, <2>2 DEF Inv, SequenceConserved
<1>3. OneOwner'
  <2> PICK f \in Requests : f = fin.req
    BY <1>1
  <2>1. \A r \in Requests : /\ Queued(r)' <=> Queued(r)
                            /\ Running(r)' <=> Running(r)
                            /\ Flushing(r)' <=> Flushing(r)
                            /\ ~Finishing(r)'
                            /\ Finishing(r) <=> r = f
                            /\ outClosed'[r] <=> outClosed[r] \/ r = f
    BY <1>1 DEF Queued, Running, Flushing, Finishing
  <2> QED
    BY <1>1, <2>1 DEF Inv, OneOwner, Occupied
<1> QED
  BY <1>2, <1>3

\* drain makes the list it flushes the owner.
LEMMA DrainCloseOwner ==
  ASSUME Inv, DrainClose
  PROVE  SequenceConserved' /\ OneOwner'
<1>1. /\ flush = <<>> /\ flush' = queue /\ queue' = <<>>
      /\ UNCHANGED <<free, active, fin, status, outClosed>>
  BY DEF Inv, Control, Place, Batch, DrainClose, streams
<1>2. SequenceConserved'
  BY <1>1 DEF Inv, SequenceConserved
<1>3. \A r \in Requests : /\ ~Queued(r)' /\ ~Flushing(r)
                          /\ Flushing(r)' <=> Queued(r)
                          /\ Running(r)' <=> Running(r)
                          /\ Finishing(r)' <=> Finishing(r)
  BY <1>1 DEF Queued, Running, Flushing, Finishing
<1> QED
  BY <1>1, <1>2, <1>3 DEF Inv, OneOwner, Occupied

\* and closes it one by one.
LEMMA FlushOneOwner ==
  ASSUME Inv, FlushOne
  PROVE  SequenceConserved' /\ OneOwner'
<1>1. /\ flush \in Seq(Requests) /\ flush # <<>> /\ flush' = Tail(flush)
      /\ outClosed \in [Requests -> BOOLEAN]
      /\ outClosed' = [outClosed EXCEPT ![Head(flush)] = TRUE]
      /\ UNCHANGED <<free, active, fin, status, queue>>
  BY DEF Inv, TypeOK, RunOK, StreamOK, FlushOne, shared
<1>2. SequenceConserved'
  BY <1>1 DEF Inv, SequenceConserved
<1> PICK h \in Requests : h = Head(flush)
  BY <1>1, TailFacts
<1>3. /\ \A r \in Requests : Flushing(r)' <=> Flushing(r) /\ r # h
      /\ \A i, j \in DOMAIN flush' : flush'[i] = flush'[j] => i = j
      /\ Flushing(h)
  <2>1. \A i, j \in DOMAIN flush : flush[i] = flush[j] => i = j
    BY DEF Inv, OneOwner
  <2>2. /\ \A i, j \in DOMAIN Tail(flush) : Tail(flush)[i] = Tail(flush)[j] => i = j
        /\ \A x : (\E i \in DOMAIN Tail(flush) : Tail(flush)[i] = x)
                  <=> (\E i \in DOMAIN flush : flush[i] = x) /\ x # Head(flush)
        /\ \E i \in DOMAIN flush : flush[i] = Head(flush)
    BY <1>1, <2>1, PopFacts
  <2> QED
    BY <1>1, <2>2 DEF Flushing
<1>4. \A r \in Requests : /\ Queued(r)' <=> Queued(r)
                          /\ Running(r)' <=> Running(r)
                          /\ Finishing(r)' <=> Finishing(r)
                          /\ outClosed'[r] <=> outClosed[r] \/ r = h
  BY <1>1 DEF Queued, Running, Finishing
<1> QED
  BY <1>1, <1>2, <1>3, <1>4 DEF Inv, OneOwner, Occupied

\* The actions that hand nothing over: they leave every owner as it is.
Quiet ==
  \/ Top \/ AdmitEnd \/ TickOrIdle \/ IdleWake \/ IdleStop
  \/ \E q \in Seqs : StageNext(q) \/ SkipNext(q) \/ StagePrompt(q) \/ SkipPrompt(q)
  \/ Pass1End \/ Pass2End \/ DecodeOk \/ DecodeFail
  \/ \E q \in Seqs : HarvestVerify(q)
  \/ SampleToken \/ EmitText \/ JudgeAccept \/ HarvestEnd \/ Exit \/ Stop \/ Terminated
  \/ \E r \in Requests : Signal(r) \/ Cancel(r) \/ Receive(r) \/ ReceiveClose(r)

\* The other steps move nothing between owners,
LEMMA QuietFrame ==
  ASSUME Quiet \/ UNCHANGED vars
  PROVE  UNCHANGED <<status, queue, free, closed, active, fin, flush, outClosed>>
  BY DEF Quiet, Top, AdmitEnd, TickOrIdle, IdleWake, IdleStop, StageNext, SkipNext, StagePrompt,
         SkipPrompt, Pass1End, Pass2End, DecodeOk, DecodeFail, HarvestVerify, SampleToken,
         EmitText, JudgeAccept, HarvestEnd, Exit, Stop, Terminated, Signal, Cancel,
         Receive, ReceiveClose, vars, shared, runVars, streams

\* so every owner is the one it was.
LEMMA QuietOwner ==
  ASSUME Inv, Quiet \/ UNCHANGED vars
  PROVE  SequenceConserved' /\ OneOwner'
<1>1. UNCHANGED <<status, queue, free, active, fin, flush, outClosed>>
  BY QuietFrame
<1>2. \A r \in Requests : /\ Queued(r)' <=> Queued(r)
                          /\ Running(r)' <=> Running(r)
                          /\ Finishing(r)' <=> Finishing(r)
                          /\ Flushing(r)' <=> Flushing(r)
  BY <1>1 DEF Queued, Running, Finishing, Flushing
<1> QED
  BY <1>1, <1>2 DEF Inv, SequenceConserved, OneOwner, Occupied

\* Every step is one of these.
LEMMA NextCases ==
  Next <=> \/ Quiet \/ Finishers
           \/ AdmitDrop \/ AdmitTake \/ FinishEnd \/ DrainClose \/ FlushOne
           \/ \E r \in Requests : Submit(r)
BY DEF Next, Run, Loop, Tick, Harvest, Drain, Caller, Quiet, Finishers

\* Every step keeps one owner for each open stream.
LEMMA OwnerStep ==
  ASSUME Inv, [Next]_vars
  PROVE  SequenceConserved' /\ OneOwner'
<1>1. CASE Finishers
  <2>1. CASE UNCHANGED <<active, fin>>
    <3>1. UNCHANGED <<status, queue, free, active, fin, flush, outClosed>>
      BY <1>1, <2>1, FinishersFinish DEF shared, streams
    <3>2. \A r \in Requests : /\ Queued(r)' <=> Queued(r)
                              /\ Running(r)' <=> Running(r)
                              /\ Finishing(r)' <=> Finishing(r)
                              /\ Flushing(r)' <=> Flushing(r)
      BY <3>1 DEF Queued, Running, Finishing, Flushing
    <3> QED
      BY <3>1, <3>2 DEF Inv, SequenceConserved, OneOwner, Occupied
  <2> QED
    BY <1>1, <2>1, FinishersFinish, FinishOwner
<1> QED
  BY <1>1, NextCases, QuietOwner, AdmitDropOwner, AdmitTakeOwner, FinishEndOwner,
     DrainCloseOwner, FlushOneOwner, SubmitOwner

\* Every step types what callers and Run share,
LEMMA SharedStep ==
  ASSUME Inv, [Next]_vars
  PROVE  SharedOK'
<1> USE DEF Inv, TypeOK, SharedOK
<1>1. CASE Quiet \/ Finishers \/ UNCHANGED vars
  <2>1. /\ UNCHANGED <<status, queue, free, closed>>
        /\ signalling' \subseteq Requests /\ wake' \in BOOLEAN
    <3>1. CASE Finishers
      BY <3>1, FinishersFinish DEF shared
    <3> QED
      BY <1>1, <3>1
      DEF Quiet, Top, AdmitEnd, TickOrIdle, IdleWake, IdleStop, StageNext, SkipNext, StagePrompt,
          SkipPrompt, Pass1End, Pass2End, DecodeOk, DecodeFail, HarvestVerify, SampleToken,
          EmitText, JudgeAccept, HarvestEnd, Exit, Stop, Terminated, Signal, Cancel,
          Receive, ReceiveClose, vars, shared
  <2> QED
    BY <2>1
<1>2. ASSUME NEW r \in Requests, Submit(r)
      PROVE  SharedOK'
  BY <1>2, AppendFacts, SMTT(60) DEF Submit
<1>3. CASE AdmitDrop
  BY <1>3, TailFacts DEF AdmitDrop
<1>4. CASE AdmitTake
  BY <1>4, TailFacts DEF AdmitTake
<1>5. CASE FinishEnd
  BY <1>5, AppendFacts DEF FinishEnd, RunOK, FinRecords
<1>6. CASE DrainClose
  BY <1>6 DEF DrainClose
<1>7. CASE FlushOne
  BY <1>7 DEF FlushOne, shared
<1> QED
  BY <1>1, <1>2, <1>3, <1>4, <1>5, <1>6, <1>7, NextCases

\* the streams,
LEMMA StreamStep ==
  ASSUME Inv, [Next]_vars
  PROVE  StreamOK'
<1> USE DEF Inv, TypeOK, StreamOK
<1> DEFINE Events == Reasons \cup {"text"}
<1>1. ASSUME NEW r \in Requests, NEW ev \in Events, Emit(r, ev)
      PROVE  out' \in [Requests -> Seq(Events)]
  <2>1. out[r] \in Seq(Events)
    OBVIOUS
  <2>2. Append(out[r], ev) \in Seq(Events)
    BY <2>1, AppendFacts
  <2> QED
    BY <1>1, <2>2 DEF Emit
<1>2. CASE FinishEnd
  <2>1. fin.req \in Requests /\ fin.reason \in Events
    BY <1>2 DEF FinishEnd, Control, Place, Batch
  <2> QED
    BY <1>1, <1>2, <2>1 DEF FinishEnd
<1>3. CASE FlushOne
  <2>1. Head(flush) \in Requests /\ "cancel" \in Events
    BY <1>3, TailFacts DEF FlushOne, RunOK, Reasons
  <2> QED
    BY <1>1, <1>3, <2>1 DEF FlushOne
<1>4. CASE EmitText
  <2>1. active[cur] \in Requests /\ "text" \in Events
    BY <1>4 DEF EmitText, Control, Place, Batch, RunOK, Occupied
  <2> QED
    BY <1>1, <1>4, <2>1 DEF EmitText
<1>5. CASE AdmitDrop
  BY <1>5 DEF AdmitDrop
<1>6. ASSUME NEW r \in Requests, Receive(r)
      PROVE  StreamOK'
  <2>1. out[r] \in Seq(Events) /\ out[r] # <<>>
    BY <1>6 DEF Receive
  <2>2. Tail(out[r]) \in Seq(Events)
    BY <2>1, TailFacts
  <2> QED
    BY <1>6, <2>2 DEF Receive
<1>7. ASSUME NEW r \in Requests, ReceiveClose(r) \/ Cancel(r)
      PROVE  StreamOK'
  BY <1>7 DEF ReceiveClose, Cancel
<1>8. CASE Finishers
  BY <1>8, FinishersFinish DEF streams
<1>9. CASE AdmitTake \/ DrainClose \/ \E r \in Requests : Submit(r)
  BY <1>9 DEF AdmitTake, DrainClose, Submit, streams
<1>10. CASE UNCHANGED streams
  BY <1>10 DEF streams
<1>11. CASE Quiet /\ ~EmitText /\ ~(\E r \in Requests : Receive(r) \/ ReceiveClose(r) \/ Cancel(r))
  <2>1. UNCHANGED streams
    BY <1>11
    DEF Quiet, Top, AdmitEnd, TickOrIdle, IdleWake, IdleStop, StageNext, SkipNext, StagePrompt,
        SkipPrompt, Pass1End, Pass2End, DecodeOk, DecodeFail, HarvestVerify, SampleToken,
        JudgeAccept, HarvestEnd, Exit, Stop, Terminated, Signal, vars
  <2> QED
    BY <1>10, <2>1
<1>12. CASE UNCHANGED vars
  BY <1>10, <1>12 DEF vars
<1> QED
  BY <1>2, <1>3, <1>4, <1>5, <1>6, <1>7, <1>8, <1>9, <1>11, <1>12, NextCases

\* The slot of the sequence harvest verifies, and what it may give back.
LEMMA CurSlot ==
  ASSUME Inv, pc \in {"verify", "emit", "judge"}
  PROVE  /\ cur \in Occupied /\ active[cur] \in Requests
         /\ staged[active[cur]] \in Nat /\ pos[active[cur]] \in Nat
         /\ generated[active[cur]] \in Nat
         /\ staged[active[cur]] <= pos[active[cur]]
         /\ pc = "verify" => staged[active[cur]] > 0
BY DEF Inv, Control, Place, Batch, Counters, TypeOK, RunOK, SlotOK, Occupied

\* Every use of Settle gives back at most what was staged.
LEMMA Settlers ==
  ASSUME Inv, SampleEOS \/ JudgeStop \/ JudgeLimit \/ JudgeDone
  PROVE  /\ pc \in {"verify", "judge"}
         /\ UNCHANGED <<shared, stopped, todo, room, cur, flush, primed, generated, streams>>
         /\ \E left \in 0 .. staged[active[cur]], reason \in {"stop", "length", "none"} :
              /\ Settle(left, reason)
              /\ left < staged[active[cur]] => pc = "verify" /\ reason = "stop"
              /\ reason = "length" => LimitReached(active[cur])
              /\ reason = "none" => ~LimitReached(active[cur]) /\ pc = "judge"
<1>1. CASE SampleEOS
  <2>1. staged[active[cur]] - 1 \in 0 .. staged[active[cur]]
    BY <1>1, CurSlot DEF SampleEOS
  <2> QED
    BY <1>1, <2>1 DEF SampleEOS
<1>2. CASE JudgeStop \/ JudgeLimit \/ JudgeDone
  <2>1. staged[active[cur]] \in 0 .. staged[active[cur]]
    BY <1>2, CurSlot DEF JudgeStop, JudgeLimit, JudgeDone
  <2> QED
    BY <1>2, <2>1 DEF JudgeStop, JudgeLimit, JudgeDone
<1> QED
  BY <1>1, <1>2

\* (the sizes are numbers)
LEMMA NatConstants ==
  /\ NSeqMax \in Nat \ {0} /\ OutCap \in Nat \ {0} /\ BatchCap \in Nat \ {0}
  /\ MaxQueue \in Nat /\ NCtxSeq \in Nat /\ NCtx \in Nat /\ AdmitCtx \in Nat
  /\ OutputReserve \in Nat /\ MaxDraft \in Nat
  /\ \A r \in Requests : PromptLen[r] \in Nat /\ MaxTokens[r] \in Nat
BY ConstantsAssumption

\* What a running stream stages: n entries of the room left in the batch.
LEMMA StageNextFacts ==
  ASSUME Inv, NEW q \in Seqs, StageNext(q)
  PROVE  \E r \in Requests, n \in 1 .. room :
           /\ q \in Occupied /\ q \in todo /\ r = active[q] /\ pc = "pass1"
           /\ primed[r] /\ ~cancelled[r]
           /\ n <= 1 + MaxDraft
           /\ pos' = [pos EXCEPT ![r] = pos[r] + n]
           /\ staged' = [staged EXCEPT ![r] = n]
           /\ room' = room - n
<1>1. /\ q \in Occupied /\ q \in todo /\ active[q] \in Requests /\ pc = "pass1"
      /\ room \in Nat /\ room > 0
  <2>1. pc = "pass1" /\ q \in todo /\ room > 0
    BY DEF StageNext
  <2>2. todo \subseteq Occupied /\ room \in 0 .. BatchCap
    BY <2>1 DEF Inv, Control, Place, Batch, TypeOK, RunOK
  <2>3. active[q] \in Requests \cup {None}
    BY DEF Inv, TypeOK, RunOK
  <2> QED
    BY <2>1, <2>2, <2>3, NatConstants DEF Occupied
<1> PICK r \in Requests : r = active[q]
  BY <1>1
<1>2. primed[r] /\ ~cancelled[r]
  BY DEF StageNext
<1>3. PICK drafts \in 0 .. (IF drafting THEN Smaller(MaxDraft, room - 1) ELSE 0) :
        /\ staged' = [staged EXCEPT ![r] = 1 + drafts]
        /\ pos' = [pos EXCEPT ![r] = @ + 1 + drafts]
        /\ room' = room - 1 - drafts
  BY DEF StageNext
<1>4. drafts \in Nat /\ drafts <= room - 1 /\ drafts <= MaxDraft
  BY <1>1, NatConstants DEF Smaller
<1>5. pos[r] \in Nat
  BY DEF Inv, TypeOK, SlotOK
<1>6. /\ 1 + drafts \in 1 .. room /\ pos[r] + 1 + drafts = pos[r] + (1 + drafts)
      /\ room - 1 - drafts = room - (1 + drafts) /\ 1 + drafts <= 1 + MaxDraft
  BY <1>1, <1>4, <1>5, NatConstants
<1> QED
  BY <1>1, <1>2, <1>3, <1>6

\* What a prompt stages, to its end or to the end of the batch.
LEMMA StagePromptFacts ==
  ASSUME Inv, NEW q \in Seqs, StagePrompt(q)
  PROVE  \E r \in Requests, n \in 0 .. room :
           /\ q \in Occupied /\ q \in todo /\ r = active[q] /\ pc = "pass2"
           /\ ~primed[r] /\ ~cancelled[r]
           /\ pos[r] + n <= PromptLen[r]
           /\ pos' = [pos EXCEPT ![r] = pos[r] + n]
           /\ room' = room - n
           /\ \/ /\ pos[r] + n = PromptLen[r]
                 /\ primed' = [primed EXCEPT ![r] = TRUE]
                 /\ staged' = [staged EXCEPT ![r] = 1]
              \/ /\ pos[r] + n < PromptLen[r]
                 /\ n = room
                 /\ UNCHANGED <<primed, staged>>
<1>1. /\ q \in Occupied /\ q \in todo /\ active[q] \in Requests /\ pc = "pass2"
      /\ room \in Nat
  <2>1. pc = "pass2" /\ q \in todo
    BY DEF StagePrompt
  <2>2. todo \subseteq Occupied /\ room \in 0 .. BatchCap
    BY <2>1 DEF Inv, Control, Place, Batch, TypeOK, RunOK
  <2>3. active[q] \in Requests \cup {None}
    BY DEF Inv, TypeOK, RunOK
  <2> QED
    BY <2>1, <2>2, <2>3, NatConstants DEF Occupied
<1> PICK r \in Requests : r = active[q]
  BY <1>1
<1>2. ~primed[r] /\ ~cancelled[r]
  BY DEF StagePrompt
<1>3. pos[r] \in Nat /\ PromptLen[r] \in Nat /\ pos[r] <= PromptLen[r]
  BY <1>2, NatConstants DEF Inv, TypeOK, SlotOK, Counters
<1> DEFINE n == Smaller(Pending(r), room)
<1>4. /\ pos' = [pos EXCEPT ![r] = @ + n] /\ room' = room - n
      /\ IF n = Pending(r)
         THEN /\ primed' = [primed EXCEPT ![r] = TRUE]
              /\ staged' = [staged EXCEPT ![r] = 1]
         ELSE UNCHANGED <<primed, staged>>
  BY DEF StagePrompt
<1>5. /\ n \in 0 .. room /\ pos[r] + n <= PromptLen[r]
      /\ n = Pending(r) => pos[r] + n = PromptLen[r]
      /\ n # Pending(r) => pos[r] + n < PromptLen[r] /\ n = room
  BY <1>1, <1>3 DEF Smaller, Pending
<1> HIDE DEF n
<1> QED
  BY <1>1, <1>2, <1>4, <1>5

\* What the end of a verification leaves of a slot.
LEMMA SettleFacts ==
  ASSUME Inv, NEW left \in Int, NEW reason, Settle(left, reason),
         pc \in {"verify", "judge"}, left \in 0 .. staged[active[cur]]
  PROVE  \E r \in Requests :
           /\ r = active[cur] /\ cur \in Occupied
           /\ pos' = [pos EXCEPT ![r] = pos[r] - left]
           /\ pos[r] - left \in Nat
           /\ staged' = [staged EXCEPT ![r] = 0]
           /\ drafting' \in BOOLEAN
<1> PICK r \in Requests : r = active[cur] /\ cur \in Occupied
  BY CurSlot
<1>1. left \in 0 .. staged[r] /\ staged[r] \in Nat /\ pos[r] \in Nat /\ staged[r] <= pos[r]
  BY CurSlot
<1>2. /\ pos' = [pos EXCEPT ![r] = @ - left]
      /\ staged' = [staged EXCEPT ![r] = 0]
  BY DEF Settle
<1>3. drafting' \in BOOLEAN
  <2>1. drafting' = FALSE \/ drafting' = drafting
    BY DEF Settle
  <2>2. drafting \in BOOLEAN
    BY DEF Inv, TypeOK, RunOK
  <2> QED
    BY <2>1, <2>2
<1>4. pos[r] - left \in Nat
  BY <1>1
<1> QED
  BY <1>2, <1>3, <1>4

\* the counters of a slot,
LEMMA SlotStep ==
  ASSUME Inv, [Next]_vars
  PROVE  SlotOK'
<1>0. /\ pos \in [Requests -> Nat] /\ primed \in [Requests -> BOOLEAN]
      /\ generated \in [Requests -> Nat] /\ staged \in [Requests -> Nat]
  BY DEF Inv, TypeOK, SlotOK
<1>1. ASSUME NEW q \in Seqs, StageNext(q)
      PROVE  SlotOK'
  <2>1. PICK r \in Requests, n \in Nat : /\ pos' = [pos EXCEPT ![r] = pos[r] + n]
                                         /\ staged' = [staged EXCEPT ![r] = n]
    BY <1>1, StageNextFacts
  <2>2. UNCHANGED <<primed, generated>>
    BY <1>1 DEF StageNext
  <2> QED
    BY <1>0, <2>1, <2>2 DEF SlotOK
<1>2. ASSUME NEW q \in Seqs, StagePrompt(q)
      PROVE  SlotOK'
  <2>1. PICK r \in Requests, n \in Nat :
          /\ pos' = [pos EXCEPT ![r] = pos[r] + n]
          /\ \/ /\ primed' = [primed EXCEPT ![r] = TRUE]
                /\ staged' = [staged EXCEPT ![r] = 1]
             \/ UNCHANGED <<primed, staged>>
    BY <1>2, StagePromptFacts
  <2>2. UNCHANGED generated
    BY <1>2 DEF StagePrompt
  <2>3. pos' \in [Requests -> Nat] /\ staged' \in [Requests -> Nat]
    BY <1>0, <2>1
  <2>4. primed' \in [Requests -> BOOLEAN]
    BY <1>0, <2>1
  <2> QED
    BY <1>0, <2>2, <2>3, <2>4 DEF SlotOK
<1>3. CASE SampleEOS \/ JudgeStop \/ JudgeLimit \/ JudgeDone
  <2>1. PICK r \in Requests, n \in Nat : /\ pos' = [pos EXCEPT ![r] = n]
                                         /\ staged' = [staged EXCEPT ![r] = 0]
    BY <1>3, Settlers, SettleFacts
  <2> QED
    BY <1>0, <1>3, <2>1, Settlers DEF SlotOK
<1>4. CASE SampleToken
  <2> PICK r \in Requests : r = active[cur] /\ staged[r] > 0
    BY <1>4, CurSlot DEF SampleToken
  <2>1. generated[r] + 1 \in Nat /\ staged[r] - 1 \in Nat
    BY <1>0
  <2> QED
    BY <1>0, <1>4, <2>1 DEF SampleToken, SlotOK
<1>5. CASE FinishEnd \/ TickOrIdle
  <2>1. /\ pos' \in [Requests -> Nat] /\ staged' \in [Requests -> Nat]
        /\ generated' \in [Requests -> Nat]
    <3>1. CASE FinishEnd
      BY <1>0, <3>1 DEF FinishEnd
    <3>2. CASE TickOrIdle
      BY <1>0, <3>2 DEF TickOrIdle
    <3> QED
      BY <1>5, <3>1, <3>2
  <2>2. primed' = primed \/ primed' = [primed EXCEPT ![fin.req] = FALSE]
    <3>1. CASE FinishEnd
      BY <3>1 DEF FinishEnd
    <3>2. CASE TickOrIdle
      BY <3>2 DEF TickOrIdle
    <3> QED
      BY <1>5, <3>1, <3>2
  <2>3. primed' \in [Requests -> BOOLEAN]
    BY <1>0, <2>2
  <2> QED
    BY <2>1, <2>3 DEF SlotOK
<1>6. CASE UNCHANGED slotVars
  BY <1>0, <1>6 DEF slotVars, SlotOK
<1>7. CASE SampleFail \/ \E q \in Seqs : \/ DecodeNoKV(q) \/ HarvestCancelled(q)
                                         \/ HarvestSampling(q) \/ DrainActive(q)
  <2>1. UNCHANGED slotVars
    BY <1>7 DEF DecodeNoKV, HarvestCancelled, HarvestSampling, DrainActive, SampleFail
  <2> QED
    BY <1>6, <2>1
<1>8. CASE AdmitDrop \/ AdmitTake \/ DrainClose \/ FlushOne \/ \E r \in Requests : Submit(r)
  BY <1>6, <1>8 DEF AdmitDrop, AdmitTake, DrainClose, FlushOne, Submit
<1>9. CASE Quiet /\ ~TickOrIdle /\ ~SampleToken /\ ~(\E q \in Seqs : StageNext(q) \/ StagePrompt(q))
  <2>1. UNCHANGED slotVars
    BY <1>9
    DEF Quiet, Top, AdmitEnd, IdleWake, IdleStop, SkipNext, SkipPrompt, Pass1End, Pass2End, DecodeOk,
        DecodeFail, HarvestVerify, EmitText, JudgeAccept, HarvestEnd, Exit, Stop, Terminated,
        Signal, Cancel, Receive, ReceiveClose, vars
  <2> QED
    BY <1>6, <2>1
<1>10. CASE Finishers
  BY <1>3, <1>7, <1>10 DEF Finishers
<1>11. CASE UNCHANGED vars
  BY <1>6, <1>11 DEF vars
<1> QED
  BY <1>1, <1>2, <1>4, <1>5, <1>8, <1>9, <1>10, <1>11, NextCases

\* The variables Run keeps for itself, one part at a time.
LEMMA PcStep ==
  ASSUME Inv, [Next]_vars
  PROVE  stopped' \in BOOLEAN /\ pc' \in PCs
<1>1. stopped \in BOOLEAN /\ pc \in PCs /\ (pc = "finish" => fin.ret \in PCs)
  BY DEF Inv, TypeOK, RunOK, Control, Place, Batch, PCs
<1>2. stopped' \in BOOLEAN
  <2>1. stopped' = TRUE \/ stopped' = stopped
    <3>1. CASE Finishers
      BY <3>1, Settlers
      DEF Finishers, DecodeNoKV, HarvestCancelled, HarvestSampling, DrainActive, SampleFail
    <3> QED
      BY <3>1, NextCases
      DEF Quiet, Top, AdmitEnd, TickOrIdle, IdleWake, IdleStop, StageNext, SkipNext, StagePrompt,
          SkipPrompt, Pass1End, Pass2End, DecodeOk, DecodeFail, HarvestVerify, SampleToken,
          EmitText, JudgeAccept, HarvestEnd, Exit, Stop, Terminated, Signal, Cancel,
          Receive, ReceiveClose, vars, runVars, AdmitDrop, AdmitTake, FinishEnd,
          DrainClose, FlushOne, Submit
  <2> QED
    BY <1>1, <2>1
<1>3. pc' \in PCs
  <2>1. CASE Finishers
    BY <1>1, <2>1, FinishersFinish DEF Finish, Goto, PCs
  <2> QED
    BY <1>1, <2>1, NextCases
    DEF Quiet, Top, AdmitEnd, TickOrIdle, IdleWake, IdleStop, StageNext, SkipNext, StagePrompt,
        SkipPrompt, Pass1End, Pass2End, DecodeOk, DecodeFail, HarvestVerify, SampleToken,
        EmitText, JudgeAccept, HarvestEnd, Exit, Stop, Terminated, Signal, Cancel,
        Receive, ReceiveClose, vars, runVars, AdmitDrop, AdmitTake, FinishEnd,
        DrainClose, FlushOne, Submit, Goto, PCs
<1> QED
  BY <1>2, <1>3

\* what holds the sequences,
LEMMA ActiveStep ==
  ASSUME Inv, [Next]_vars
  PROVE  /\ active' \in [Seqs -> Requests \cup {None}]
         /\ flush' \in Seq(Requests)
         /\ fin' \in FinRecords
<1>1. /\ active \in [Seqs -> Requests \cup {None}]
      /\ flush \in Seq(Requests) /\ queue \in Seq(Requests) /\ free \in Seq(Seqs)
      /\ fin \in FinRecords
  BY DEF Inv, TypeOK, RunOK, SharedOK
<1>2. NoFin \in FinRecords
  BY NatConstants DEF NoFin, Seqs, FinRecords
<1>3. CASE Finishers
  <2>1. UNCHANGED flush
    BY <1>3, FinishersFinish
  <2>2. ASSUME NEW q \in Occupied, NEW reason \in Reasons,
               NEW ret \in {"top", "harvest", "drain"}, Finish(q, reason, ret)
        PROVE  active' \in [Seqs -> Requests \cup {None}] /\ fin' \in FinRecords
    <3>1. active[q] \in Requests /\ q \in Seqs
      BY <1>1, <2>2 DEF Occupied
    <3> QED
      BY <1>1, <2>2, <3>1 DEF Finish, FinRecords
  <2> QED
    BY <1>1, <1>3, <2>1, <2>2, FinishersFinish
<1>4. CASE AdmitTake
  BY <1>1, <1>4, TailFacts DEF AdmitTake
<1>5. CASE FinishEnd
  BY <1>1, <1>2, <1>5 DEF FinishEnd
<1>6. CASE DrainClose
  BY <1>1, <1>6 DEF DrainClose
<1>7. CASE FlushOne
  BY <1>1, <1>7, TailFacts DEF FlushOne
<1>8. CASE Quiet \/ AdmitDrop \/ (\E r \in Requests : Submit(r)) \/ UNCHANGED vars
  <2>1. UNCHANGED <<active, fin, flush>>
    BY <1>8
    DEF Quiet, Top, AdmitEnd, TickOrIdle, IdleWake, IdleStop, StageNext, SkipNext, StagePrompt,
        SkipPrompt, Pass1End, Pass2End, DecodeOk, DecodeFail, HarvestVerify, SampleToken,
        EmitText, JudgeAccept, HarvestEnd, Exit, Stop, Terminated, Signal, Cancel,
        Receive, ReceiveClose, vars, runVars, AdmitDrop, Submit
  <2> QED
    BY <1>1, <2>1
<1> QED
  BY <1>3, <1>4, <1>5, <1>6, <1>7, <1>8, NextCases

\* and the room in the batch,
LEMMA RoomStep ==
  ASSUME Inv, [Next]_vars
  PROVE  todo' \subseteq Seqs /\ room' \in 0 .. BatchCap /\ cur' \in Seqs /\ drafting' \in BOOLEAN
<1>1. /\ todo \subseteq Seqs /\ room \in 0 .. BatchCap /\ cur \in Seqs /\ drafting \in BOOLEAN
      /\ Occupied \subseteq Seqs /\ BatchCap \in Nat /\ 0 \in Seqs
  <2>1. todo \subseteq Seqs /\ room \in 0 .. BatchCap /\ cur \in Seqs /\ drafting \in BOOLEAN
    BY DEF Inv, TypeOK, RunOK
  <2> QED
    BY <2>1, NatConstants DEF Occupied, Seqs
<1>2. CASE Finishers
  <2>1. todo' \subseteq todo /\ room' = room /\ cur' = cur
    BY <1>2, Settlers
    DEF Finishers, DecodeNoKV, HarvestCancelled, HarvestSampling, DrainActive, SampleFail
  <2>2. drafting' \in BOOLEAN
    <3>1. CASE UNCHANGED drafting
      BY <1>1, <3>1
    <3>2. CASE SampleEOS \/ JudgeStop \/ JudgeLimit \/ JudgeDone
      BY <3>2, Settlers, SettleFacts
    <3> QED
      BY <1>2, <3>1, <3>2
      DEF Finishers, DecodeNoKV, HarvestCancelled, HarvestSampling, DrainActive, SampleFail
  <2> QED
    BY <1>1, <2>1, <2>2
<1>3. ASSUME NEW q \in Seqs, StageNext(q) \/ StagePrompt(q)
      PROVE  todo' \subseteq Seqs /\ room' \in 0 .. BatchCap /\ UNCHANGED <<cur, drafting>>
  <2>1. UNCHANGED <<cur, drafting>> /\ todo' = todo \ {q}
    BY <1>3 DEF StageNext, StagePrompt
  <2>2. \E n \in 0 .. room : room' = room - n
    BY <1>1, <1>3, StageNextFacts, StagePromptFacts
  <2> QED
    BY <1>1, <2>1, <2>2
<1>4. CASE \/ AdmitDrop \/ AdmitTake \/ FinishEnd \/ DrainClose \/ FlushOne
           \/ (\E r \in Requests : Submit(r)) \/ UNCHANGED vars
  <2>1. UNCHANGED <<todo, room, cur, drafting>>
    BY <1>4
    DEF AdmitDrop, AdmitTake, FinishEnd, DrainClose, FlushOne, Submit, vars, runVars
  <2> QED
    BY <1>1, <2>1
<1>5. CASE Quiet /\ ~(\E q \in Seqs : StageNext(q) \/ StagePrompt(q))
  <2>1. /\ todo' \subseteq todo \/ todo' \subseteq Occupied
        /\ room' = room \/ room' = BatchCap \/ room' = 0
        /\ cur' = cur \/ cur' = 0 \/ cur' \in todo
        /\ drafting' = drafting
    BY <1>1, <1>5
    DEF Quiet, Top, AdmitEnd, TickOrIdle, IdleWake, IdleStop, SkipNext, SkipPrompt, Pass1End, Pass2End,
        DecodeOk, DecodeFail, HarvestVerify, SampleToken, EmitText, JudgeAccept, HarvestEnd,
        Exit, Stop, Terminated, Signal, Cancel, Receive, ReceiveClose, vars, runVars
  <2> QED
    BY <1>1, <2>1
<1> QED
  BY <1>1, <1>2, <1>3, <1>4, <1>5, NextCases

\* so every step keeps TypeOK.
LEMMA TypeStep ==
  ASSUME Inv, [Next]_vars
  PROVE  TypeOK'
BY SharedStep, PcStep, ActiveStep, RoomStep, SlotStep, StreamStep DEF TypeOK, RunOK

---------------------------------------------------------------------------
(* The rest of the invariant.                                               *)

\* Where Run is agrees with what it holds.
LEMMA PlaceStep ==
  ASSUME Inv, [Next]_vars
  PROVE  Place'
<1> USE DEF Place
<1>1. Place
  BY DEF Inv, Control
<1>2. CASE Finishers
  <2>1. /\ pc \notin {"finish", "flush", "exit", "idle", "top", "admit", "unlocked"}
        /\ UNCHANGED <<closed, flush>>
    BY <1>2, FinishersFinish DEF shared
  <2>2. ASSUME NEW q \in Occupied, NEW reason \in Reasons,
               NEW ret \in {"top", "harvest", "drain"}, Finish(q, reason, ret)
        PROVE  /\ pc' = "finish" /\ fin'.req \in Requests
               /\ fin'.ret \in {"top", "harvest", "drain"}
               /\ fin'.reason \in Reasons
    <3>1. active[q] \in Requests
      BY DEF Inv, TypeOK, RunOK, Occupied
    <3> QED
      BY <2>2, <3>1 DEF Finish, Goto
  <2>3. CASE UNCHANGED <<active, fin>> /\ pc' = "harvest"
    BY <1>1, <2>1, <2>3
  <2>4. CASE \E q \in Occupied, reason \in Reasons, ret \in {"top", "harvest", "drain"} :
               Finish(q, reason, ret)
    BY <1>1, <2>1, <2>2, <2>4
  <2> QED
    BY <1>2, <2>3, <2>4, FinishersFinish
<1>3. CASE FinishEnd
  BY <1>1, <1>3 DEF FinishEnd, Goto
<1>4. CASE DrainClose
  BY <1>1, <1>4 DEF DrainClose, Goto, Occupied
<1>5. CASE FlushOne
  BY <1>1, <1>5 DEF FlushOne, shared, Occupied
<1>6. CASE AdmitDrop \/ AdmitTake
  BY <1>1, <1>6 DEF AdmitDrop, AdmitTake, runVars
<1>7. CASE \E r \in Requests : Submit(r)
  BY <1>1, <1>7 DEF Submit, runVars, Occupied
<1>8. CASE Quiet \/ UNCHANGED vars
  <2>1. UNCHANGED <<closed, active, fin, flush>> /\ Occupied' = Occupied
    BY <1>8, QuietFrame DEF Occupied
  <2>2. /\ pc' = "finish" <=> pc = "finish"
        /\ pc' \in {"flush", "exit"} <=> pc \in {"flush", "exit"}
        /\ pc' = "flush" => pc = "flush"
        /\ pc' # "flush" /\ pc = "flush" => flush = <<>>
        /\ pc' = "idle" => pc = "idle" \/ Occupied = {}
    BY <1>8
    DEF Quiet, Top, AdmitEnd, TickOrIdle, IdleWake, IdleStop, StageNext, SkipNext, StagePrompt,
        SkipPrompt, Pass1End, Pass2End, DecodeOk, DecodeFail, HarvestVerify, SampleToken,
        EmitText, JudgeAccept, HarvestEnd, Exit, Stop, Terminated, Signal, Cancel,
        Receive, ReceiveClose, vars, runVars, Goto
  <2> QED
    BY <1>1, <2>1, <2>2
<1> QED
  BY <1>2, <1>3, <1>4, <1>5, <1>6, <1>7, <1>8, NextCases

\* What is left of a loop over active is still active, and staged where it must be.
LEMMA BatchStep ==
  ASSUME Inv, [Next]_vars
  PROVE  Batch'
<1>1. Batch
  BY DEF Inv, Control
<1>2. /\ \A p, q \in Occupied : active[p] = active[q] => p = q
      /\ \A q \in Occupied : active[q] \in Requests /\ active[q] # fin.req
      /\ Occupied \subseteq Seqs /\ active \in [Seqs -> Requests \cup {None}]
      /\ staged \in [Requests -> Nat]
  <2>1. \A q \in Occupied : active[q] \in Requests /\ q \in Seqs
    BY DEF Inv, TypeOK, RunOK, Occupied
  <2>2. \A q \in Occupied : active[q] # fin.req
    BY <2>1 DEF Inv, OneOwner, Running, Finishing
  <2> QED
    BY <2>1, <2>2 DEF Inv, OneOwner, TypeOK, RunOK, SlotOK
<1>3. ASSUME NEW q \in Seqs, HarvestCancelled(q) \/ HarvestSampling(q)
      PROVE  Batch'
  <2>1. /\ pc = "harvest" /\ q \in todo /\ todo' = todo \ {q} /\ UNCHANGED staged
        /\ pc' = "finish" /\ active' = [active EXCEPT ![q] = None]
    BY <1>3 DEF HarvestCancelled, HarvestSampling, Finish, Goto, slotVars
  <2>2. \A p \in Seqs : active'[p] = IF p = q THEN None ELSE active[p]
    BY <1>2, <2>1
  <2> QED
    BY <1>1, <1>2, <2>1, <2>2 DEF Batch, Harvesting, Occupied
<1>4. ASSUME NEW q \in Seqs, DecodeNoKV(q) \/ DrainActive(q)
      PROVE  Batch'
  BY <1>4 DEF DecodeNoKV, DrainActive, Finish, Goto, Batch, Harvesting
<1>5. CASE SampleFail
  <2>1. /\ pc = "verify" /\ UNCHANGED <<todo, staged>>
        /\ pc' = "finish" /\ active' = [active EXCEPT ![cur] = None]
    BY <1>5 DEF SampleFail, Finish, Goto, slotVars
  <2>2. \A p \in Seqs : active'[p] = IF p = cur THEN None ELSE active[p]
    BY <1>2, <2>1
  <2> QED
    BY <1>1, <1>2, <2>1, <2>2 DEF Batch, Harvesting, Occupied
<1>6. CASE SampleEOS \/ JudgeStop \/ JudgeLimit \/ JudgeDone
  <2>1. /\ pc \in {"verify", "judge"} /\ UNCHANGED todo /\ cur \in Occupied /\ cur \notin todo
        /\ staged' = [staged EXCEPT ![active[cur]] = 0]
        /\ pc' \in {"harvest", "finish"}
        /\ active' = active \/ active' = [active EXCEPT ![cur] = None]
    BY <1>1, <1>6, Settlers DEF Settle, Finish, Goto, Batch
  <2>2. /\ \A p \in Seqs : active'[p] = active[p] \/ p = cur
        /\ \A p \in todo : staged'[active[p]] = staged[active[p]]
    BY <1>1, <1>2, <2>1 DEF Batch, Harvesting
  <2> QED
    BY <1>1, <1>2, <2>1, <2>2 DEF Batch, Harvesting, Occupied
<1>7. CASE FinishEnd
  <2>1. /\ pc = "finish" /\ pc' = fin.ret /\ UNCHANGED <<todo, active>>
        /\ fin.ret \in {"top", "harvest", "drain"}
        /\ staged' = [staged EXCEPT ![fin.req] = 0]
    BY <1>7 DEF FinishEnd, Goto, Inv, Control, Place
  <2>2. \A p \in Occupied : staged'[active[p]] = staged[active[p]]
    BY <1>2, <2>1
  <2> QED
    BY <1>1, <2>1, <2>2 DEF Batch, Harvesting, Occupied
<1>8. CASE SampleToken
  <2>1. /\ pc = "verify" /\ pc' = "emit" /\ UNCHANGED <<todo, active, cur>>
        /\ staged' = [staged EXCEPT ![active[cur]] = @ - 1]
    BY <1>8 DEF SampleToken, Goto
  <2>2. \A p \in todo : staged'[active[p]] = staged[active[p]]
    BY <1>1, <1>2, <2>1 DEF Batch, Harvesting
  <2> QED
    BY <1>1, <2>1, <2>2 DEF Batch, Harvesting, Occupied
<1>9. CASE \/ AdmitDrop \/ AdmitTake \/ DrainClose \/ FlushOne
           \/ (\E r \in Requests : Submit(r)) \/ UNCHANGED vars
  <2>1. CASE pc' \in {"admit", "flush"}
    BY <2>1 DEF Batch, Harvesting
  <2>2. CASE UNCHANGED <<pc, fin, todo, active, cur, staged>>
    BY <1>1, <2>2 DEF Batch, Harvesting, Occupied
  <2> QED
    BY <1>9, <2>1, <2>2
    DEF AdmitDrop, AdmitTake, DrainClose, FlushOne, Submit, vars, runVars, slotVars, Goto
<1>10. ASSUME NEW q \in Seqs, StageNext(q) \/ SkipNext(q) \/ StagePrompt(q) \/ SkipPrompt(q)
       PROVE  Batch'
  <2>1. /\ pc \in {"pass1", "pass2"} /\ todo' = todo \ {q} /\ UNCHANGED <<pc, active, fin>>
    BY <1>10 DEF StageNext, SkipNext, StagePrompt, SkipPrompt
  <2> QED
    BY <1>1, <2>1 DEF Batch, Harvesting, Occupied
<1>11. CASE \E q \in Seqs : HarvestVerify(q)
  BY <1>1, <1>11 DEF HarvestVerify, Goto, slotVars, Batch, Harvesting, Occupied
<1>12. CASE TickOrIdle \/ Pass1End \/ Pass2End \/ DecodeOk
  BY <1>1, <1>12
  DEF TickOrIdle, Pass1End, Pass2End, DecodeOk, Goto, slotVars, Batch, Harvesting, Occupied
<1>13. CASE \/ Top \/ AdmitEnd \/ IdleWake \/ IdleStop \/ DecodeFail \/ HarvestEnd \/ Exit
  BY <1>13
  DEF Top, AdmitEnd, IdleWake, IdleStop, DecodeFail, HarvestEnd, Exit, Goto, Batch, Harvesting
<1>14. CASE EmitText \/ JudgeAccept
  BY <1>1, <1>14 DEF EmitText, JudgeAccept, Goto, slotVars, Batch, Harvesting, Occupied
<1>15. CASE \/ Stop \/ Terminated
            \/ \E r \in Requests : Signal(r) \/ Cancel(r) \/ Receive(r) \/ ReceiveClose(r)
  <2>1. UNCHANGED <<pc, fin, todo, active, cur, staged>>
    BY <1>15
    DEF Stop, Terminated, Signal, Cancel, Receive, ReceiveClose, vars, runVars, slotVars
  <2> QED
    BY <1>1, <2>1 DEF Batch, Harvesting, Occupied
<1>16. CASE Quiet
  BY <1>8, <1>10, <1>11, <1>12, <1>13, <1>14, <1>15, <1>16 DEF Quiet
<1>17. CASE Finishers
  BY <1>3, <1>4, <1>5, <1>6, <1>17 DEF Finishers
<1> QED
  BY <1>7, <1>9, <1>16, <1>17, NextCases

\* The requests that have a slot: they gain one in admit, lose it in finish.
Held(r) == Running(r) \/ Finishing(r)

\* A slot that calls finish is held until it is done.
LEMMA FinishHeld ==
  ASSUME Inv, pc # "finish", NEW q \in Occupied, NEW reason, NEW ret, Finish(q, reason, ret)
  PROVE  \A r \in Requests : Held(r)' <=> Held(r)
<1>1. /\ active \in [Seqs -> Requests \cup {None}] /\ q \in Seqs
      /\ active[q] \in Requests /\ None \notin Requests /\ fin = NoFin
  BY ConstantsAssumption DEF Inv, TypeOK, RunOK, Control, Place, Occupied
<1>2. /\ \A p \in Seqs : active'[p] = IF p = q THEN None ELSE active[p]
      /\ fin'.req = active[q] /\ fin.req = None
  BY <1>1 DEF Finish, NoFin
<1> QED
  BY <1>1, <1>2 DEF Held, Running, Finishing

\* What is held changes by Admit and finish alone.
LEMMA HeldStep ==
  ASSUME Inv, [Next]_vars
  PROVE  /\ ~AdmitTake /\ ~FinishEnd => \A r \in Requests : Held(r)' <=> Held(r)
         /\ AdmitTake => \A r \in Requests : Held(r)' <=> Held(r) \/ r = Head(queue)
         /\ FinishEnd => \A r \in Requests : Held(r)' <=> Held(r) /\ r # fin.req
<1>1. /\ active \in [Seqs -> Requests \cup {None}] /\ None \notin Requests
      /\ free \in Seq(Seqs) /\ queue \in Seq(Requests)
  BY ConstantsAssumption DEF Inv, TypeOK, RunOK, SharedOK
<1>2. ASSUME UNCHANGED <<active, fin>>
      PROVE  \A r \in Requests : Held(r)' <=> Held(r)
  BY <1>2 DEF Held, Running, Finishing
<1>3. ASSUME ~AdmitTake, ~FinishEnd
      PROVE  \A r \in Requests : Held(r)' <=> Held(r)
  <2>1. CASE Finishers
    BY <1>2, <2>1, FinishersFinish, FinishHeld
  <2>2. CASE AdmitDrop \/ DrainClose \/ FlushOne \/ \E r \in Requests : Submit(r)
    BY <1>2, <2>2 DEF AdmitDrop, DrainClose, FlushOne, Submit, runVars
  <2>3. CASE Quiet \/ UNCHANGED vars
    BY <1>2, <2>3, QuietFrame
  <2> QED
    BY <1>3, <2>1, <2>2, <2>3, NextCases
<1>4. ASSUME AdmitTake
      PROVE  \A r \in Requests : Held(r)' <=> Held(r) \/ r = Head(queue)
  <2>1. /\ free # <<>> /\ Head(free) \in Seqs /\ Head(free) = free[1] /\ 1 \in DOMAIN free
    BY <1>1, <1>4, TailFacts DEF AdmitTake
  <2>2. active[Head(free)] = None
    BY <2>1 DEF Inv, SequenceConserved
  <2>3. /\ active' = [active EXCEPT ![Head(free)] = Head(queue)] /\ UNCHANGED fin
    BY <1>4 DEF AdmitTake
  <2>4. \A p \in Seqs : active'[p] = IF p = Head(free) THEN Head(queue) ELSE active[p]
    BY <1>1, <2>1, <2>3
  <2> QED
    BY <1>1, <2>1, <2>2, <2>3, <2>4 DEF Held, Running, Finishing
<1>5. ASSUME FinishEnd
      PROVE  \A r \in Requests : Held(r)' <=> Held(r) /\ r # fin.req
  <2>1. /\ fin.req \in Requests /\ UNCHANGED active /\ fin'.req = None
    BY <1>5 DEF FinishEnd, NoFin, Inv, Control, Place
  <2>2. ~Running(fin.req)
    BY <2>1 DEF Inv, OneOwner, Finishing
  <2> QED
    BY <1>1, <2>1, <2>2 DEF Held, Running, Finishing
<1> QED
  BY <1>3, <1>4, <1>5

\* An accepted request is admissible, and only accepted requests have a slot.
LEMMA HeldFacts ==
  ASSUME Inv, NEW r \in Requests, Held(r)
  PROVE  /\ status[r] = "accepted" /\ ~outClosed[r] /\ ~Queued(r) /\ ~Flushing(r)
         /\ Admissible(r) /\ PromptLen[r] \in Nat \ {0}
<1>1. status[r] = "accepted" /\ ~outClosed[r] /\ ~Queued(r) /\ ~Flushing(r)
  BY DEF Inv, OneOwner, Held
<1> QED
  BY <1>1, NatConstants DEF Inv, Counters, Admissible

\* The counters of one slot.
SlotCounts(r) ==
  /\ staged[r] <= pos[r]
  /\ ~primed[r] => pos[r] <= PromptLen[r]
  /\ ~Held(r) => pos[r] = 0 /\ ~primed[r] /\ generated[r] = 0 /\ staged[r] = 0

\* The counters of a slot agree with where Run is.
LEMMA CountersStep ==
  ASSUME Inv, [Next]_vars
  PROVE  Counters'
<1>1. \A r \in Requests : /\ SlotCounts(r)
                          /\ pos[r] \in Nat /\ staged[r] \in Nat /\ generated[r] \in Nat
  BY DEF Inv, Counters, SlotCounts, Held, TypeOK, SlotOK
<1>2. /\ pos \in [Requests -> Nat] /\ staged \in [Requests -> Nat]
      /\ generated \in [Requests -> Nat] /\ primed \in [Requests -> BOOLEAN]
  BY DEF Inv, TypeOK, SlotOK
<1>3. \A r \in Requests : status'[r] = "accepted" => Admissible(r)
  <2>1. ASSUME NEW r \in Requests, Submit(r)
        PROVE  \A s \in Requests : status'[s] = "accepted" => Admissible(s)
    BY <2>1 DEF Submit, Inv, Counters, TypeOK, SharedOK, Admissible
  <2>2. CASE UNCHANGED status
    BY <2>2 DEF Inv, Counters
  <2> QED
    BY <2>1, <2>2, NextCases, QuietFrame, FinishersFinish
    DEF AdmitDrop, AdmitTake, FinishEnd, DrainClose, FlushOne, shared
<1>4. \A r \in Requests : SlotCounts(r)'
  <2>1. ASSUME NEW q \in Seqs, StageNext(q)
        PROVE  \A r \in Requests : SlotCounts(r)'
    <3>1. PICK s \in Requests, n \in Nat \ {0} :
            /\ q \in Occupied /\ s = active[q] /\ primed[s]
            /\ pos' = [pos EXCEPT ![s] = pos[s] + n]
            /\ staged' = [staged EXCEPT ![s] = n]
      BY <2>1, StageNextFacts
    <3>2. Held(s) /\ UNCHANGED <<primed, generated>>
      BY <2>1, <3>1 DEF StageNext, Held, Running, Occupied
    <3>3. \A r \in Requests : Held(r)' <=> Held(r)
      BY <2>1, HeldStep DEF StageNext, AdmitTake, FinishEnd
    <3> QED
      BY <1>1, <1>2, <3>1, <3>2, <3>3 DEF SlotCounts
  <2>2. ASSUME NEW q \in Seqs, StagePrompt(q)
        PROVE  \A r \in Requests : SlotCounts(r)'
    <3>1. PICK s \in Requests, n \in Nat :
            /\ q \in Occupied /\ s = active[q]
            /\ pos[s] + n <= PromptLen[s]
            /\ pos' = [pos EXCEPT ![s] = pos[s] + n]
            /\ \/ /\ pos[s] + n = PromptLen[s]
                  /\ primed' = [primed EXCEPT ![s] = TRUE]
                  /\ staged' = [staged EXCEPT ![s] = 1]
               \/ UNCHANGED <<primed, staged>>
      BY <2>2, StagePromptFacts
    <3>2. Held(s) /\ UNCHANGED generated
      BY <2>2, <3>1 DEF StagePrompt, Held, Running, Occupied
    <3>3. \A r \in Requests : Held(r)' <=> Held(r)
      BY <2>2, HeldStep DEF StagePrompt, AdmitTake, FinishEnd
    <3>4. PromptLen[s] \in Nat \ {0}
      BY <3>2, HeldFacts
    <3> QED
      BY <1>1, <1>2, <3>1, <3>2, <3>3, <3>4 DEF SlotCounts
  <2>3. CASE SampleEOS \/ JudgeStop \/ JudgeLimit \/ JudgeDone
    <3>1. PICK s \in Requests, n \in Nat :
            /\ cur \in Occupied /\ s = active[cur] /\ n <= pos[s]
            /\ pos' = [pos EXCEPT ![s] = n]
            /\ staged' = [staged EXCEPT ![s] = 0]
      BY <2>3, Settlers, SettleFacts, CurSlot
    <3>2. Held(s) /\ UNCHANGED <<primed, generated>>
      BY <2>3, <3>1, Settlers DEF Held, Running, Occupied
    <3>3. \A r \in Requests : Held(r)' <=> Held(r)
      BY <2>3, HeldStep, Settlers DEF AdmitTake, FinishEnd
    <3> QED
      BY <1>1, <1>2, <3>1, <3>2, <3>3, NatConstants DEF SlotCounts
  <2>4. CASE SampleToken
    <3>1. PICK s \in Requests : s = active[cur] /\ cur \in Occupied /\ staged[s] > 0
      BY <2>4, CurSlot DEF SampleToken
    <3>2. /\ generated' = [generated EXCEPT ![s] = @ + 1]
          /\ staged' = [staged EXCEPT ![s] = @ - 1]
          /\ UNCHANGED <<pos, primed>> /\ Held(s)
      BY <2>4, <3>1 DEF SampleToken, Held, Running, Occupied
    <3>3. \A r \in Requests : Held(r)' <=> Held(r)
      BY <2>4, HeldStep DEF SampleToken, AdmitTake, FinishEnd
    <3> QED
      BY <1>1, <1>2, <3>1, <3>2, <3>3 DEF SlotCounts
  <2>5. CASE FinishEnd
    <3>1. /\ fin.req \in Requests
          /\ pos' = [pos EXCEPT ![fin.req] = 0] /\ primed' = [primed EXCEPT ![fin.req] = FALSE]
          /\ generated' = [generated EXCEPT ![fin.req] = 0]
          /\ staged' = [staged EXCEPT ![fin.req] = 0]
      BY <2>5 DEF FinishEnd, Inv, Control, Place
    <3>2. \A r \in Requests : Held(r)' <=> Held(r) /\ r # fin.req
      BY <2>5, HeldStep
    <3>3. PromptLen[fin.req] \in Nat
      BY <3>1, NatConstants
    <3> QED
      BY <1>1, <1>2, <3>1, <3>2, <3>3 DEF SlotCounts
  <2>6. CASE TickOrIdle
    <3>1. UNCHANGED <<pos, primed, generated>> /\ \A r \in Requests : staged'[r] \in {0, staged[r]}
      BY <2>6 DEF TickOrIdle
    <3>2. \A r \in Requests : Held(r)' <=> Held(r)
      BY <2>6, HeldStep DEF TickOrIdle, AdmitTake, FinishEnd
    <3> QED
      BY <1>1, <3>1, <3>2 DEF SlotCounts
  <2>7. CASE UNCHANGED slotVars /\ ~FinishEnd
    <3>1. \A r \in Requests : Held(r) => Held(r)'
      BY <2>7, HeldStep
    <3> QED
      BY <1>1, <2>7, <3>1 DEF SlotCounts, slotVars
  <2>8. CASE SampleFail \/ \E q \in Seqs : \/ DecodeNoKV(q) \/ HarvestCancelled(q)
                                           \/ HarvestSampling(q) \/ DrainActive(q)
    BY <2>7, <2>8
    DEF DecodeNoKV, HarvestCancelled, HarvestSampling, DrainActive, SampleFail, FinishEnd
  <2>9. CASE \/ AdmitDrop \/ AdmitTake \/ DrainClose \/ FlushOne
             \/ \E r \in Requests : Submit(r)
    <3>1. UNCHANGED slotVars
      BY <2>9 DEF AdmitDrop, AdmitTake, DrainClose, FlushOne, Submit
    <3>2. ~FinishEnd \/ \E r \in Requests : Submit(r)
      BY <2>9 DEF AdmitDrop, AdmitTake, DrainClose, FlushOne, FinishEnd
    <3>3. ASSUME NEW r \in Requests, Submit(r)
          PROVE  \A s \in Requests : Held(s) => Held(s)'
      BY <3>3 DEF Submit, runVars, Held, Running, Finishing
    <3> QED
      BY <1>1, <2>7, <2>9, <3>1, <3>2, <3>3 DEF SlotCounts, slotVars
  <2>10. CASE Quiet /\ ~TickOrIdle /\ ~SampleToken /\ ~ \E q \in Seqs : StageNext(q) \/ StagePrompt(q)
    <3>1. UNCHANGED slotVars
      BY <2>10
      DEF Quiet, Top, AdmitEnd, IdleWake, IdleStop, SkipNext, SkipPrompt, Pass1End, Pass2End, DecodeOk,
          DecodeFail, HarvestVerify, EmitText, JudgeAccept, HarvestEnd, Exit, Stop, Terminated,
          Signal, Cancel, Receive, ReceiveClose, vars
    <3>2. UNCHANGED <<active, fin>>
      BY <2>10, QuietFrame
    <3> QED
      BY <1>1, <3>1, <3>2 DEF SlotCounts, slotVars, Held, Running, Finishing
  <2>11. CASE UNCHANGED vars
    BY <1>1, <2>11 DEF vars, runVars, SlotCounts, slotVars, Held, Running, Finishing
  <2> QED
    BY <2>1, <2>2, <2>3, <2>4, <2>5, <2>6, <2>8, <2>9, <2>10, <2>11, NextCases DEF Finishers
<1> QED
  BY <1>3, <1>4 DEF Counters, SlotCounts, Held, Admissible, PromptBudget

\* Nothing else counts generated tokens.
LEMMA GeneratedFrame ==
  ASSUME [Next]_vars, ~SampleToken, ~FinishEnd
  PROVE  UNCHANGED generated
<1>1. CASE Finishers
  BY <1>1
  DEF Finishers, DecodeNoKV, HarvestCancelled, HarvestSampling, DrainActive, SampleFail,
      SampleEOS, JudgeStop, JudgeLimit, JudgeDone, slotVars
<1>2. CASE Quiet
  BY <1>2
  DEF Quiet, Top, AdmitEnd, TickOrIdle, IdleWake, IdleStop, StageNext, SkipNext, StagePrompt, SkipPrompt,
      Pass1End, Pass2End, DecodeOk, DecodeFail, HarvestVerify, EmitText, JudgeAccept,
      HarvestEnd, Exit, Stop, Terminated, Signal, Cancel, Receive, ReceiveClose, vars, slotVars
<1> QED
  BY <1>1, <1>2, NextCases
  DEF AdmitDrop, AdmitTake, DrainClose, FlushOne, Submit, vars, slotVars

\* A sampled token is counted once.
LEMMA SampleTokenFacts ==
  ASSUME Inv, SampleToken
  PROVE  \E r \in Requests :
           /\ cur \in Occupied /\ r = active[cur] /\ pc = "verify" /\ pc' = "emit"
           /\ \A s \in Requests : generated'[s] = IF s = r THEN generated[s] + 1 ELSE generated[s]
           /\ generated[r] \in Nat
           /\ MaxTokens[r] > 0 => generated[r] < MaxTokens[r]
           /\ UNCHANGED <<cur, active>>
<1> PICK r \in Requests : r = active[cur] /\ cur \in Occupied /\ generated[r] \in Nat
  BY CurSlot DEF SampleToken
<1>1. MaxTokens[r] > 0 => generated[r] < MaxTokens[r]
  BY DEF SampleToken, Inv, Unfinished
<1>2. generated \in [Requests -> Nat] /\ generated' = [generated EXCEPT ![r] = @ + 1]
  BY DEF SampleToken, Inv, TypeOK, SlotOK
<1> QED
  BY <1>1, <1>2 DEF SampleToken, Goto

\* A burst stops at the limit.
LEMMA LimitStep ==
  ASSUME Inv, [Next]_vars
  PROVE  TokenLimit'
<1>1. \A r \in Requests : MaxTokens[r] \in Nat /\ generated[r] \in Nat
  BY NatConstants DEF Inv, TypeOK, SlotOK
<1>2. CASE SampleToken
  BY <1>1, <1>2, SampleTokenFacts DEF Inv, TokenLimit
<1>3. CASE FinishEnd
  <2>1. \A r \in Requests : generated'[r] \in {0, generated[r]}
    BY <1>3 DEF FinishEnd, Inv, TypeOK, SlotOK
  <2> QED
    BY <1>1, <2>1 DEF Inv, TokenLimit
<1> QED
  BY <1>2, <1>3, GeneratedFrame DEF Inv, TokenLimit

\* A stream that is still served is below its limit.
LEMMA UnfinishedStep ==
  ASSUME Inv, [Next]_vars
  PROVE  Unfinished'
<1>1. /\ \A r \in Requests : MaxTokens[r] \in Nat /\ generated[r] \in Nat
      /\ \A q \in Occupied : active[q] \in Requests /\ q \in Seqs
      /\ \A p, q \in Occupied : active[p] = active[q] => p = q
      /\ active \in [Seqs -> Requests \cup {None}] /\ Unfinished
  BY NatConstants DEF Inv, TypeOK, SlotOK, RunOK, Occupied, OneOwner
<1>2. CASE SampleToken
  <2> PICK s \in Requests :
           /\ cur \in Occupied /\ s = active[cur] /\ pc = "verify" /\ pc' = "emit"
           /\ \A r \in Requests : generated'[r] = IF r = s THEN generated[r] + 1 ELSE generated[r]
           /\ UNCHANGED <<cur, active>>
    BY <1>2, SampleTokenFacts
  <2> QED
    BY <1>1 DEF Unfinished, Occupied
<1>3. CASE FinishEnd
  <2>1. /\ \A r \in Requests : generated'[r] = IF r = fin.req THEN 0 ELSE generated[r]
        /\ UNCHANGED active /\ pc = "finish"
    BY <1>3 DEF FinishEnd, Inv, TypeOK, SlotOK
  <2> QED
    BY <1>1, <2>1 DEF Unfinished, Occupied
<1>4. CASE AdmitTake
  <2> PICK h \in Requests : h = Head(queue)
    BY <1>4, TailFacts DEF AdmitTake, Inv, TypeOK, SharedOK
  <2>1. Queued(h)
    BY <1>4, TailFacts DEF AdmitTake, Inv, TypeOK, SharedOK, Queued
  <2>2. generated[h] = 0
    BY <2>1 DEF Inv, Counters, OneOwner
  <2>3. /\ \A q \in Seqs : active'[q] = active[q] \/ active'[q] = h
        /\ UNCHANGED <<generated, pc>> /\ pc = "admit"
    BY <1>1, <1>4 DEF AdmitTake, slotVars
  <2> QED
    BY <1>1, <2>2, <2>3 DEF Unfinished, Occupied
<1>5. CASE SampleEOS \/ JudgeStop \/ JudgeLimit \/ JudgeDone
  <2>1. /\ UNCHANGED generated /\ cur \in Occupied /\ pc \in {"verify", "judge"}
        /\ pc' \in {"harvest", "finish"}
        /\ \/ active' = [active EXCEPT ![cur] = None]
           \/ active' = active /\ ~LimitReached(active[cur])
    BY <1>5, Settlers, CurSlot DEF Settle, Finish, Goto
  <2>2. \A p \in Seqs : p # cur => active'[p] = active[p]
    BY <1>1, <2>1
  <2>3. CASE active' = [active EXCEPT ![cur] = None]
    <3>1. active'[cur] = None
      BY <1>1, <2>1, <2>3
    <3> QED
      BY <1>1, <2>1, <2>2, <3>1 DEF Unfinished, Occupied
  <2>4. CASE active' = active /\ ~LimitReached(active[cur])
    BY <1>1, <2>1, <2>4 DEF Unfinished, Occupied, LimitReached
  <2> QED
    BY <2>1, <2>3, <2>4
<1>6. CASE JudgeAccept
  <2>1. /\ UNCHANGED <<generated, active, cur>> /\ pc' = "verify" /\ pc = "judge"
        /\ ~LimitReached(active[cur]) /\ cur \in Occupied
    BY <1>6, CurSlot DEF JudgeAccept, Goto, slotVars
  <2> QED
    BY <1>1, <2>1 DEF Unfinished, Occupied, LimitReached
<1>7. CASE SampleFail \/ \E q \in Seqs : \/ DecodeNoKV(q) \/ HarvestCancelled(q)
                                         \/ HarvestSampling(q) \/ DrainActive(q)
  <2>1. UNCHANGED generated /\ pc \notin {"emit", "judge"}
    BY <1>7
    DEF DecodeNoKV, HarvestCancelled, HarvestSampling, DrainActive, SampleFail, slotVars
  <2>2. \A p \in Seqs : active'[p] \in {None, active[p]}
    BY <1>1, <1>7
    DEF DecodeNoKV, HarvestCancelled, HarvestSampling, DrainActive, SampleFail, Finish
  <2> QED
    BY <1>1, <2>1, <2>2 DEF Unfinished, Occupied
<1>8. CASE EmitText
  BY <1>1, <1>8 DEF EmitText, Goto, slotVars, Unfinished, Occupied
<1>9. CASE \/ AdmitDrop \/ DrainClose \/ FlushOne \/ (\E r \in Requests : Submit(r))
           \/ UNCHANGED vars
  <2>1. UNCHANGED <<active, generated>>
    BY <1>9 DEF AdmitDrop, DrainClose, FlushOne, Submit, vars, runVars, slotVars
  <2>2. pc \notin {"emit", "judge"} \/ UNCHANGED <<pc, cur>>
    BY <1>9 DEF AdmitDrop, DrainClose, FlushOne, Submit, vars, runVars
  <2> QED
    BY <1>1, <2>1, <2>2 DEF Unfinished, Occupied
<1>10. CASE Quiet /\ ~FinishEnd /\ ~SampleToken /\ ~EmitText /\ ~JudgeAccept
  <2>1. UNCHANGED <<active, generated>>
    BY <1>10, QuietFrame, GeneratedFrame
  <2>2. pc \notin {"emit", "judge"} \/ UNCHANGED <<pc, cur>>
    BY <1>10
    DEF Quiet, Top, AdmitEnd, TickOrIdle, IdleWake, IdleStop, StageNext, SkipNext, StagePrompt,
        SkipPrompt, Pass1End, Pass2End, DecodeOk, DecodeFail, HarvestVerify, HarvestEnd,
        Exit, Stop, Terminated, Signal, Cancel, Receive, ReceiveClose, vars, runVars
  <2> QED
    BY <1>1, <2>1, <2>2 DEF Unfinished, Occupied
<1> QED
  BY <1>2, <1>3, <1>4, <1>5, <1>6, <1>7, <1>8, <1>9, <1>10, NextCases DEF Finishers

\* Run sleeps on an empty queue, or has been woken.
LEMMA WakeupStep ==
  ASSUME Inv, [Next]_vars
  PROVE  NoLostWakeup'
<1> SUFFICES ASSUME pc' \in {"unlocked", "idle"}, Occupied' = {}, queue' # <<>>
             PROVE  wake' \/ signalling' # {}
  BY DEF NoLostWakeup
<1>1. CASE UNCHANGED <<pc, active, queue, wake, signalling>>
  BY <1>1 DEF Inv, NoLostWakeup, Occupied
<1>2. ASSUME NEW r \in Requests, Submit(r)
      PROVE  wake' \/ signalling' # {}
  <2>1. UNCHANGED <<pc, active, wake>> /\ ((signalling' = signalling /\ queue' = queue) \/ r \in signalling')
    BY <1>2 DEF Submit, runVars
  <2> QED
    BY <1>1, <2>1
<1>3. ASSUME NEW r \in Requests, Signal(r)
      PROVE  wake'
  BY <1>3 DEF Signal
<1>4. CASE AdmitEnd
  <2>1. pc = "admit" /\ Occupied = {} /\ free = <<>>
    BY <1>4 DEF AdmitEnd, Occupied, shared
  <2>2. 0 \in Seqs
    BY NatConstants DEF Seqs
  <2>3. active[0] = None
    BY <2>1, <2>2 DEF Occupied
  <2>4. fin.req = None
    <3>1. fin = NoFin
      BY <2>1 DEF Inv, Control, Place
    <3> QED
      BY <3>1 DEF NoFin
  <2> QED
    BY <2>1, <2>2, <2>3, <2>4 DEF Inv, SequenceConserved
<1>10. CASE TickOrIdle
  <2>1. pc = "unlocked" /\ UNCHANGED <<active, queue, wake, signalling>>
    BY <1>10 DEF TickOrIdle, shared
  <2> QED
    BY <2>1 DEF Inv, NoLostWakeup, Occupied
<1>5. CASE Finishers
  BY <1>5, FinishersFinish DEF Finish, Goto
<1>6. CASE FinishEnd
  BY <1>6 DEF FinishEnd, Goto, Inv, Control, Place
<1>7. CASE AdmitDrop \/ AdmitTake \/ DrainClose \/ FlushOne
  BY <1>1, <1>7 DEF AdmitDrop, AdmitTake, DrainClose, FlushOne, Goto, runVars, shared
<1>8. CASE Quiet /\ ~AdmitEnd /\ ~TickOrIdle /\ ~ \E r \in Requests : Signal(r)
  BY <1>1, <1>8
  DEF Quiet, Top, IdleWake, IdleStop, StageNext, SkipNext, StagePrompt, SkipPrompt, Pass1End,
      Pass2End, DecodeOk, DecodeFail, HarvestVerify, SampleToken, EmitText, JudgeAccept,
      HarvestEnd, Exit, Stop, Terminated, Cancel, Receive, ReceiveClose, Goto, vars, shared,
      runVars
<1>9. CASE UNCHANGED vars
  BY <1>1, <1>9 DEF vars, shared, runVars
<1> QED
  BY <1>2, <1>3, <1>4, <1>5, <1>6, <1>7, <1>8, <1>9, <1>10, NextCases

\* Behind the close of the queue nothing is queued.
LEMMA BehindStep ==
  ASSUME Inv, [Next]_vars
  PROVE  NobodyLeftBehind'
<1>1. closed' => queue' = <<>>
  <2>1. closed => queue = <<>>
    BY DEF Inv, NobodyLeftBehind
  <2>2. CASE Finishers
    BY <2>1, <2>2, FinishersFinish DEF shared
  <2>3. CASE Quiet \/ UNCHANGED vars
    BY <2>1, <2>3, QuietFrame
  <2> QED
    BY <2>1, <2>2, <2>3, NextCases
    DEF AdmitDrop, AdmitTake, FinishEnd, DrainClose, FlushOne, Submit, shared
<1>2. ASSUME pc' = "exit", NEW r \in Requests, status'[r] = "accepted"
      PROVE  outClosed'[r]
  <2>1. CASE Exit
    <3>1. /\ pc = "flush" /\ flush = <<>> /\ queue = <<>> /\ Occupied = {} /\ fin = NoFin
          /\ UNCHANGED <<status, outClosed>>
      BY <2>1 DEF Exit, shared, streams, Inv, Control, Place, NobodyLeftBehind
    <3>2. ~Queued(r) /\ ~Flushing(r)
      BY <3>1 DEF Queued, Flushing
    <3>3. ~Finishing(r) /\ ~Running(r)
      BY <3>1, ConstantsAssumption DEF Finishing, Running, Occupied, NoFin
    <3> QED
      BY <1>2, <3>1, <3>2, <3>3 DEF Inv, OneOwner
  <2>2. CASE pc = "exit" /\ UNCHANGED <<status, outClosed>>
    BY <1>2, <2>2 DEF Inv, NobodyLeftBehind
  <2>3. ASSUME NEW s \in Requests, Submit(s)
        PROVE  outClosed'[r]
    <3>1. /\ pc = "exit" /\ closed /\ UNCHANGED outClosed
          /\ status' = [status EXCEPT ![s] = "refused"]
      BY <1>2, <2>3 DEF Submit, runVars, streams, Inv, Control, Place
    <3>2. status[r] = "accepted"
      BY <1>2, <3>1 DEF Inv, TypeOK, SharedOK
    <3> QED
      BY <3>1, <3>2 DEF Inv, NobodyLeftBehind
  <2>4. CASE Finishers
    BY <1>2, <2>4, FinishersFinish DEF Finish, Goto
  <2>5. CASE FinishEnd
    BY <1>2, <2>5 DEF FinishEnd, Goto, Inv, Control, Place
  <2>6. CASE AdmitDrop \/ AdmitTake \/ DrainClose \/ FlushOne
    BY <1>2, <2>6 DEF AdmitDrop, AdmitTake, DrainClose, FlushOne, Goto, runVars
  <2>7. CASE (Quiet /\ ~Exit) \/ UNCHANGED vars
    <3>1. UNCHANGED <<status, outClosed>>
      BY <2>7, QuietFrame
    <3>2. pc = "exit"
      BY <1>2, <2>7
      DEF Quiet, Top, AdmitEnd, TickOrIdle, IdleWake, IdleStop, StageNext, SkipNext, StagePrompt,
          SkipPrompt, Pass1End, Pass2End, DecodeOk, DecodeFail, HarvestVerify, SampleToken,
          EmitText, JudgeAccept, HarvestEnd, Stop, Terminated, Signal, Cancel, Receive,
          ReceiveClose, Goto, vars, runVars
    <3> QED
      BY <2>2, <3>1, <3>2
  <2> QED
    BY <2>1, <2>3, <2>4, <2>5, <2>6, <2>7, NextCases
<1> QED
  BY <1>1, <1>2 DEF NobodyLeftBehind

\* A caller that has not cancelled has heard, or will read, a final event.
Told(r) == \/ heard[r] \in {"final", "answered"}
           \/ \E i \in DOMAIN out[r] : out[r][i] \in Reasons

\* Emit keeps every event before, and its own arrives unless the caller has left.
LEMMA EmitFacts ==
  ASSUME Inv, NEW r \in Requests, NEW ev \in Reasons \cup {"text"}, Emit(r, ev)
  PROVE  /\ \A s \in Requests : \A i \in DOMAIN out[s] : i \in DOMAIN out'[s] /\ out'[s][i] = out[s][i]
         /\ cancelled[r] \/ \E i \in DOMAIN out'[r] : out'[r][i] = ev
<1>1. /\ out \in [Requests -> Seq(Reasons \cup {"text"})]
      /\ out[r] \in Seq(Reasons \cup {"text"})
  BY DEF Inv, TypeOK, StreamOK
<1>2. CASE cancelled[r] /\ UNCHANGED out
  BY <1>2
<1>3. CASE out' = [out EXCEPT ![r] = Append(@, ev)]
  <2>1. \A s \in Requests : out'[s] = IF s = r THEN Append(out[r], ev) ELSE out[s]
    BY <1>1, <1>3
  <2> DEFINE s == out[r]
  <2>4. /\ Len(s) \in Nat /\ DOMAIN s = 1 .. Len(s)
        /\ DOMAIN Append(s, ev) = 1 .. Len(s) + 1
        /\ \A i \in DOMAIN s : Append(s, ev)[i] = s[i]
        /\ Append(s, ev)[Len(s) + 1] = ev
    BY <1>1, AppendFacts
  <2>5. out'[r] = Append(s, ev)
    BY <2>1
  <2> HIDE DEF s
  <2>2. \A i \in DOMAIN s : i \in DOMAIN out'[r] /\ out'[r][i] = s[i]
    BY <2>5, <2>4
  <2>3. Len(s) + 1 \in DOMAIN out'[r] /\ out'[r][Len(s) + 1] = ev
    BY <2>5, <2>4
  <2> QED
    BY <2>1, <2>2, <2>3 DEF s
<1> QED
  BY <1>2, <1>3 DEF Emit

\* A stream is closed behind its final event.
LEMMA FinalStep ==
  ASSUME Inv, [Next]_vars
  PROVE  FinalEventFirst'
<1>1. \A r \in Requests : outClosed[r] /\ ~cancelled[r] => Told(r)
  BY DEF Inv, FinalEventFirst, Told
<1>2. /\ outClosed \in [Requests -> BOOLEAN]
      /\ out \in [Requests -> Seq(Reasons \cup {"text"})]
      /\ heard \in [Requests -> {"nothing", "final", "answered", "unanswered"}]
      /\ cancelled \in [Requests -> BOOLEAN]
  BY DEF Inv, TypeOK, StreamOK
<1> SUFFICES \A r \in Requests : outClosed'[r] /\ ~cancelled'[r] => Told(r)'
  BY DEF FinalEventFirst, Told
<1>3. ASSUME NEW r \in Requests, NEW ev \in Reasons, Emit(r, ev), UNCHANGED <<cancelled, heard>>,
             outClosed' = [outClosed EXCEPT ![r] = TRUE]
      PROVE  \A s \in Requests : outClosed'[s] /\ ~cancelled'[s] => Told(s)'
  <2>1. \A s \in Requests : Told(s) => Told(s)'
    BY <1>3, EmitFacts DEF Told
  <2>2. ~cancelled[r] => Told(r)'
    BY <1>3, EmitFacts DEF Told
  <2>3. \A s \in Requests : s # r => outClosed'[s] = outClosed[s]
    BY <1>2, <1>3
  <2> QED
    BY <1>1, <1>3, <2>1, <2>2, <2>3
<1>4. CASE FinishEnd
  BY <1>3, <1>4 DEF FinishEnd, Inv, Control, Place
<1>5. CASE FlushOne
  <2>1. Head(flush) \in Requests /\ "cancel" \in Reasons
    BY <1>5, TailFacts DEF FlushOne, Inv, TypeOK, RunOK, Reasons
  <2> QED
    BY <1>3, <1>5, <2>1 DEF FlushOne
<1>6. CASE EmitText
  <2> PICK c \in Requests : c = active[cur]
    BY <1>6, CurSlot DEF EmitText
  <2>1. UNCHANGED <<outClosed, cancelled, heard>> /\ (UNCHANGED out \/ Emit(c, "text"))
    BY <1>6 DEF EmitText
  <2>2. \A s \in Requests : Told(s) => Told(s)'
    BY <2>1, EmitFacts DEF Told
  <2> QED
    BY <1>1, <2>1, <2>2
<1>7. CASE AdmitDrop
  <2>1. /\ cancelled[Head(queue)] /\ UNCHANGED <<out, cancelled, heard>>
        /\ \A s \in Requests : s # Head(queue) => outClosed'[s] = outClosed[s]
    BY <1>2, <1>7 DEF AdmitDrop
  <2> QED
    BY <1>1, <2>1 DEF Told
<1>8. ASSUME NEW r \in Requests, Receive(r)
      PROVE  \A s \in Requests : outClosed'[s] /\ ~cancelled'[s] => Told(s)'
  <2>1. /\ out[r] \in Seq(Reasons \cup {"text"}) /\ out[r] # <<>>
        /\ UNCHANGED <<outClosed, cancelled>>
        /\ \A s \in Requests : out'[s] = IF s = r THEN Tail(out[r]) ELSE out[s]
        /\ \A s \in Requests : heard'[s] = IF s = r /\ Head(out[r]) \in Reasons
                                          THEN "final" ELSE heard[s]
    BY <1>2, <1>8 DEF Receive
  <2>2. ASSUME NEW i \in DOMAIN out[r], out[r][i] \in Reasons, Head(out[r]) \notin Reasons
        PROVE  \E j \in DOMAIN Tail(out[r]) : Tail(out[r])[j] \in Reasons
    <3>1. i - 1 \in DOMAIN Tail(out[r]) /\ Tail(out[r])[i - 1] = out[r][(i - 1) + 1]
      BY <2>1, <2>2, TailFacts
    <3> QED
      BY <2>1, <2>2, <3>1, TailFacts
  <2>3. Told(r) => Told(r)'
    BY <2>1, <2>2 DEF Told
  <2>4. \A s \in Requests : s # r /\ Told(s) => Told(s)'
    BY <2>1 DEF Told
  <2> QED
    BY <1>1, <2>1, <2>3, <2>4
<1>9. ASSUME NEW r \in Requests, ReceiveClose(r)
      PROVE  \A s \in Requests : outClosed'[s] /\ ~cancelled'[s] => Told(s)'
  <2>1. /\ UNCHANGED <<out, outClosed, cancelled>>
        /\ \A s \in Requests : s # r => heard'[s] = heard[s]
        /\ heard[r] = "final" => heard'[r] = "answered"
        /\ out[r] = <<>> /\ heard[r] # "answered"
    BY <1>2, <1>9 DEF ReceiveClose, Ended
  <2>2. Told(r) => Told(r)'
    BY <2>1 DEF Told
  <2>3. \A s \in Requests : s # r /\ Told(s) => Told(s)'
    BY <2>1 DEF Told
  <2> QED
    BY <1>1, <2>1, <2>2, <2>3
<1>10. ASSUME NEW r \in Requests, Cancel(r)
       PROVE  \A s \in Requests : outClosed'[s] /\ ~cancelled'[s] => Told(s)'
  <2>1. /\ UNCHANGED <<out, outClosed, heard>>
        /\ \A s \in Requests : ~cancelled'[s] => ~cancelled[s]
    BY <1>2, <1>10 DEF Cancel
  <2> QED
    BY <1>1, <2>1 DEF Told
<1>11. CASE UNCHANGED streams
  BY <1>1, <1>11 DEF streams, Told
<1>12. CASE Finishers
  BY <1>11, <1>12, FinishersFinish
<1>13. CASE AdmitTake \/ DrainClose \/ (\E r \in Requests : Submit(r)) \/ UNCHANGED vars
  BY <1>11, <1>13 DEF AdmitTake, DrainClose, Submit, vars
<1>14. CASE Quiet /\ ~EmitText /\ ~ \E r \in Requests : Cancel(r) \/ Receive(r) \/ ReceiveClose(r)
  BY <1>11, <1>14
  DEF Quiet, Top, AdmitEnd, TickOrIdle, IdleWake, IdleStop, StageNext, SkipNext, StagePrompt, SkipPrompt,
      Pass1End, Pass2End, DecodeOk, DecodeFail, HarvestVerify, SampleToken, JudgeAccept,
      HarvestEnd, Exit, Stop, Terminated, Signal, vars
<1> QED
  BY <1>4, <1>5, <1>6, <1>7, <1>8, <1>9, <1>10, <1>12, <1>13, <1>14, NextCases

\* Every step keeps the invariant,
LEMMA InvStep ==
  ASSUME Inv, [Next]_vars
  PROVE  Inv'
BY TypeStep, OwnerStep, PlaceStep, BatchStep, CountersStep, UnfinishedStep, LimitStep,
   WakeupStep, BehindStep, FinalStep
DEF Inv, Control

\* which holds at first.
LEMMA InitInv == Init => Inv
<1> SUFFICES ASSUME Init PROVE Inv
  OBVIOUS
<1>1. TypeOK
  BY InitType
<1>2. SequenceConserved
  <2>1. /\ NSeqMax \in Nat /\ free = [i \in 1 .. NSeqMax |-> i - 1]
        /\ \A q \in Seqs : active[q] = None /\ q + 1 \in 1 .. NSeqMax /\ q = (q + 1) - 1
    BY NatConstants DEF Init, Seqs
  <2>2. \A q \in Seqs : \E i \in DOMAIN free : free[i] = q
    BY <2>1
  <2>3. \A i, j \in DOMAIN free : free[i] = free[j] => i = j
    BY <2>1
  <2>4. fin.req = None
    BY DEF Init, NoFin
  <2> QED
    BY <2>1, <2>2, <2>3, <2>4 DEF SequenceConserved
<1>3. Occupied = {} /\ \A r \in Requests : ~Running(r) /\ ~Finishing(r) /\ ~Queued(r) /\ ~Flushing(r)
  <2>1. /\ \A q \in Seqs : active[q] = None
        /\ fin.req = None /\ queue = <<>> /\ flush = <<>>
    BY DEF Init, NoFin
  <2> QED
    BY <2>1, ConstantsAssumption DEF Occupied, Running, Finishing, Queued, Flushing
<1>4. OneOwner
  BY <1>3 DEF Init, OneOwner
<1>5. Control
  BY <1>3 DEF Init, Control, Place, Batch, Harvesting
<1>6. Counters /\ Unfinished /\ TokenLimit
  BY <1>3, NatConstants DEF Init, Counters, Unfinished, TokenLimit
<1>7. NoLostWakeup /\ NobodyLeftBehind /\ FinalEventFirst
  BY DEF Init, NoLostWakeup, NobodyLeftBehind, FinalEventFirst
<1> QED
  BY <1>1, <1>2, <1>4, <1>5, <1>6, <1>7 DEF Inv

\* The inductive invariant: every handler of callers and of Run, in any
\* interleaving, keeps the ownership of requests and sequences, the counters
\* of a slot and the obligations towards the callers.
THEOREM Invariance == Spec => []Inv
<1>1. Init => Inv
  BY InitInv
<1>2. Inv /\ [Next]_vars => Inv'
  BY InvStep
<1> QED
  BY <1>1, <1>2, PTL DEF Spec

\* Every variable keeps its type, and no batch is ever staged past BatchCap:
\* drafts and prompt chunks are both cut to what tick has left of it.
THEOREM TypeCorrect == Spec => []TypeOK
<1>1. Inv => TypeOK
  BY DEF Inv
<1> QED
  BY <1>1, Invariance, PTL


\* No sequence of the context is lost or handed out twice, whatever evicts,
\* fails, finishes or drains a stream, and in whatever order.
THEOREM SequencesConserved == Spec => []SequenceConserved
<1>1. Inv => SequenceConserved
  BY DEF Inv
<1> QED
  BY <1>1, Invariance, PTL


\* Every accepted request with an open stream is in exactly one place, so its
\* channel is closed once and never sent to afterwards.
THEOREM OwnershipSafe == Spec => []OneOwner
<1>1. Inv => OneOwner
  BY DEF Inv
<1> QED
  BY <1>1, Invariance, PTL


\* A caller that waits for its answer is told the reason before the close.
THEOREM AnswerBeforeClose == Spec => []FinalEventFirst
<1>1. Inv => FinalEventFirst
  BY DEF Inv
<1> QED
  BY <1>1, Invariance, PTL


\* Run does not sleep on queued work: the signal of Submit, sent after its
\* unlock, is always still to come or still in the channel.
THEOREM WakeupsKept == Spec => []NoLostWakeup
<1>1. Inv => NoLostWakeup
  BY DEF Inv
<1> QED
  BY <1>1, Invariance, PTL


\* When Run returns every stream it accepted is closed and none can follow.
THEOREM ShutdownComplete == Spec => []NobodyLeftBehind
<1>1. Inv => NobodyLeftBehind
  BY DEF Inv
<1> QED
  BY <1>1, Invariance, PTL


\* verify counts each accepted draft before the next, so a burst stops at the
\* request's token limit.
THEOREM LimitKept == Spec => []TokenLimit
<1>1. Inv => TokenLimit
  BY DEF Inv
<1> QED
  BY <1>1, Invariance, PTL

---------------------------------------------------------------------------
(* The two theorems about EngineLoop that need more than its inductive     *)
(* invariant: how tick divides a batch between decoding and prefill        *)
(* (PassInv), and why a prompt that promptBudget admitted never meets the  *)
(* end of its context before its limit (Window).                           *)

\* Pass 1 has staged every running stream it has passed, and all of them if
\* it has left room in the batch.
Staged(q) == primed[active[q]] /\ ~cancelled[active[q]] => staged[active[q]] > 0

PassInv ==
  /\ pc = "pass1" => \A q \in Occupied \ todo : Staged(q)
  /\ pc = "pass2" /\ room > 0 => \A q \in Occupied : Staged(q)

\* Where a slot may have staged entries.
Ahead(q) ==
  \/ pc = "pass1" /\ q \notin todo /\ room < BatchCap
  \/ pc = "pass2" /\ room < BatchCap
  \/ pc \in {"decode", "drain"}
  \/ pc = "finish" /\ fin.ret = "drain"
  \/ Harvesting /\ (q \in todo \/ (q = cur /\ pc \in {"verify", "emit", "judge"}))

\* Where the cache is never full a primed slot has staged exactly the tokens
\* it will sample, so its position follows what it has generated.
SlotWindow(q) ==
  LET r == active[q] IN
  /\ primed[r] => pos[r] - staged[r] = PromptLen[r] + generated[r] - 1
  /\ ~primed[r] => pos[r] < PromptLen[r] /\ generated[r] = 0 /\ staged[r] = 0
  /\ staged[r] > 0 => Ahead(q)
  /\ pc \in {"verify", "emit", "judge"} /\ q = cur => primed[r]

Window ==
  /\ \A q \in Occupied : SlotWindow(q)
  /\ fin.ret # "top"

WindowInv == "nokv" \notin Faults => Window /\ RoomToFinish

\* The passes of tick keep what pass 1 has staged.
LEMMA PassStep ==
  ASSUME Inv, PassInv, [Next]_vars
  PROVE  PassInv'
<1>1. /\ \A q \in Occupied : active[q] \in Requests
      /\ \A p, q \in Occupied : active[p] = active[q] => p = q
      /\ Occupied \subseteq Seqs /\ room \in Nat
      /\ cancelled \in [Requests -> BOOLEAN]
      /\ pos \in [Requests -> Nat] /\ staged \in [Requests -> Nat]
      /\ primed \in [Requests -> BOOLEAN]
  BY NatConstants DEF Inv, OneOwner, Occupied, TypeOK, RunOK, StreamOK, SlotOK
<1>2. CASE pc' \notin {"pass1", "pass2"}
  BY <1>2 DEF PassInv
<1>3. ASSUME pc' \in {"pass1", "pass2"}
      PROVE  ~Finishers /\ ~FinishEnd
  BY <1>3, FinishersFinish DEF Finish, Goto, FinishEnd, Inv, Control, Place
<1>4. CASE TickOrIdle
  <2>1. pc' # "pass2" /\ (pc' = "pass1" => todo' = Occupied) /\ Occupied' = Occupied
    BY <1>4 DEF TickOrIdle, Goto, Occupied
  <2> QED
    BY <2>1 DEF PassInv
<1>5. ASSUME NEW q \in Seqs, StageNext(q)
      PROVE  PassInv'
  <2>1. PICK r \in Requests, n \in Nat \ {0} : /\ q \in Occupied /\ r = active[q] /\ pc = "pass1"
                                               /\ staged' = [staged EXCEPT ![r] = n]
    BY <1>1, <1>5, StageNextFacts
  <2>2. UNCHANGED <<pc, active, primed, cancelled>> /\ todo' = todo \ {q}
    BY <1>5 DEF StageNext, streams
  <2>3. \A p \in Occupied : staged'[active[p]] = IF p = q THEN n ELSE staged[active[p]]
    BY <1>1, <2>1
  <2> QED
    BY <2>1, <2>2, <2>3 DEF PassInv, Staged, Occupied
<1>6. ASSUME NEW q \in Seqs, StagePrompt(q)
      PROVE  PassInv'
  <2>1. PICK r \in Requests, n \in 0 .. room :
          /\ q \in Occupied /\ r = active[q] /\ pc = "pass2" /\ room' = room - n
          /\ \/ /\ primed' = [primed EXCEPT ![r] = TRUE]
                /\ staged' = [staged EXCEPT ![r] = 1]
             \/ UNCHANGED <<primed, staged>>
    BY <1>6, StagePromptFacts
  <2>2. UNCHANGED <<pc, active, cancelled>> /\ (room' > 0 => room > 0)
    BY <1>1, <1>6, <2>1 DEF StagePrompt, streams
  <2>3. \A p \in Occupied : p # q => /\ staged'[active[p]] = staged[active[p]]
                                     /\ primed'[active[p]] = primed[active[p]]
    <3>1. \A p \in Occupied : p # q => active[p] \in Requests /\ active[p] # r
      BY <1>1, <2>1
    <3> QED
      BY <1>1, <2>1, <3>1
  <2>4. primed'[active[q]] => staged'[active[q]] = 1 \/ UNCHANGED <<staged, primed>>
    BY <1>1, <2>1
  <2> QED
    BY <2>1, <2>2, <2>3, <2>4 DEF PassInv, Staged, Occupied
<1>7. CASE UNCHANGED <<pc, todo, room, active, primed, staged>>
  <2>1. \A r \in Requests : cancelled[r] => cancelled'[r]
    <3>1. CASE UNCHANGED cancelled
      BY <3>1
    <3>2. ASSUME NEW r \in Requests, Cancel(r)
          PROVE  \A s \in Requests : cancelled[s] => cancelled'[s]
      BY <1>1, <3>2 DEF Cancel
    <3>3. CASE Finishers
      BY <3>3, FinishersFinish DEF streams
    <3>4. CASE Quiet /\ ~ \E r \in Requests : Cancel(r)
      BY <3>4
      DEF Quiet, Top, AdmitEnd, TickOrIdle, IdleWake, IdleStop, StageNext, SkipNext, StagePrompt,
          SkipPrompt, Pass1End, Pass2End, DecodeOk, DecodeFail, HarvestVerify, SampleToken,
          EmitText, JudgeAccept, HarvestEnd, Exit, Stop, Terminated, Signal, Receive,
          ReceiveClose, vars, streams
    <3> QED
      BY <3>1, <3>2, <3>3, <3>4, NextCases
      DEF AdmitDrop, AdmitTake, FinishEnd, DrainClose, FlushOne, Submit, vars, streams
  <2> QED
    BY <1>1, <1>7, <2>1 DEF PassInv, Staged, Occupied
<1>8. ASSUME NEW q \in Seqs, SkipNext(q) \/ SkipPrompt(q)
      PROVE  PassInv'
  BY <1>1, <1>8 DEF SkipNext, SkipPrompt, slotVars, streams, PassInv, Staged, Occupied
<1>9. CASE Pass1End
  BY <1>1, <1>9 DEF Pass1End, Goto, slotVars, streams, PassInv, Staged, Occupied
<1>10. CASE AdmitDrop \/ AdmitTake \/ DrainClose \/ FlushOne \/ \E r \in Requests : Submit(r)
  BY <1>2, <1>7, <1>10
  DEF AdmitDrop, AdmitTake, DrainClose, FlushOne, Submit, Goto, runVars, slotVars
<1>11. CASE Quiet /\ ~TickOrIdle /\ ~Pass1End
            /\ ~ \E q \in Seqs : StageNext(q) \/ SkipNext(q) \/ StagePrompt(q) \/ SkipPrompt(q)
  BY <1>2, <1>7, <1>11
  DEF Quiet, Top, AdmitEnd, IdleWake, IdleStop, Pass2End, DecodeOk, DecodeFail, HarvestVerify,
      SampleToken, EmitText, JudgeAccept, HarvestEnd, Exit, Stop, Terminated, Signal, Cancel,
      Receive, ReceiveClose, Goto, vars, runVars, slotVars
<1>12. CASE UNCHANGED vars
  BY <1>7, <1>12 DEF vars, runVars, slotVars
<1> QED
  BY <1>2, <1>3, <1>4, <1>5, <1>6, <1>8, <1>9, <1>10, <1>11, <1>12, NextCases

\* Only a prompt that is being staged moves the position of an unprimed slot up.
LEMMA PromptMoves ==
  ASSUME Inv, [Next]_vars, NEW r \in Requests, ~primed[r], pos'[r] > pos[r]
  PROVE  pc = "pass2" /\ room > 0
<1>1. pos \in [Requests -> Nat] /\ pos[r] \in Nat /\ room \in Nat
  BY NatConstants DEF Inv, TypeOK, SlotOK, RunOK
<1>2. CASE UNCHANGED pos
  BY <1>1, <1>2
<1>3. ASSUME NEW q \in Seqs, StageNext(q)
      PROVE  FALSE
  BY <1>1, <1>3, StageNextFacts
<1>4. ASSUME NEW q \in Seqs, StagePrompt(q)
      PROVE  pc = "pass2" /\ room > 0
  BY <1>1, <1>4, StagePromptFacts
<1>5. CASE SampleEOS \/ JudgeStop \/ JudgeLimit \/ JudgeDone
  <2>1. PICK s \in Requests, left \in Nat : pos' = [pos EXCEPT ![s] = pos[s] - left]
    BY <1>5, CurSlot, Settlers, SettleFacts
  <2> QED
    BY <1>1, <2>1
<1>6. CASE FinishEnd
  BY <1>1, <1>6 DEF FinishEnd
<1>7. CASE \/ SampleFail \/ AdmitDrop \/ AdmitTake \/ DrainClose \/ FlushOne
           \/ (\E s \in Requests : Submit(s)) \/ UNCHANGED vars
           \/ \E q \in Seqs : DecodeNoKV(q) \/ HarvestCancelled(q) \/ HarvestSampling(q) \/ DrainActive(q)
  BY <1>2, <1>7
  DEF SampleFail, AdmitDrop, AdmitTake, DrainClose, FlushOne, Submit, vars, DecodeNoKV,
      HarvestCancelled, HarvestSampling, DrainActive, slotVars
<1>8. CASE Quiet /\ ~ \E q \in Seqs : StageNext(q) \/ StagePrompt(q)
  BY <1>2, <1>8
  DEF Quiet, Top, AdmitEnd, TickOrIdle, IdleWake, IdleStop, SkipNext, SkipPrompt, Pass1End, Pass2End,
      DecodeOk, DecodeFail, HarvestVerify, SampleToken, EmitText, JudgeAccept, HarvestEnd,
      Exit, Stop, Terminated, Signal, Cancel, Receive, ReceiveClose, vars, slotVars
<1> QED
  BY <1>3, <1>4, <1>5, <1>6, <1>7, <1>8, NextCases DEF Finishers

\* Whatever the order in which tick visits the slots, a prompt token is staged
\* only after every live running stream has staged its own (Pass 1, Pass 2).
THEOREM PrefillWaits == Spec => DecodeBeforePrefill
<1>1. Init => PassInv
  BY DEF Init, PassInv
<1>2. Inv /\ PassInv /\ [Next]_vars => PassInv'
  BY PassStep
<1>3. Inv /\ PassInv /\ [Next]_vars =>
        [\A r \in Requests : ~primed[r] /\ pos'[r] > pos[r] =>
           \A q \in Occupied :
             primed[active[q]] /\ ~cancelled[active[q]] => staged[active[q]] > 0]_vars
  BY PromptMoves DEF PassInv, Staged
<1> QED
  BY <1>1, <1>2, <1>3, Invariance, PTL DEF Spec, DecodeBeforePrefill

\* What WindowStep uses of the invariant.
LEMMA WindowFacts ==
  ASSUME Inv
  PROVE  /\ pos \in [Requests -> Nat] /\ staged \in [Requests -> Nat]
         /\ generated \in [Requests -> Nat] /\ primed \in [Requests -> BOOLEAN]
         /\ active \in [Seqs -> Requests \cup {None}] /\ Occupied \subseteq Seqs
         /\ \A q \in Occupied : active[q] \in Requests /\ active[q] # fin.req
         /\ \A p, q \in Occupied : active[p] = active[q] => p = q
         /\ \A q \in Occupied : PromptLen[active[q]] \in Nat
         /\ room \in Nat /\ BatchCap \in Nat /\ room <= BatchCap
<1>1. \A q \in Occupied : active[q] \in Requests /\ q \in Seqs
  BY DEF Inv, TypeOK, RunOK, Occupied
<1>2. \A q \in Occupied : active[q] # fin.req
  BY <1>1 DEF Inv, OneOwner, Running, Finishing
<1>3. \A q \in Occupied : PromptLen[active[q]] \in Nat
  BY <1>1, NatConstants
<1>4. room \in Nat /\ BatchCap \in Nat /\ room <= BatchCap
  BY NatConstants DEF Inv, TypeOK, RunOK
<1> QED
  BY <1>1, <1>2, <1>3, <1>4 DEF Inv, TypeOK, RunOK, SlotOK, OneOwner

\* A step that stages, samples and counts nothing.
LEMMA WindowFrame ==
  ASSUME Inv, Window, UNCHANGED <<pos, primed, generated, staged>>,
         \A q \in Occupied' : /\ q \in Occupied /\ active'[q] = active[q]
                              /\ staged[active[q]] > 0 => Ahead(q)'
                              /\ pc' \in {"verify", "emit", "judge"} /\ q = cur' => primed[active[q]],
         fin'.ret # "top"
  PROVE  Window'
BY WindowFacts DEF Window, SlotWindow

\* Pass 2 stages a prompt within its window.
LEMMA WindowPrefill ==
  ASSUME Inv, Window,
         \/ AdmitTake
         \/ \E q \in Seqs : StageNext(q) \/ StagePrompt(q)
  PROVE  Window'
<1>1. ASSUME NEW q \in Seqs, StageNext(q)
      PROVE  Window'
  <2>1. PICK r \in Requests, n \in 1 .. room :
           /\ q \in Occupied /\ q \in todo /\ r = active[q] /\ pc = "pass1" /\ primed[r]
           /\ pos' = [pos EXCEPT ![r] = pos[r] + n]
           /\ staged' = [staged EXCEPT ![r] = n]
           /\ room' = room - n
    BY <1>1, StageNextFacts
  <2>2. UNCHANGED <<pc, active, fin, cur, primed, generated>> /\ todo' = todo \ {q}
    BY <1>1 DEF StageNext
  <2>3. staged[r] = 0
    BY <2>1, WindowFacts DEF Window, SlotWindow, Ahead, Harvesting
  <2>4. room' < BatchCap /\ room' <= room /\ n \in Nat \ {0}
    BY <2>1, WindowFacts
  <2>5. SlotWindow(q)'
    <3>1. pos'[r] = pos[r] + n /\ staged'[r] = n /\ active'[q] = r
      BY <2>1, <2>2, WindowFacts
    <3>2. pos[r] - 0 = PromptLen[r] + generated[r] - 1
      BY <2>1, <2>3 DEF Window, SlotWindow
    <3> QED
      BY <2>1, <2>2, <2>4, <3>1, <3>2, WindowFacts DEF SlotWindow, Ahead
  <2>6. ASSUME NEW p \in Occupied, p # q
        PROVE  SlotWindow(p)'
    <3> PICK s \in Requests : s = active[p] /\ s # r
      BY <2>1, <2>6, WindowFacts
    <3>1. pos'[s] = pos[s] /\ staged'[s] = staged[s] /\ active'[p] = s
      BY <2>1, <2>2, WindowFacts
    <3>2. Ahead(p) => Ahead(p)'
      BY <2>1, <2>2, <2>4, <2>6 DEF Ahead, Harvesting
    <3> QED
      BY <2>1, <2>2, <3>1, <3>2 DEF Window, SlotWindow
  <2> QED
    BY <2>2, <2>5, <2>6 DEF Window, Occupied
<1>2. ASSUME NEW q \in Seqs, StagePrompt(q)
      PROVE  Window'
  <2>1. PICK r \in Requests, n \in 0 .. room :
           /\ q \in Occupied /\ r = active[q] /\ pc = "pass2" /\ ~primed[r]
           /\ pos' = [pos EXCEPT ![r] = pos[r] + n]
           /\ room' = room - n
           /\ \/ /\ pos[r] + n = PromptLen[r]
                 /\ primed' = [primed EXCEPT ![r] = TRUE]
                 /\ staged' = [staged EXCEPT ![r] = 1]
              \/ /\ pos[r] + n < PromptLen[r]
                 /\ UNCHANGED <<primed, staged>>
    BY <1>2, StagePromptFacts
  <2>2. UNCHANGED <<pc, active, fin, cur, generated>> /\ todo' = todo \ {q}
    BY <1>2 DEF StagePrompt
  <2>3. /\ pos[r] < PromptLen[r] /\ generated[r] = 0 /\ staged[r] = 0
        /\ pos[r] \in Nat /\ PromptLen[r] \in Nat
    BY <2>1, WindowFacts DEF Window, SlotWindow
  <2>4. room' <= room /\ (n > 0 => room' < BatchCap) /\ n \in Nat
    BY <2>1, WindowFacts
  <2>5. SlotWindow(q)'
    <3>1. pos'[r] = pos[r] + n /\ active'[q] = r
      BY <2>1, <2>2, WindowFacts
    <3>2. CASE pos[r] + n = PromptLen[r] /\ primed' = [primed EXCEPT ![r] = TRUE]
               /\ staged' = [staged EXCEPT ![r] = 1]
      <4>1. staged'[r] = 1 /\ n > 0
        BY <2>3, <2>4, <3>2, WindowFacts
      <4>2. primed'[r]
        BY <3>2, WindowFacts
      <4> QED
        BY <2>1, <2>2, <2>3, <2>4, <3>1, <3>2, <4>1, <4>2 DEF SlotWindow, Ahead
    <3>3. CASE pos[r] + n < PromptLen[r] /\ UNCHANGED <<primed, staged>>
      BY <2>1, <2>2, <2>3, <3>1, <3>3 DEF SlotWindow
    <3> QED
      BY <2>1, <3>2, <3>3
  <2>6. ASSUME NEW p \in Occupied, p # q
        PROVE  SlotWindow(p)'
    <3> PICK s \in Requests : s = active[p] /\ s # r
      BY <2>1, <2>6, WindowFacts
    <3>1. pos'[s] = pos[s] /\ staged'[s] = staged[s] /\ active'[p] = s
      BY <2>1, <2>2, WindowFacts
    <3>2. primed'[s] = primed[s]
      BY <2>1, WindowFacts
    <3>3. Ahead(p) => Ahead(p)'
      BY <2>1, <2>2, <2>4, WindowFacts DEF Ahead, Harvesting
    <3> QED
      BY <2>1, <2>2, <3>1, <3>2, <3>3 DEF Window, SlotWindow
  <2> QED
    BY <2>2, <2>5, <2>6 DEF Window, Occupied
<1>3. CASE AdmitTake
  <2> PICK h \in Requests : h = Head(queue) /\ Queued(h)
    BY <1>3, TailFacts DEF AdmitTake, Inv, TypeOK, SharedOK, Queued
  <2>1. ~Held(h) /\ status[h] = "accepted"
    BY DEF Inv, OneOwner, Held
  <2>2. pos[h] = 0 /\ ~primed[h] /\ generated[h] = 0 /\ staged[h] = 0 /\ PromptLen[h] > 0
    BY <2>1 DEF Inv, Counters, Held, Admissible
  <2>3. /\ \A q \in Seqs : active'[q] = active[q] \/ active'[q] = h
        /\ UNCHANGED <<pos, primed, generated, staged, pc, fin, cur>> /\ pc = "admit"
    BY <1>3, WindowFacts DEF AdmitTake, slotVars
  <2>4. ASSUME NEW q \in Occupied'
        PROVE  SlotWindow(q)'
    <3>1. CASE active'[q] = h
      BY <2>2, <2>3, <3>1 DEF SlotWindow
    <3>2. CASE active'[q] = active[q] /\ q \in Occupied
      BY <2>3, <3>2 DEF SlotWindow, Window, Ahead, Harvesting
    <3> QED
      BY <2>3, <3>1, <3>2 DEF Occupied
  <2> QED
    BY <2>3, <2>4 DEF Window
<1> QED
  BY <1>1, <1>2, <1>3

\* harvest moves positions with the tokens it emits.
LEMMA WindowHarvest ==
  ASSUME Inv, Window,
         SampleToken \/ SampleEOS \/ JudgeStop \/ JudgeLimit \/ JudgeDone \/ FinishEnd
  PROVE  Window'
<1>1. CASE SampleToken
  <2> PICK r \in Requests : r = active[cur] /\ cur \in Occupied /\ staged[r] > 0
    BY <1>1, CurSlot DEF SampleToken
  <2>1. /\ pc = "verify" /\ pc' = "emit"
        /\ generated' = [generated EXCEPT ![r] = @ + 1]
        /\ staged' = [staged EXCEPT ![r] = @ - 1]
        /\ UNCHANGED <<active, todo, cur, fin, pos, primed>>
    BY <1>1 DEF SampleToken, Goto
  <2>2. SlotWindow(cur)'
    <3>1. generated'[r] = generated[r] + 1 /\ staged'[r] = staged[r] - 1 /\ active'[cur] = r
      BY <2>1, WindowFacts
    <3>2. primed[r] /\ pos[r] - staged[r] = PromptLen[r] + generated[r] - 1
      BY <2>1 DEF Window, SlotWindow
    <3> QED
      BY <2>1, <3>1, <3>2, WindowFacts DEF SlotWindow, Ahead, Harvesting
  <2>3. ASSUME NEW p \in Occupied, p # cur
        PROVE  SlotWindow(p)'
    <3> PICK s \in Requests : s = active[p] /\ s # r
      BY <2>1, <2>3, WindowFacts
    <3>1. generated'[s] = generated[s] /\ staged'[s] = staged[s] /\ active'[p] = s
      BY <2>1, WindowFacts
    <3>2. Ahead(p) => Ahead(p)'
      BY <2>1, <2>3 DEF Ahead, Harvesting
    <3> QED
      BY <2>1, <2>3, <3>1, <3>2 DEF Window, SlotWindow
  <2> QED
    BY <2>1, <2>2, <2>3 DEF Window, Occupied
<1>2. CASE SampleEOS \/ JudgeStop \/ JudgeLimit \/ JudgeDone
  <2> PICK r \in Requests : r = active[cur] /\ cur \in Occupied
    BY <1>2, CurSlot, Settlers
  <2>1. PICK left \in 0 .. staged[r], reason \in {"stop", "length", "none"} :
          /\ Settle(left, reason)
          /\ left < staged[r] => reason = "stop"
    BY <1>2, Settlers
  <2>2. /\ pos' = [pos EXCEPT ![r] = @ - left] /\ staged' = [staged EXCEPT ![r] = 0]
        /\ \/ Finish(cur, "error", "harvest") \/ Finish(cur, reason, "harvest")
           \/ Finish(cur, "context", "harvest")
           \/ left = staged[r] /\ pc' = "harvest" /\ UNCHANGED <<active, fin>>
    BY <2>1, WindowFacts DEF Settle, Goto
  <2>3. UNCHANGED <<todo, cur, primed, generated>> /\ pc \in {"verify", "judge"} /\ primed[r]
    BY <1>2, Settlers DEF Window, SlotWindow
  <2>4. /\ pc' \in {"harvest", "finish"} /\ fin'.ret # "top"
        /\ pc' = "finish" => fin'.ret = "harvest" /\ active' = [active EXCEPT ![cur] = None]
        /\ pc' = "harvest" => left = staged[r] /\ active' = active
    BY <2>2 DEF Finish, Goto, Window
  <2>5. /\ pos'[r] = pos[r] - left /\ staged'[r] = 0
        /\ \A p \in Occupied : p # cur =>
             /\ active[p] # r
             /\ pos'[active[p]] = pos[active[p]] /\ staged'[active[p]] = staged[active[p]]
    <3>1. /\ \A s \in Requests : pos'[s] = IF s = r THEN pos[s] - left ELSE pos[s]
          /\ \A s \in Requests : staged'[s] = IF s = r THEN 0 ELSE staged[s]
      BY <2>2, WindowFacts
    <3>2. \A p \in Occupied : p # cur => active[p] \in Requests /\ active[p] # r
      BY WindowFacts
    <3> QED
      BY <3>1, <3>2
  <2>6. \A p \in Seqs : p # cur => active'[p] = active[p]
    BY <2>4, WindowFacts
  <2>7. ASSUME cur \in Occupied'
        PROVE  SlotWindow(cur)'
    <3>1. pc' = "harvest" /\ left = staged[r] /\ active' = active
      BY <2>4, <2>7, WindowFacts DEF Occupied
    <3>2. pos[r] - staged[r] = PromptLen[r] + generated[r] - 1
      BY <2>3 DEF Window, SlotWindow
    <3> QED
      BY <2>3, <2>5, <3>1, <3>2, WindowFacts DEF SlotWindow
  <2>8. ASSUME NEW p \in Occupied', p # cur
        PROVE  SlotWindow(p)'
    <3>1. p \in Occupied /\ active'[p] = active[p]
      BY <2>6, <2>8 DEF Occupied
    <3>2. Ahead(p) => Ahead(p)'
      BY <2>3, <2>4, <2>8 DEF Ahead, Harvesting
    <3> QED
      BY <2>3, <2>4, <2>5, <2>8, <3>1, <3>2 DEF Window, SlotWindow
  <2> QED
    <3>1. PICK c \in Occupied : c = cur /\ c = cur'
      BY <2>3
    <3>2. c \in Occupied' => SlotWindow(c)'
      BY <2>3, <2>7, <3>1 DEF SlotWindow, Ahead
    <3> QED
      BY <2>4, <2>8, <3>1, <3>2 DEF Window
<1>3. CASE FinishEnd
  <2>1. /\ fin.req \in Requests /\ pc = "finish" /\ pc' = fin.ret /\ fin.ret \in {"harvest", "drain"}
        /\ fin' = NoFin /\ UNCHANGED <<active, todo, cur>>
        /\ pos' = [pos EXCEPT ![fin.req] = 0] /\ primed' = [primed EXCEPT ![fin.req] = FALSE]
        /\ generated' = [generated EXCEPT ![fin.req] = 0]
        /\ staged' = [staged EXCEPT ![fin.req] = 0]
    BY <1>3 DEF FinishEnd, Goto, Inv, Control, Place, Window
  <2>2. ASSUME NEW p \in Occupied
        PROVE  SlotWindow(p)'
    <3> PICK s \in Requests : s = active[p] /\ s # fin.req
      BY WindowFacts
    <3>1. /\ pos'[s] = pos[s] /\ generated'[s] = generated[s] /\ staged'[s] = staged[s]
          /\ active'[p] = s
      BY <2>1, WindowFacts
    <3>2. primed'[s] = primed[s]
      BY <2>1, WindowFacts
    <3>3. Ahead(p) => Ahead(p)'
      BY <2>1 DEF Ahead, Harvesting
    <3> QED
      BY <2>1, <3>1, <3>2, <3>3 DEF Window, SlotWindow
  <2> QED
    BY <2>1, <2>2 DEF Window, Occupied, NoFin
<1> QED
  BY <1>1, <1>2, <1>3

\* The steps that stage and sample nothing.
LEMMA WindowRest ==
  ASSUME Inv, Window, "nokv" \notin Faults, [Next]_vars, ~AdmitTake,
         ~ \E q \in Seqs : StageNext(q) \/ StagePrompt(q),
         ~(SampleToken \/ SampleEOS \/ JudgeStop \/ JudgeLimit \/ JudgeDone \/ FinishEnd)
  PROVE  Window'
<1>1. ASSUME NEW q \in Seqs, HarvestCancelled(q) \/ HarvestSampling(q)
      PROVE  Window'
  <2>1. /\ pc = "harvest" /\ q \in todo /\ todo' = todo \ {q} /\ pc' = "finish" /\ q \in Seqs
        /\ active' = [active EXCEPT ![q] = None] /\ fin'.ret = "harvest"
        /\ UNCHANGED <<pos, primed, generated, staged>>
    BY <1>1 DEF HarvestCancelled, HarvestSampling, Finish, Goto, slotVars
  <2>2. \A p \in Seqs : active'[p] = IF p = q THEN None ELSE active[p]
    BY <2>1, WindowFacts
  <2>3. \A p \in Occupied' : /\ p \in Occupied /\ active'[p] = active[p]
                             /\ staged[active[p]] > 0 => Ahead(p)'
    BY <2>1, <2>2 DEF Window, SlotWindow, Ahead, Harvesting, Occupied
  <2> QED
    BY <2>1, <2>3, WindowFrame
<1>2. ASSUME NEW q \in Seqs, DrainActive(q)
      PROVE  Window'
  <2>1. /\ pc' = "finish" /\ fin'.ret = "drain" /\ active' = [active EXCEPT ![q] = None]
        /\ UNCHANGED <<pos, primed, generated, staged>>
    BY <1>2 DEF DrainActive, Finish, Goto, slotVars
  <2>2. \A p \in Seqs : active'[p] = IF p = q THEN None ELSE active[p]
    BY <2>1, WindowFacts
  <2>3. \A p \in Occupied' : /\ p \in Occupied /\ active'[p] = active[p] /\ Ahead(p)'
    BY <2>1, <2>2 DEF Ahead, Occupied
  <2> QED
    BY <2>1, <2>3, WindowFrame
<1>3. CASE SampleFail
  <2>1. /\ pc = "verify" /\ pc' = "finish" /\ fin'.ret = "harvest" /\ UNCHANGED todo
        /\ active' = [active EXCEPT ![cur] = None]
        /\ UNCHANGED <<pos, primed, generated, staged>> /\ cur \in Occupied
    BY <1>3, CurSlot DEF SampleFail, Finish, Goto, slotVars
  <2>2. \A p \in Seqs : active'[p] = IF p = cur THEN None ELSE active[p]
    BY <2>1, WindowFacts
  <2>3. \A p \in Occupied' : /\ p \in Occupied /\ active'[p] = active[p]
                             /\ staged[active[p]] > 0 => Ahead(p)'
    BY <2>1, <2>2 DEF Window, SlotWindow, Ahead, Harvesting, Occupied
  <2> QED
    BY <2>1, <2>3, WindowFrame
<1>4. CASE TickOrIdle
  <2>1. \A q \in Occupied : staged[active[q]] = 0
    BY <1>4, WindowFacts DEF TickOrIdle, Window, SlotWindow, Ahead, Harvesting
  <2>2. /\ UNCHANGED <<active, fin, pos, primed, generated>> /\ pc' \in {"idle", "pass1"}
        /\ \A r \in Requests : staged'[r] \in {0, staged[r]}
    BY <1>4 DEF TickOrIdle, Goto
  <2>3. \A q \in Occupied : staged'[active[q]] = 0
    BY <2>1, <2>2, WindowFacts
  <2>4. \A q \in Occupied : SlotWindow(q)'
    BY <2>1, <2>2, <2>3 DEF Window, SlotWindow
  <2> QED
    BY <2>2, <2>4 DEF Window, Occupied
<1>5. ASSUME NEW q \in Seqs, HarvestVerify(q)
      PROVE  Window'
  <2>1. /\ pc = "harvest" /\ q \in todo /\ todo' = todo \ {q} /\ pc' = "verify" /\ cur' = q
        /\ UNCHANGED <<active, fin, pos, primed, generated, staged>>
    BY <1>5 DEF HarvestVerify, Goto, slotVars
  <2>2. q \in Occupied => primed[active[q]]
    BY <2>1, WindowFacts DEF Window, SlotWindow, Inv, Control, Batch, Harvesting
  <2>3. \A p \in Occupied' : p \in Occupied /\ (staged[active[p]] > 0 => Ahead(p)')
    BY <2>1 DEF Window, SlotWindow, Ahead, Harvesting, Occupied
  <2> QED
    BY <2>1, <2>2, <2>3, WindowFrame DEF Window
<1>6. CASE UNCHANGED <<active, fin, pos, primed, generated, staged>> /\ Occupied = {}
  BY <1>6 DEF Window, Occupied
<1>7. ASSUME UNCHANGED <<active, fin, pos, primed, generated, staged>>,
             \A q \in Occupied : /\ staged[active[q]] > 0 /\ Ahead(q) => Ahead(q)'
                                 /\ pc' \in {"verify", "emit", "judge"} /\ q = cur' => primed[active[q]]
      PROVE  Window'
  <2>1. /\ Occupied' = Occupied /\ fin'.ret # "top"
        /\ \A q \in Occupied : staged[active[q]] > 0 => Ahead(q)
    BY <1>7 DEF Window, SlotWindow, Occupied
  <2>2. ASSUME NEW q \in Occupied'
        PROVE  /\ q \in Occupied /\ active'[q] = active[q]
               /\ staged[active[q]] > 0 => Ahead(q)'
               /\ pc' \in {"verify", "emit", "judge"} /\ q = cur' => primed[active[q]]
    <3>1. q \in Occupied /\ active'[q] = active[q]
      BY <1>7, <2>1
    <3>2. staged[active[q]] > 0 => Ahead(q)'
      BY <1>7, <2>1, <3>1 DEF Ahead, Harvesting
    <3>3. pc' \in {"verify", "emit", "judge"} /\ q = cur' => primed[active[q]]
      BY <1>7, <3>1
    <3> QED
      BY <3>1, <3>2, <3>3
  <2> QED
    BY <1>7, <2>1, <2>2, WindowFrame
<1>8. ASSUME NEW q \in Seqs, SkipNext(q) \/ SkipPrompt(q)
      PROVE  Window'
  <2>1. /\ UNCHANGED <<active, fin, pos, primed, generated, staged, pc, room, cur>>
        /\ todo' = todo \ {q} /\ pc \in {"pass1", "pass2"}
    BY <1>8 DEF SkipNext, SkipPrompt, slotVars
  <2> QED
    BY <1>7, <2>1 DEF Ahead, Harvesting
<1>9. CASE Pass1End \/ Pass2End \/ DecodeOk \/ DecodeFail \/ HarvestEnd \/ Top \/ AdmitEnd
  <2>1. /\ UNCHANGED <<active, fin, pos, primed, generated, staged>>
        /\ pc' \notin {"verify", "emit", "judge"}
    BY <1>9 DEF Pass1End, Pass2End, DecodeOk, DecodeFail, HarvestEnd, Top, AdmitEnd, Goto, slotVars
  <2>2. \A q \in Occupied : staged[active[q]] > 0 /\ Ahead(q) => Ahead(q)'
    BY <1>9, WindowFacts
    DEF Pass1End, Pass2End, DecodeOk, DecodeFail, HarvestEnd, Top, AdmitEnd, Goto, slotVars, Ahead,
        Harvesting
  <2> QED
    BY <1>7, <2>1, <2>2
<1>10. CASE EmitText \/ JudgeAccept
  <2>1. /\ UNCHANGED <<active, fin, pos, primed, generated, staged, todo, cur>>
        /\ pc \in {"emit", "judge"} /\ pc' \in {"judge", "verify"}
    BY <1>10 DEF EmitText, JudgeAccept, Goto, slotVars
  <2> QED
    BY <1>7, <2>1 DEF Ahead, Harvesting, Window, SlotWindow
<1>11. CASE IdleWake \/ IdleStop \/ Exit \/ DrainClose \/ FlushOne
  <2>1. Occupied = {}
    BY <1>11 DEF IdleWake, IdleStop, Exit, DrainClose, FlushOne, Inv, Control, Place
  <2> QED
    BY <1>6, <1>11, <2>1 DEF IdleWake, IdleStop, Exit, DrainClose, FlushOne, slotVars
<1>12. CASE \/ AdmitDrop \/ Stop \/ Terminated \/ UNCHANGED vars
            \/ \E r \in Requests : \/ Submit(r) \/ Signal(r) \/ Cancel(r) \/ Receive(r)
                                   \/ ReceiveClose(r)
  <2>1. UNCHANGED <<active, fin, pos, primed, generated, staged, pc, todo, room, cur>>
    BY <1>12
    DEF AdmitDrop, Stop, Terminated, vars, Submit, Signal, Cancel, Receive, ReceiveClose,
        runVars, slotVars
  <2> QED
    BY <1>7, <2>1 DEF Ahead, Harvesting, Window, SlotWindow
<1>13. ~ \E q \in Seqs : DecodeNoKV(q)
  BY DEF DecodeNoKV
<1> QED
  BY <1>1, <1>2, <1>3, <1>4, <1>5, <1>8, <1>9, <1>10, <1>11, <1>12, <1>13, NextCases
  DEF Quiet, Finishers

\* A stream with a limit that goes on is inside the context: its prompt left
\* the room its limit asks for.
LEMMA WithinContext ==
  ASSUME Inv, Window, pc = "judge", ~LimitReached(active[cur]),
         pos[active[cur]] - staged[active[cur]] >= NCtxSeq, Windowed
  PROVE  MaxTokens[active[cur]] = 0
<1> PICK r \in Requests : r = active[cur] /\ cur \in Occupied
  BY CurSlot
<1>1. /\ pos[r] - staged[r] = PromptLen[r] + generated[r] - 1
      /\ pos[r] - staged[r] >= NCtxSeq
  BY DEF Window, SlotWindow
<1>2. Admissible(r) /\ generated[r] \in Nat
  BY HeldFacts, CurSlot DEF Held, Running, Occupied
<1>3. /\ MaxTokens[r] \in Nat /\ NCtxSeq \in Nat /\ AdmitCtx \in Nat /\ PromptLen[r] \in Nat
      /\ OutputReserve \in Nat
  BY NatConstants
<1>4. MaxTokens[r] > 0 => generated[r] < MaxTokens[r]
  BY <1>2, <1>3 DEF LimitReached
<1>5. ASSUME MaxTokens[r] > 0
      PROVE  PromptLen[r] <= NCtxSeq - MaxTokens[r]
  BY <1>2, <1>3, <1>5 DEF Admissible, PromptBudget
<1> QED
  BY <1>1, <1>2, <1>3, <1>4, <1>5

\* The last token of a limit is within the context.
LEMMA RoomStepContext ==
  ASSUME Inv, Window, RoomToFinish, "nokv" \notin Faults, [Next]_vars
  PROVE  RoomToFinish'
<1>1. CASE UNCHANGED fin
  BY <1>1 DEF RoomToFinish
<1>2. CASE fin'.reason # "context"
  BY <1>2 DEF RoomToFinish
<1>3. CASE SampleEOS \/ JudgeStop \/ JudgeLimit \/ JudgeDone
  <2>1. PICK left \in 0 .. staged[active[cur]], reason \in {"stop", "length", "none"} :
          /\ Settle(left, reason)
          /\ left < staged[active[cur]] => reason = "stop"
          /\ reason = "none" => ~LimitReached(active[cur]) /\ pc = "judge"
    BY <1>3, Settlers
  <2>2. CASE fin'.reason = "context" /\ Windowed
    <3>1. /\ reason = "none" /\ pos[active[cur]] - left >= NCtxSeq
          /\ fin'.req = active[cur]
      <4>1. fin = NoFin
        BY <1>3, Settlers DEF Inv, Control, Place
      <4>2. fin.reason = ""
        BY <4>1 DEF NoFin
      <4>3. \/ Finish(cur, "error", "harvest")
            \/ Finish(cur, reason, "harvest") /\ reason # "none"
            \/ /\ reason = "none" /\ pos[active[cur]] - left >= NCtxSeq
               /\ Finish(cur, "context", "harvest")
            \/ UNCHANGED fin
        BY <2>1 DEF Settle
      <4>4. ~(Finish(cur, "error", "harvest")) /\ ~(Finish(cur, reason, "harvest") /\ reason # "none")
        BY <2>2 DEF Finish
      <4>5. ASSUME Finish(cur, "context", "harvest")
            PROVE  fin'.req = active[cur]
        BY <4>5 DEF Finish
      <4> QED
        BY <2>2, <4>2, <4>3, <4>4, <4>5
    <3>2. left = staged[active[cur]]
      BY <2>1, <3>1, CurSlot
    <3>3. MaxTokens[active[cur]] = 0
      BY <2>1, <2>2, <3>1, <3>2, WithinContext
    <3> QED
      BY <3>1, <3>3 DEF RoomToFinish
  <2> QED
    BY <1>2, <2>2 DEF RoomToFinish
<1>4. CASE \/ SampleFail
           \/ \E q \in Seqs : \/ DecodeNoKV(q) \/ HarvestCancelled(q) \/ HarvestSampling(q)
                              \/ DrainActive(q)
  BY <1>2, <1>4
  DEF DecodeNoKV, HarvestCancelled, HarvestSampling, DrainActive, SampleFail, Finish
<1>5. CASE FinishEnd
  BY <1>2, <1>5 DEF FinishEnd, NoFin
<1>6. CASE Quiet \/ UNCHANGED vars
  BY <1>1, <1>6, QuietFrame
<1> QED
  BY <1>1, <1>3, <1>4, <1>5, <1>6, NextCases
  DEF Finishers, AdmitDrop, AdmitTake, DrainClose, FlushOne, Submit, runVars

\* promptBudget reserves enough: where the cache is never full, a request with
\* a token limit reaches it before the end of its sequence, however many
\* drafts a tick stages and takes back.
THEOREM LimitsFit == Spec => []RoomToFinish
<1>1. Init => WindowInv
  <2> SUFFICES ASSUME Init PROVE Window /\ RoomToFinish
    BY DEF WindowInv
  <2>1. fin.ret = "" /\ fin.reason = "" /\ \A q \in Seqs : active[q] = None
    BY DEF Init, NoFin
  <2> QED
    BY <2>1 DEF Window, RoomToFinish, Occupied
<1>2. Inv /\ WindowInv /\ [Next]_vars => WindowInv'
  BY WindowPrefill, WindowHarvest, WindowRest, RoomStepContext DEF WindowInv
<1>3. WindowInv => RoomToFinish
  BY DEF WindowInv, RoomToFinish
<1> QED
  BY <1>1, <1>2, <1>3, Invariance, PTL DEF Spec

---------------------------------------------------------------------------
(* EngineLoop implements Admission, for every value of the constants: the  *)
(* initial states map to initial states and every step of callers and Run  *)
(* maps to one step of Admission or to a stutter.                          *)

\* A free sequence leaves fewer than NSeqMax requests running.
LEMMA RoomForOne ==
  ASSUME Inv, pc = "admit", free # <<>>
  PROVE  IsFiniteSet(Serving) /\ Cardinality(Serving) < NSeqMax
<1> DEFINE h == Head(free)
           f == [q \in Occupied |-> active[q]]
<1>1. /\ NSeqMax \in Nat \ {0} /\ free \in Seq(Seqs)
      /\ active \in [Seqs -> Requests \cup {None}] /\ fin = NoFin /\ None \notin Requests
  BY ConstantsAssumption DEF Inv, TypeOK, SharedOK, RunOK, Control, Place
<1>2. h \in Seqs /\ 1 \in DOMAIN free /\ free[1] = h
  BY <1>1, TailFacts
<1>3. h \notin Occupied
  BY <1>2 DEF Inv, SequenceConserved, Occupied
<1>4. IsFiniteSet(Seqs) /\ Cardinality(Seqs) = NSeqMax
  <2>1. /\ IsFiniteSet(0 .. NSeqMax - 1)
        /\ Cardinality(0 .. NSeqMax - 1) = IF 0 > NSeqMax - 1 THEN 0 ELSE (NSeqMax - 1) - 0 + 1
    BY <1>1, FS_Interval
  <2> QED
    BY <1>1, <2>1 DEF Seqs
<1>5. IsFiniteSet(Seqs \ {h}) /\ Cardinality(Seqs \ {h}) = NSeqMax - 1
  BY <1>2, <1>4, FS_RemoveElement
<1>6. Occupied \in SUBSET (Seqs \ {h})
  BY <1>3 DEF Occupied
<1>7. IsFiniteSet(Occupied) /\ Cardinality(Occupied) <= Cardinality(Seqs \ {h})
  BY <1>5, <1>6, FS_Subset
<1>8. \A r : r \in Serving <=> r \in Requests /\ \E q \in Seqs : active[q] = r
  BY <1>1 DEF Serving, Running, Finishing, NoFin
<1>9. f \in Surjection(Occupied, Serving)
  <2>1. \A q \in Occupied : q \in Seqs /\ active[q] \in Requests
    BY <1>1 DEF Occupied
  <2>2. f \in [Occupied -> Serving]
    BY <1>8, <2>1
  <2>3. \A r \in Serving : \E q \in Occupied : f[q] = r
    BY <1>1, <1>8 DEF Occupied
  <2> QED
    BY <2>2, <2>3 DEF Surjection
<1>10. IsFiniteSet(Serving) /\ Cardinality(Serving) <= Cardinality(Occupied)
  BY <1>7, <1>9, FS_Surjection
<1>11. Cardinality(Serving) \in Nat /\ Cardinality(Occupied) \in Nat
  BY <1>7, <1>10, FS_CardinalityType
<1> QED
  BY <1>1, <1>5, <1>7, <1>10, <1>11

\* What the mapping shows of a step that neither queues, settles nor starts.
LEMMA ViewFrame ==
  ASSUME Inv, [Next]_vars,
         UNCHANGED <<status, queue, closed, flush, outClosed>>, ~AdmitTake, ~FinishEnd
  PROVE  UNCHANGED <<Asked, queue, Serving, Leaving, Settled, closed>>
<1>1. \A r \in Requests : Held(r)' <=> Held(r)
  BY HeldStep
<1>2. Serving' = Serving
  BY <1>1 DEF Held, Serving
<1> QED
  BY <1>2 DEF Asked, Leaving, Settled, Flushing

\* Submit is Submit of Admission,
LEMMA MapSubmit ==
  ASSUME Inv, [Next]_vars, NEW r \in Requests, Submit(r)
  PROVE  Promise!Accept(r) \/ Promise!Refuse(r)
<1>1. /\ ~AdmitTake /\ ~FinishEnd
      /\ UNCHANGED <<closed, flush, outClosed, cancelled, active, fin>>
      /\ status \in [Requests -> {"new", "refused", "accepted"}]
  BY DEF Submit, AdmitTake, FinishEnd, Inv, TypeOK, SharedOK, runVars, streams
<1>2. UNCHANGED <<Serving, Leaving, Settled, GaveUp>>
  BY <1>1 DEF Serving, Running, Finishing, Leaving, Flushing, Settled, GaveUp
<1>3. r \notin Asked /\ Asked' = Asked \cup {r}
  BY <1>1 DEF Submit, Asked
<1>4. r \in Fitting <=> Admissible(r)
  BY DEF Fitting
<1>5. QueueFull <=> ~(MaxQueue > 0 => Len(queue) < MaxQueue)
  BY NatConstants DEF QueueFull, Inv, TypeOK, SharedOK
<1>6. Promise!Welcome(r) <=> Admissible(r) /\ ~closed /\ ~QueueFull
  BY <1>4, <1>5 DEF Promise!Welcome
<1>7. CASE Promise!Welcome(r)
  <2>1. queue' = Append(queue, r)
    BY <1>6, <1>7 DEF Submit
  <2> QED
    BY <1>1, <1>2, <1>3, <1>7, <2>1 DEF Promise!Accept
<1>8. CASE ~Promise!Welcome(r)
  <2>1. queue' = queue
    BY <1>6, <1>8 DEF Submit
  <2> QED
    BY <1>1, <1>2, <1>3, <1>8, <2>1 DEF Promise!Refuse
<1> QED
  BY <1>7, <1>8
\* a cancellation is its Cancel,
LEMMA MapCancel ==
  ASSUME Inv, [Next]_vars, NEW r \in Requests, Cancel(r)
  PROVE  Promise!GiveUp(r)
<1>1. /\ ~AdmitTake /\ ~FinishEnd
      /\ UNCHANGED <<status, queue, closed, flush, outClosed>>
      /\ cancelled \in [Requests -> BOOLEAN] /\ status[r] = "accepted"
      /\ cancelled' = [cancelled EXCEPT ![r] = TRUE]
  <2>1. UNCHANGED <<shared, pc, flush, outClosed>> /\ cancelled'[r] # cancelled[r]
    BY DEF Cancel, runVars, Inv, TypeOK, StreamOK
  <2> QED
    BY <2>1 DEF Cancel, shared, AdmitTake, FinishEnd, streams, Inv, TypeOK, StreamOK
<1>2. UNCHANGED <<Asked, queue, Serving, Leaving, Settled, closed>>
  BY <1>1, ViewFrame
<1>3. r \in Asked
  BY <1>1 DEF Asked
<1>4. \A x \in Requests : cancelled'[x] <=> cancelled[x] \/ x = r
  BY <1>1
<1>5. GaveUp' = GaveUp \cup {r}
  BY <1>4 DEF GaveUp
<1> QED
  BY <1>2, <1>3, <1>5 DEF Promise!GiveUp

\* a queued request that was left is its Drop,
LEMMA MapDrop ==
  ASSUME Inv, [Next]_vars, AdmitDrop
  PROVE  Promise!Drop
<1> DEFINE h == Head(queue)
<1>1. /\ queue # <<>> /\ queue \in Seq(Requests) /\ cancelled[h]
      /\ queue' = Tail(queue) /\ outClosed' = [outClosed EXCEPT ![h] = TRUE]
      /\ UNCHANGED <<status, closed, flush, cancelled, active, fin>>
      /\ outClosed \in [Requests -> BOOLEAN]
  BY DEF AdmitDrop, Inv, TypeOK, SharedOK, StreamOK, runVars
<1>2. h \in Requests
  BY <1>1, TailFacts
<1>3. UNCHANGED <<Asked, Serving, Leaving, GaveUp>>
  BY <1>1 DEF Asked, Serving, Running, Finishing, Leaving, Flushing, GaveUp
<1>4. \A x \in Requests : outClosed'[x] <=> outClosed[x] \/ x = h
  BY <1>1
<1>5. Settled' = Settled \cup {h}
  BY <1>2, <1>4 DEF Settled
<1>6. h \in GaveUp
  BY <1>1, <1>2 DEF GaveUp
<1> QED
  BY <1>1, <1>3, <1>5, <1>6 DEF Promise!Drop

\* The operator of FiniteSets is the same seen through the instance.
LEMMA SameCardinality == \A S : Promise!Cardinality(S) = Cardinality(S)
  BY Zenon DEF Promise!Cardinality, Cardinality

\* admit is its Start,
LEMMA MapStart ==
  ASSUME Inv, [Next]_vars, AdmitTake
  PROVE  Promise!Start
<1> DEFINE h == Head(queue)
<1>1. /\ pc = "admit" /\ free # <<>> /\ queue # <<>> /\ queue \in Seq(Requests)
      /\ ~cancelled[h] /\ queue' = Tail(queue)
      /\ UNCHANGED <<status, closed, flush, outClosed, cancelled>>
  BY DEF AdmitTake, Inv, TypeOK, SharedOK, streams
<1>2. h \in Requests
  BY <1>1, TailFacts
<1>3. UNCHANGED <<Asked, Leaving, Settled, GaveUp>>
  BY <1>1 DEF Asked, Leaving, Flushing, Settled, GaveUp
<1>4. \A x \in Requests : Held(x)' <=> Held(x) \/ x = h
  BY HeldStep
<1>5. Serving' = Serving \cup {h}
  BY <1>2, <1>4 DEF Serving, Held
<1>6. Cardinality(Serving) < NSeqMax
  BY <1>1, RoomForOne
<1>7. h \notin GaveUp
  BY <1>1 DEF GaveUp
<1>8. Promise!Cardinality(Serving) < NSeqMax
  BY <1>6, SameCardinality
<1> QED
  BY <1>1, <1>3, <1>5, <1>7, <1>8 DEF Promise!Start

\* finish settles one stream,
LEMMA MapSettleFinished ==
  ASSUME Inv, [Next]_vars, FinishEnd
  PROVE  fin.req \in Requests /\ Promise!Settle(fin.req)
<1> DEFINE r == fin.req
<1>1. /\ r \in Requests
      /\ outClosed' = [outClosed EXCEPT ![r] = TRUE] /\ outClosed \in [Requests -> BOOLEAN]
      /\ UNCHANGED <<status, queue, closed, flush, cancelled>>
  BY DEF FinishEnd, Inv, Control, Place, TypeOK, StreamOK
<1>2. UNCHANGED <<Asked, Leaving, GaveUp>>
  BY <1>1 DEF Asked, Leaving, Flushing, GaveUp
<1>3. r \in Serving /\ r \notin Leaving
  BY <1>1, HeldFacts DEF Held, Finishing, Serving, Leaving
<1>4. \A x \in Requests : Held(x)' <=> Held(x) /\ x # r
  BY HeldStep
<1>5. Serving' = Serving \ {r}
  BY <1>4 DEF Serving, Held
<1>6. \A x \in Requests : outClosed'[x] <=> outClosed[x] \/ x = r
  BY <1>1
<1>7. Settled' = Settled \cup {r}
  BY <1>1, <1>6 DEF Settled
<1>8. Leaving' = Leaving \ {r}
  BY <1>2, <1>3
<1> QED
  BY <1>1, <1>2, <1>3, <1>5, <1>7, <1>8 DEF Promise!Settle

\* drain another,
LEMMA MapSettleFlushed ==
  ASSUME Inv, [Next]_vars, FlushOne
  PROVE  Head(flush) \in Requests /\ Promise!Settle(Head(flush))
<1> DEFINE r == Head(flush)
<1>1. /\ flush # <<>> /\ flush \in Seq(Requests) /\ flush' = Tail(flush)
      /\ outClosed' = [outClosed EXCEPT ![r] = TRUE] /\ outClosed \in [Requests -> BOOLEAN]
      /\ UNCHANGED <<status, queue, closed, cancelled, active, fin>>
  BY DEF FlushOne, Inv, TypeOK, RunOK, StreamOK, shared
<1>2. \A i, j \in DOMAIN flush : flush[i] = flush[j] => i = j
  BY DEF Inv, OneOwner
<1>3. /\ r \in Requests
      /\ \E i \in DOMAIN flush : flush[i] = r
      /\ \A x : (\E i \in DOMAIN Tail(flush) : Tail(flush)[i] = x)
                 <=> (\E i \in DOMAIN flush : flush[i] = x) /\ x # r
  <2>1. /\ \A x : (\E i \in DOMAIN Tail(flush) : Tail(flush)[i] = x)
                   <=> (\E i \in DOMAIN flush : flush[i] = x) /\ x # Head(flush)
        /\ \E i \in DOMAIN flush : flush[i] = Head(flush)
    BY <1>1, <1>2, PopFacts
  <2> QED
    BY <1>1, <2>1, TailFacts
<1>4. UNCHANGED <<Asked, Serving, GaveUp>>
  BY <1>1 DEF Asked, Serving, Running, Finishing, GaveUp
<1>5. r \in Leaving /\ Leaving' = Leaving \ {r}
  BY <1>1, <1>3 DEF Leaving, Flushing
<1>6. r \notin Serving
  BY <1>3, HeldFacts DEF Serving, Held, Flushing
<1>7. \A x \in Requests : outClosed'[x] <=> outClosed[x] \/ x = r
  BY <1>1
<1>8. Settled' = Settled \cup {r}
  BY <1>3, <1>7 DEF Settled
<1>9. Serving' = Serving \ {r}
  BY <1>4, <1>6
<1> QED
  BY <1>1, <1>3, <1>4, <1>5, <1>8, <1>9 DEF Promise!Settle

\* and closes the queue.
LEMMA MapClose ==
  ASSUME Inv, [Next]_vars, DrainClose
  PROVE  Promise!Close
<1>1. /\ Occupied = {} /\ fin.req = None /\ None \notin Requests
      /\ queue \in Seq(Requests) /\ queue' = <<>> /\ flush' = queue /\ closed' = TRUE
      /\ UNCHANGED <<status, active, fin, outClosed, cancelled>>
  <2>1. fin = NoFin /\ queue \in Seq(Requests)
    BY DEF DrainClose, Inv, Control, Place, TypeOK, SharedOK
  <2>2. None \notin Requests
    BY ConstantsAssumption
  <2> QED
    BY <2>1, <2>2 DEF DrainClose, NoFin, streams
<1>2. \A q \in Seqs : active[q] \notin Requests
  BY <1>1 DEF Occupied
<1>3. Serving = {} /\ Serving' = {}
  BY <1>1, <1>2 DEF Serving, Running, Finishing
<1>4. UNCHANGED <<Asked, Settled, GaveUp>>
  BY <1>1 DEF Asked, Settled, GaveUp
<1>5. \A i \in DOMAIN queue : queue[i] \in Requests
  BY <1>1
<1>6. Leaving' = {queue[i] : i \in DOMAIN queue}
  BY <1>1, <1>5 DEF Leaving, Flushing
<1> QED
  BY <1>1, <1>3, <1>4, <1>6 DEF Promise!Close

\* Every step of the engine is a step of the abstract specification or none.
LEMMA MapStep ==
  ASSUME Inv, [Next]_vars
  PROVE  [Promise!Next]_(Promise!vars)
<1>1. CASE \E r \in Requests : Submit(r) \/ Cancel(r)
  BY <1>1, MapSubmit, MapCancel DEF Promise!Next
<1>2. CASE AdmitDrop \/ AdmitTake \/ FinishEnd \/ DrainClose \/ FlushOne
  BY <1>2, MapDrop, MapStart, MapSettleFinished, MapSettleFlushed, MapClose DEF Promise!Next
<1>3. ASSUME UNCHANGED <<Asked, queue, Serving, Leaving, Settled, closed>>,
             UNCHANGED cancelled
      PROVE  UNCHANGED Promise!vars
  BY <1>3 DEF Promise!vars, GaveUp
<1>4. CASE Finishers
  <2>1. UNCHANGED <<status, queue, closed, flush, outClosed, cancelled>> /\ pc \notin {"admit", "finish"}
    BY <1>4, FinishersFinish DEF shared, streams
  <2>2. ~AdmitTake /\ ~FinishEnd
    BY <2>1 DEF AdmitTake, FinishEnd
  <2> QED
    BY <1>3, <2>1, <2>2, ViewFrame
<1>5. CASE (Quiet \/ UNCHANGED vars) /\ ~\E r \in Requests : Cancel(r)
  <2>1. UNCHANGED <<status, queue, free, closed, active, fin, flush, outClosed>>
    BY <1>5, QuietFrame
  <2>2. UNCHANGED cancelled
    BY <1>5
    DEF Quiet, Top, AdmitEnd, TickOrIdle, IdleWake, IdleStop, StageNext, SkipNext, StagePrompt,
        SkipPrompt, Pass1End, Pass2End, DecodeOk, DecodeFail, HarvestVerify, SampleToken,
        EmitText, JudgeAccept, HarvestEnd, Exit, Stop, Terminated, Signal,
        Receive, ReceiveClose, vars, shared, runVars, streams
  <2>3. UNCHANGED <<Asked, Serving, Leaving, Settled>>
    BY <2>1 DEF Asked, Serving, Running, Finishing, Leaving, Flushing, Settled
  <2> QED
    BY <1>3, <2>1, <2>2, <2>3
<1> QED
  BY <1>1, <1>2, <1>4, <1>5, NextCases

\* Both begin alike.
LEMMA MapInit ==
  ASSUME Init
  PROVE  Promise!Init
<1>1. /\ queue = <<>> /\ flush = <<>> /\ fin.req = None /\ None \notin Requests /\ closed = FALSE
      /\ \A q \in Seqs : active[q] = None
      /\ \A r \in Requests : status[r] = "new" /\ ~outClosed[r] /\ ~cancelled[r]
  BY ConstantsAssumption DEF Init, NoFin
<1>2. Asked = {} /\ Settled = {} /\ GaveUp = {}
  BY <1>1 DEF Asked, Settled, GaveUp
<1>3. Serving = {} /\ Leaving = {}
  BY <1>1 DEF Serving, Leaving, Running, Finishing, Flushing
<1> QED
  BY <1>1, <1>2, <1>3 DEF Promise!Init

\* The engine keeps the promise of Admission: requests start in the order they
\* were accepted, at most NSeqMax run, only a caller who gave up is dropped,
\* and drain settles everything that is left.
THEOREM Refinement == Spec => ImplementsAdmission
<1>1. Init => Promise!Init
  BY MapInit
<1>2. Inv /\ [Next]_vars => [Promise!Next]_(Promise!vars)
  BY MapStep
<1> QED
  BY <1>1, <1>2, Invariance, PTL DEF Spec, ImplementsAdmission, Promise!Spec

===============================================================================
