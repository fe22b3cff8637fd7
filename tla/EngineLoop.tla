------------------------------ MODULE EngineLoop ------------------------------
(***************************************************************************)
(* The request lifecycle of internal/engine/engine.go: callers of Submit,  *)
(* their streams and their cancellations, against the single goroutine of  *)
(* Engine.Run that admits, stages, decodes, harvests, finishes and drains. *)
(*                                                                         *)
(* Tokens are counted, not named (DecodeState models their identity), and  *)
(* requests are text requests without a rewinder.  One action is one step  *)
(* of a goroutine between two points where another goroutine can be seen:  *)
(* the mutex mu is held exactly while pc = "admit", every other critical   *)
(* section is one action, and every iteration of a range over the map      *)
(* active is one action that takes any element of todo, because Go         *)
(* randomises the order.                                                   *)
(*                                                                         *)
(* A definition marked "Changed" is the next one with a bug; no action     *)
(* uses it, it shows which property notices the bug.                       *)
(***************************************************************************)
EXTENDS Integers, Sequences, FiniteSets

CONSTANTS
  Requests,      \* the requests clients may submit
  None,          \* no request: a free entry of the map active
  NSeqMax,       \* Backend.NSeqMax: sequences of the context
  MaxQueue,      \* Config.MaxQueue, 0 for unbounded
  OutCap,        \* capacity of a stream's channel (32 in the code)
  BatchCap,      \* Backend.BatchCap: entries of one batch
  NCtxSeq,       \* Backend.NCtxSeq: the context of one sequence
  NCtx,          \* Backend.NCtx: the context of all of them
  AdmitCtx,      \* Config.AdmitContext, 0 to admit the whole window
  OutputReserve, \* defaultOutputReserve (512 in the code)
  MaxDraft,      \* Drafter.MaxDraft, 0 for no drafter
  CanTrim,       \* whether TrimSeq can take back a rejected tail
  PromptLen,     \* tokens of a request's prompt
  MaxTokens,     \* Request.MaxTokens, 0 for no limit
  Impatient,     \* the requests whose callers may cancel
  Faults         \* which backend calls may fail in this instance

FaultKinds == {"nokv", "decode", "sampling", "sample"}

\* The reasons of a final event; "error" is an event whose Err is set.
Reasons == {"stop", "length", "cancel", "context", "error"}

ASSUME ConstantsAssumption ==
  /\ None \notin Requests
  /\ NSeqMax \in Nat \ {0}
  /\ OutCap \in Nat \ {0}
  /\ BatchCap \in Nat \ {0}
  /\ {MaxQueue, NCtxSeq, NCtx, AdmitCtx, OutputReserve, MaxDraft} \subseteq Nat
  /\ CanTrim \in BOOLEAN
  /\ PromptLen \in [Requests -> Nat]
  /\ MaxTokens \in [Requests -> Nat]
  /\ Impatient \subseteq Requests
  /\ Faults \subseteq FaultKinds

Seqs == 0 .. NSeqMax - 1

VARIABLES
  \* Shared with the callers of Submit, under mu.
  status,     \* [Requests -> {"new", "refused", "accepted"}]
  queue,      \* Engine.queue
  free,       \* Engine.free
  closed,     \* Engine.closed
  signalling, \* callers between the unlock and the signal of Submit
  wake,       \* whether the channel wake (capacity 1) holds a token
  \* The Run goroutine.
  stopped,    \* the context given to Run is done
  pc,         \* where Run is
  active,     \* the map active: [Seqs -> Requests \cup {None}]
  todo,       \* the sequences a range over active has not reached yet
  room,       \* budget - BatchLen()
  cur,        \* the sequence harvest is verifying
  fin,        \* what finish is working on, and where it returns to
  flush,      \* the queued requests drain took out of the queue
  drafting,   \* e.drafter is still set
  \* The slot of a request.
  pos, primed, generated,
  staged,     \* entries of the current batch whose logits are its own
  \* The stream of a request.
  out,        \* the events in the channel
  outClosed,  \* the channel is closed
  cancelled,  \* the caller cancelled (Stream.Close or its own context)
  heard       \* what the caller has received: no final event yet, one, or
              \* the close of the channel after one or without one

shared  == <<status, queue, free, closed, signalling, wake>>
slotVars == <<pos, primed, generated, staged>>
streams == <<out, outClosed, cancelled, heard>>
runVars == <<stopped, pc, active, todo, room, cur, fin, flush, drafting>>
vars    == <<shared, runVars, slotVars, streams>>

NoFin == [req |-> None, seq |-> 0, reason |-> "", ret |-> ""]

Occupied == {q \in Seqs : active[q] # None}
Ended(r) == heard[r] \in {"answered", "unanswered"}
Pending(r) == PromptLen[r] - pos[r]
\* Changed: drafts and prompts ignore what is left of the batch.
SmallerUnbounded(a, b) == a
Smaller(a, b) == IF a < b THEN a ELSE b

-----------------------------------------------------------------------------
(* Callers.                                                                *)

\* Whether the backend tells the context of one sequence.
Windowed == NCtxSeq # 0

\* The room a prompt may take, leaving the rest of the sequence to generate.
PromptBudget(r) ==
  LET window == IF Windowed THEN NCtxSeq ELSE NCtx
      seq == IF AdmitCtx > 0 /\ AdmitCtx < window THEN AdmitCtx ELSE window
      reserve == IF MaxTokens[r] > 0 THEN MaxTokens[r] ELSE OutputReserve
  IN IF reserve >= seq THEN 0 ELSE seq - reserve

Admissible(r) == PromptLen[r] > 0 /\ PromptLen[r] <= PromptBudget(r)
\* Changed: one request too many.
QueueFullLate == MaxQueue > 0 /\ Len(queue) > MaxQueue
QueueFull == MaxQueue > 0 /\ Len(queue) >= MaxQueue

Submit(r) ==
  /\ pc # "admit"
  /\ status[r] = "new"
  /\ IF Admissible(r) /\ ~closed /\ ~QueueFull
     THEN /\ status' = [status EXCEPT ![r] = "accepted"]
          /\ queue' = Append(queue, r)
          /\ signalling' = signalling \cup {r}
     ELSE /\ status' = [status EXCEPT ![r] = "refused"]
          /\ UNCHANGED <<queue, signalling>>
  /\ UNCHANGED <<free, closed, wake, runVars, slotVars, streams>>

\* Changed: without a buffer only a sleeping Run hears the signal.
SignalUnbuffered(r) ==
  /\ r \in signalling
  /\ signalling' = signalling \ {r}
  /\ wake' = (wake \/ pc = "idle")
  /\ UNCHANGED <<status, queue, free, closed, runVars, slotVars, streams>>

Signal(r) ==
  /\ r \in signalling
  /\ signalling' = signalling \ {r}
  /\ wake' = TRUE
  /\ UNCHANGED <<status, queue, free, closed, runVars, slotVars, streams>>

Cancel(r) ==
  /\ r \in Impatient
  /\ status[r] = "accepted" /\ ~cancelled[r] /\ ~Ended(r)
  /\ cancelled' = [cancelled EXCEPT ![r] = TRUE]
  /\ UNCHANGED <<shared, runVars, slotVars, out, outClosed, heard>>

\* Submit has returned the stream, and its caller ranges over Events until it
\* is closed (bufferChat, streamChat).
Receive(r) ==
  /\ r \notin signalling /\ out[r] # <<>>
  /\ out' = [out EXCEPT ![r] = Tail(@)]
  /\ heard' = [heard EXCEPT ![r] = IF Head(out[r]) \in Reasons THEN "final" ELSE @]
  /\ UNCHANGED <<shared, runVars, slotVars, outClosed, cancelled>>

ReceiveClose(r) ==
  /\ r \notin signalling
  /\ outClosed[r] /\ out[r] = <<>> /\ ~Ended(r)
  /\ heard' = [heard EXCEPT ![r] = IF @ = "final" THEN "answered" ELSE "unanswered"]
  /\ UNCHANGED <<shared, runVars, slotVars, out, outClosed, cancelled>>

Stop ==
  /\ ~stopped
  /\ stopped' = TRUE
  /\ UNCHANGED <<shared, pc, active, todo, room, cur, fin, flush, drafting,
                 slotVars, streams>>

-----------------------------------------------------------------------------
(* The Run goroutine: the loop and admission.                              *)

Goto(l) == pc' = l

\* Changed: the context is only looked at while idle.
TopDeaf ==
  /\ pc = "top"
  /\ Goto("admit")
  /\ UNCHANGED <<shared, stopped, active, todo, room, cur, fin, flush, drafting,
                 slotVars, streams>>

Top ==
  /\ pc = "top"
  /\ Goto(IF stopped THEN "drain" ELSE "admit")
  /\ UNCHANGED <<shared, stopped, active, todo, room, cur, fin, flush, drafting,
                 slotVars, streams>>

\* Changed: a cancelled request is dropped and its stream left open.
AdmitDropOpen ==
  /\ pc = "admit" /\ free # <<>> /\ queue # <<>>
  /\ cancelled[Head(queue)]
  /\ queue' = Tail(queue)
  /\ UNCHANGED <<status, free, closed, signalling, wake, runVars, slotVars, streams>>

AdmitDrop ==
  /\ pc = "admit" /\ free # <<>> /\ queue # <<>>
  /\ cancelled[Head(queue)]
  /\ queue' = Tail(queue)
  /\ outClosed' = [outClosed EXCEPT ![Head(queue)] = TRUE]
  /\ UNCHANGED <<status, free, closed, signalling, wake, runVars, slotVars,
                 out, cancelled, heard>>

AdmitTake ==
  /\ pc = "admit" /\ free # <<>> /\ queue # <<>>
  /\ ~cancelled[Head(queue)]
  /\ queue' = Tail(queue)
  /\ free' = Tail(free)
  /\ active' = [active EXCEPT ![Head(free)] = Head(queue)]
  /\ UNCHANGED <<status, closed, signalling, wake, stopped, pc, todo, room, cur,
                 fin, flush, drafting, slotVars, streams>>

\* admit returns and releases mu; until Run looks at active, callers get in.
AdmitEnd ==
  /\ pc = "admit"
  /\ free = <<>> \/ queue = <<>>
  /\ Goto("unlocked")
  /\ UNCHANGED <<shared, stopped, active, todo, room, cur, fin, flush, drafting,
                 slotVars, streams>>

\* A tick with something to run clears the batch and the marks.
TickOrIdle ==
  /\ pc = "unlocked"
  /\ IF Occupied = {}
     THEN /\ Goto("idle")
          /\ UNCHANGED <<todo, room, staged>>
     ELSE /\ Goto("pass1")
          /\ todo' = Occupied
          /\ room' = BatchCap
          /\ staged' = [r \in Requests |-> 0]
  /\ UNCHANGED <<shared, stopped, active, cur, fin, flush, drafting,
                 pos, primed, generated, streams>>

IdleWake ==
  /\ pc = "idle" /\ wake
  /\ wake' = FALSE
  /\ Goto("top")
  /\ UNCHANGED <<status, queue, free, closed, signalling, stopped, active, todo,
                 room, cur, fin, flush, drafting, slotVars, streams>>

IdleStop ==
  /\ pc = "idle" /\ stopped
  /\ Goto("drain")
  /\ UNCHANGED <<shared, stopped, active, todo, room, cur, fin, flush, drafting,
                 slotVars, streams>>

-----------------------------------------------------------------------------
(* tick: stage the running streams, then prefill, then decode.             *)

\* A running stream stages its token and as many drafts as still fit.
StageNext(q) ==
  LET r == active[q] IN
  /\ pc = "pass1" /\ q \in todo /\ room > 0
  /\ primed[r] /\ ~cancelled[r]
  /\ \E drafts \in 0 .. (IF drafting THEN Smaller(MaxDraft, room - 1) ELSE 0) :
       /\ staged' = [staged EXCEPT ![r] = 1 + drafts]
       /\ pos' = [pos EXCEPT ![r] = @ + 1 + drafts]
       /\ room' = room - 1 - drafts
  /\ todo' = todo \ {q}
  /\ UNCHANGED <<shared, stopped, pc, active, cur, fin, flush, drafting,
                 primed, generated, streams>>

SkipNext(q) ==
  /\ pc = "pass1" /\ q \in todo /\ room > 0
  /\ ~primed[active[q]] \/ cancelled[active[q]]
  /\ todo' = todo \ {q}
  /\ UNCHANGED <<shared, stopped, pc, active, room, cur, fin, flush, drafting,
                 slotVars, streams>>

\* Changed: the break of pass 1 does not look at the batch.
Pass1EndEarly ==
  /\ pc = "pass1"
  /\ Goto("pass2")
  /\ todo' = Occupied
  /\ UNCHANGED <<shared, stopped, active, room, cur, fin, flush, drafting,
                 slotVars, streams>>

Pass1End ==
  /\ pc = "pass1"
  /\ todo = {} \/ room = 0
  /\ Goto("pass2")
  /\ todo' = Occupied
  /\ UNCHANGED <<shared, stopped, active, room, cur, fin, flush, drafting,
                 slotVars, streams>>

\* A prompt takes what is left of the batch; its last token carries logits.
StagePrompt(q) ==
  LET r == active[q]
      n == Smaller(Pending(r), room) IN
  /\ pc = "pass2" /\ q \in todo
  /\ ~primed[r] /\ ~cancelled[r]
  /\ pos' = [pos EXCEPT ![r] = @ + n]
  /\ room' = room - n
  /\ IF n = Pending(r)
     THEN /\ primed' = [primed EXCEPT ![r] = TRUE]
          /\ staged' = [staged EXCEPT ![r] = 1]
     ELSE UNCHANGED <<primed, staged>>
  /\ todo' = todo \ {q}
  /\ UNCHANGED <<shared, stopped, pc, active, cur, fin, flush, drafting,
                 generated, streams>>

SkipPrompt(q) ==
  /\ pc = "pass2" /\ q \in todo
  /\ primed[active[q]] \/ cancelled[active[q]]
  /\ todo' = todo \ {q}
  /\ UNCHANGED <<shared, stopped, pc, active, room, cur, fin, flush, drafting,
                 slotVars, streams>>

\* An empty batch is not decoded.
Pass2End ==
  /\ pc = "pass2" /\ todo = {}
  /\ Goto(IF room = BatchCap THEN "harvest" ELSE "decode")
  /\ room' = 0
  /\ UNCHANGED <<shared, stopped, active, todo, cur, fin, flush, drafting,
                 slotVars, streams>>

-----------------------------------------------------------------------------
(* finish: release the sequence, deliver the final event, close.           *)

\* Changed: the slot stays in active while it is finished.
FinishActive(q, reason, ret) ==
  /\ UNCHANGED active
  /\ fin' = [req |-> active[q], seq |-> q, reason |-> reason, ret |-> ret]
  /\ Goto("finish")

\* finish up to its emit, which may block: q leaves active; ret is where Run
\* goes on afterwards.
Finish(q, reason, ret) ==
  /\ active' = [active EXCEPT ![q] = None]
  /\ fin' = [req |-> active[q], seq |-> q, reason |-> reason, ret |-> ret]
  /\ Goto("finish")

\* Changed: a full channel drops the event instead of waiting.
EmitDrop(r, ev) ==
  IF Len(out[r]) < OutCap THEN out' = [out EXCEPT ![r] = Append(@, ev)] ELSE UNCHANGED out

\* The select of emit: a full channel blocks until the caller reads or
\* cancels; when both cases are ready either is taken.
Emit(r, ev) ==
  \/ Len(out[r]) < OutCap /\ out' = [out EXCEPT ![r] = Append(@, ev)]
  \/ cancelled[r] /\ UNCHANGED out

\* Changed: who left without waiting does not give the sequence back.
FinishEndLeaks ==
  /\ pc = "finish"
  /\ Emit(fin.req, fin.reason)
  /\ outClosed' = [outClosed EXCEPT ![fin.req] = TRUE]
  /\ free' = IF cancelled[fin.req] THEN free ELSE Append(free, fin.seq)
  /\ wake' = TRUE
  /\ fin' = NoFin
  /\ Goto(fin.ret)
  /\ pos' = [pos EXCEPT ![fin.req] = 0]
  /\ primed' = [primed EXCEPT ![fin.req] = FALSE]
  /\ generated' = [generated EXCEPT ![fin.req] = 0]
  /\ staged' = [staged EXCEPT ![fin.req] = 0]
  /\ UNCHANGED <<status, queue, closed, signalling, stopped, active, todo, room,
                 cur, flush, drafting, cancelled, heard>>

\* The rest of finish, from emit to signal.
FinishEnd ==
  /\ pc = "finish"
  /\ Emit(fin.req, fin.reason)
  /\ outClosed' = [outClosed EXCEPT ![fin.req] = TRUE]
  /\ free' = Append(free, fin.seq)
  /\ wake' = TRUE
  /\ fin' = NoFin
  /\ Goto(fin.ret)
  \* Nothing refers to the slot any more.
  /\ pos' = [pos EXCEPT ![fin.req] = 0]
  /\ primed' = [primed EXCEPT ![fin.req] = FALSE]
  /\ generated' = [generated EXCEPT ![fin.req] = 0]
  /\ staged' = [staged EXCEPT ![fin.req] = 0]
  /\ UNCHANGED <<status, queue, closed, signalling, stopped, active, todo, room,
                 cur, flush, drafting, cancelled, heard>>

-----------------------------------------------------------------------------
(* Decode and its outcomes.                                                *)

DecodeOk ==
  /\ pc = "decode"
  /\ Goto("harvest")
  /\ todo' = {q \in Occupied : staged[active[q]] > 0}
  /\ UNCHANGED <<shared, stopped, active, room, cur, fin, flush, drafting,
                 slotVars, streams>>

\* ErrNoKVSlot: evictOne finishes a stream that generated the most, and the
\* tick returns without a harvest and without another Decode.
DecodeNoKV(q) ==
  /\ pc = "decode" /\ "nokv" \in Faults
  /\ q \in Occupied
  /\ \A p \in Occupied : generated[active[p]] <= generated[active[q]]
  /\ Finish(q, "context", "top")
  /\ UNCHANGED <<shared, stopped, todo, room, cur, flush, drafting, slotVars,
                 streams>>

DecodeFail ==
  /\ pc = "decode" /\ "decode" \in Faults
  /\ Goto("drain")
  /\ UNCHANGED <<shared, stopped, active, todo, room, cur, fin, flush, drafting,
                 slotVars, streams>>

-----------------------------------------------------------------------------
(* harvest and verify.                                                     *)

HarvestEnd ==
  /\ pc = "harvest" /\ todo = {}
  /\ Goto("top")
  /\ cur' = 0
  /\ UNCHANGED <<shared, stopped, active, todo, room, fin, flush, drafting,
                 slotVars, streams>>

HarvestCancelled(q) ==
  /\ pc = "harvest" /\ q \in todo /\ cancelled[active[q]]
  /\ todo' = todo \ {q}
  /\ Finish(q, "cancel", "harvest")
  /\ UNCHANGED <<shared, stopped, room, cur, flush, drafting, slotVars, streams>>

\* SetSampling refused the request's parameters.
HarvestSampling(q) ==
  /\ pc = "harvest" /\ q \in todo /\ ~cancelled[active[q]]
  /\ "sampling" \in Faults /\ generated[active[q]] = 0
  /\ todo' = todo \ {q}
  /\ Finish(q, "error", "harvest")
  /\ UNCHANGED <<shared, stopped, room, cur, flush, drafting, slotVars, streams>>

HarvestVerify(q) ==
  /\ pc = "harvest" /\ q \in todo /\ ~cancelled[active[q]]
  /\ todo' = todo \ {q}
  /\ cur' = q
  /\ Goto("verify")
  /\ UNCHANGED <<shared, stopped, active, room, fin, flush, drafting, slotVars,
                 streams>>

\* SampleAt or Piece failed.
SampleFail ==
  /\ pc = "verify" /\ "sample" \in Faults
  /\ Finish(cur, "error", "harvest")
  /\ UNCHANGED <<shared, stopped, todo, room, cur, flush, drafting, slotVars,
                 streams>>

\* What harvest does once verify has returned with left positions unaccepted:
\* take their entries back, then end the stream for reason, or keep it.
Settle(left, reason) ==
  LET r == active[cur] IN
  /\ pos' = [pos EXCEPT ![r] = @ - left]
  /\ staged' = [staged EXCEPT ![r] = 0]
  /\ IF left > 0 /\ ~CanTrim
     THEN Finish(cur, "error", "harvest") /\ drafting' = FALSE
     ELSE /\ UNCHANGED drafting
          /\ \/ reason # "none" /\ Finish(cur, reason, "harvest")
             \/ /\ reason = "none" /\ pos[r] - left >= NCtxSeq
                /\ Finish(cur, "context", "harvest")
             \/ /\ reason = "none" /\ pos[r] - left < NCtxSeq
                /\ Goto("harvest") /\ UNCHANGED <<active, fin>>

SampleEOS ==
  /\ pc = "verify"
  /\ Settle(staged[active[cur]] - 1, "stop")
  /\ UNCHANGED <<shared, stopped, todo, room, cur, flush, primed, generated,
                 streams>>

SampleToken ==
  LET r == active[cur] IN
  /\ pc = "verify"
  /\ generated' = [generated EXCEPT ![r] = @ + 1]
  /\ staged' = [staged EXCEPT ![r] = @ - 1]
  /\ Goto("emit")
  /\ UNCHANGED <<shared, stopped, active, todo, room, cur, fin, flush, drafting,
                 pos, primed, streams>>

\* consume holds back an incomplete UTF-8 sequence; otherwise the text goes out.
EmitText ==
  /\ pc = "emit"
  /\ \/ UNCHANGED out
     \/ Emit(active[cur], "text")
  /\ Goto("judge")
  /\ UNCHANGED <<shared, stopped, active, todo, room, cur, fin, flush, drafting,
                 slotVars, outClosed, cancelled, heard>>

\* Changed: the limit is noticed one token late.
LimitReachedLate(r) == MaxTokens[r] > 0 /\ generated[r] > MaxTokens[r]
LimitReached(r) == MaxTokens[r] > 0 /\ generated[r] >= MaxTokens[r]

\* The end of an iteration of verify: a stop sequence, the token limit, a
\* draft the target disagrees with or the last position end it; an accepted
\* draft goes on to the next position.
JudgeStop ==
  /\ pc = "judge"
  /\ Settle(staged[active[cur]], "stop")
  /\ UNCHANGED <<shared, stopped, todo, room, cur, flush, primed, generated,
                 streams>>

JudgeLimit ==
  /\ pc = "judge" /\ LimitReached(active[cur])
  /\ Settle(staged[active[cur]], "length")
  /\ UNCHANGED <<shared, stopped, todo, room, cur, flush, primed, generated,
                 streams>>

JudgeDone ==
  /\ pc = "judge" /\ ~LimitReached(active[cur])
  /\ Settle(staged[active[cur]], "none")
  /\ UNCHANGED <<shared, stopped, todo, room, cur, flush, primed, generated,
                 streams>>

JudgeAccept ==
  /\ pc = "judge" /\ ~LimitReached(active[cur])
  /\ staged[active[cur]] > 0
  /\ Goto("verify")
  /\ UNCHANGED <<shared, stopped, active, todo, room, cur, fin, flush, drafting,
                 slotVars, streams>>

-----------------------------------------------------------------------------
(* drain: end every active stream, then every queued one.                  *)

DrainActive(q) ==
  /\ pc = "drain" /\ q \in Occupied
  /\ Finish(q, "cancel", "drain")
  /\ UNCHANGED <<shared, stopped, todo, room, cur, flush, drafting, slotVars,
                 streams>>

\* Changed: drain leaves admission open.
DrainCloseOpen ==
  /\ pc = "drain" /\ Occupied = {}
  /\ flush' = queue
  /\ queue' = <<>>
  /\ Goto("flush")
  /\ UNCHANGED <<status, free, closed, signalling, wake, stopped, active, todo, room,
                 cur, fin, drafting, slotVars, streams>>

DrainClose ==
  /\ pc = "drain" /\ Occupied = {}
  /\ flush' = queue
  /\ queue' = <<>>
  /\ closed' = TRUE
  /\ Goto("flush")
  /\ UNCHANGED <<status, free, signalling, wake, stopped, active, todo, room,
                 cur, fin, drafting, slotVars, streams>>

FlushOne ==
  /\ pc = "flush" /\ flush # <<>>
  /\ Emit(Head(flush), "cancel")
  /\ outClosed' = [outClosed EXCEPT ![Head(flush)] = TRUE]
  /\ flush' = Tail(flush)
  /\ UNCHANGED <<shared, stopped, pc, active, todo, room, cur, fin, drafting,
                 slotVars, cancelled, heard>>

Exit ==
  /\ pc = "flush" /\ flush = <<>>
  /\ Goto("exit")
  /\ UNCHANGED <<shared, stopped, active, todo, room, cur, fin, flush, drafting,
                 slotVars, streams>>

-----------------------------------------------------------------------------
Init ==
  /\ status = [r \in Requests |-> "new"]
  /\ queue = <<>>
  /\ free = [i \in 1 .. NSeqMax |-> i - 1]
  /\ closed = FALSE /\ signalling = {} /\ wake = FALSE
  /\ stopped = FALSE /\ pc = "top"
  /\ active = [q \in Seqs |-> None]
  /\ todo = {} /\ room = 0 /\ cur = 0 /\ fin = NoFin /\ flush = <<>>
  /\ drafting = (MaxDraft > 0)
  /\ pos = [r \in Requests |-> 0]
  /\ primed = [r \in Requests |-> FALSE]
  /\ generated = [r \in Requests |-> 0]
  /\ staged = [r \in Requests |-> 0]
  /\ out = [r \in Requests |-> <<>>]
  /\ outClosed = [r \in Requests |-> FALSE]
  /\ cancelled = [r \in Requests |-> FALSE]
  /\ heard = [r \in Requests |-> "nothing"]

Loop == Top \/ AdmitDrop \/ AdmitTake \/ AdmitEnd \/ TickOrIdle \/ IdleWake \/ IdleStop
Tick ==
  \/ \E q \in Seqs : StageNext(q) \/ SkipNext(q) \/ StagePrompt(q) \/ SkipPrompt(q)
  \/ Pass1End \/ Pass2End
  \/ DecodeOk \/ (\E q \in Seqs : DecodeNoKV(q)) \/ DecodeFail
Harvest ==
  \/ \E q \in Seqs : HarvestCancelled(q) \/ HarvestSampling(q) \/ HarvestVerify(q)
  \/ SampleFail \/ SampleEOS \/ SampleToken \/ EmitText
  \/ JudgeStop \/ JudgeLimit \/ JudgeDone \/ JudgeAccept
  \/ HarvestEnd
Drain ==
  \/ \E q \in Seqs : DrainActive(q)
  \/ DrainClose \/ FlushOne \/ Exit

Run == Loop \/ Tick \/ Harvest \/ FinishEnd \/ Drain
Caller(r) == Submit(r) \/ Signal(r) \/ Cancel(r) \/ Receive(r) \/ ReceiveClose(r)

\* Run has returned and no caller has anything left to do.
Terminated ==
  /\ pc = "exit" /\ stopped /\ signalling = {}
  /\ \A r \in Requests : status[r] = "refused" \/ Ended(r)
  /\ UNCHANGED vars

Next == Run \/ Stop \/ (\E r \in Requests : Caller(r)) \/ Terminated

Spec == Init /\ [][Next]_vars

\* Run never rests while it has a step; a caller inside Submit goes on to its
\* signal, and then keeps reading its stream, as the handlers of internal/api.
Fairness ==
  /\ WF_vars(Run)
  /\ \A r \in Requests : WF_vars(Signal(r) \/ Receive(r) \/ ReceiveClose(r))

FairSpec == Spec /\ Fairness
-----------------------------------------------------------------------------
(* Properties.                                                             *)

PCs == {"top", "admit", "unlocked", "idle", "pass1", "pass2", "decode", "harvest", "verify",
        "emit", "judge", "finish", "drain", "flush", "exit"}

FinRecords == [req : Requests \cup {None}, seq : Seqs, reason : Reasons \cup {""},
               ret : {"top", "harvest", "drain", ""}]

SharedOK ==
  /\ status \in [Requests -> {"new", "refused", "accepted"}]
  /\ queue \in Seq(Requests)
  /\ free \in Seq(Seqs)
  /\ closed \in BOOLEAN
  /\ signalling \subseteq Requests
  /\ wake \in BOOLEAN

RunOK ==
  /\ stopped \in BOOLEAN
  /\ pc \in PCs
  /\ active \in [Seqs -> Requests \cup {None}]
  /\ todo \subseteq Seqs
  /\ room \in 0 .. BatchCap
  /\ cur \in Seqs
  /\ fin \in FinRecords
  /\ flush \in Seq(Requests)
  /\ drafting \in BOOLEAN

SlotOK ==
  /\ pos \in [Requests -> Nat]
  /\ primed \in [Requests -> BOOLEAN]
  /\ generated \in [Requests -> Nat]
  /\ staged \in [Requests -> Nat]

StreamOK ==
  /\ out \in [Requests -> Seq(Reasons \cup {"text"})]
  /\ outClosed \in [Requests -> BOOLEAN]
  /\ cancelled \in [Requests -> BOOLEAN]
  /\ heard \in [Requests -> {"nothing", "final", "answered", "unanswered"}]

\* The types; room \in 0 .. BatchCap says that a batch is never staged past
\* the capacity of the backend (tick counts drafts and prompts alike).
TypeOK == SharedOK /\ RunOK /\ SlotOK /\ StreamOK

\* Every sequence of the context is free once, or held by one active slot, or
\* held by the slot that finish is releasing: finish and admit neither lose
\* nor duplicate one, so two requests never write the same cells.
SequenceConserved ==
  /\ \A i, j \in DOMAIN free : free[i] = free[j] => i = j
  /\ \A q \in Seqs :
       LET isFree == \E i \in DOMAIN free : free[i] = q
           isHeld == active[q] # None
           isFin  == fin.req # None /\ fin.seq = q
       IN \/ isFree /\ ~isHeld /\ ~isFin
          \/ ~isFree /\ isHeld /\ ~isFin
          \/ ~isFree /\ ~isHeld /\ isFin

\* The places the queue and Run can hold a request in.
Queued(r)    == \E i \in DOMAIN queue : queue[i] = r
Running(r)   == \E q \in Seqs : active[q] = r
Finishing(r) == fin.req = r
Flushing(r)  == \E i \in DOMAIN flush : flush[i] = r

\* An accepted request whose stream is open is in exactly one place, any other
\* in none: its channel is closed once, never sent to after that, and never
\* forgotten open (admit, finish, evictOne and drain hand it on between them).
OneOwner ==
  /\ \A i, j \in DOMAIN queue : queue[i] = queue[j] => i = j
  /\ \A i, j \in DOMAIN flush : flush[i] = flush[j] => i = j
  /\ \A p, q \in Occupied : active[p] = active[q] => p = q
  /\ \A r \in Requests : outClosed[r] => status[r] = "accepted"
  /\ \A r \in Requests :
       IF status[r] = "accepted" /\ ~outClosed[r]
       THEN \/ Queued(r) /\ ~Running(r) /\ ~Finishing(r) /\ ~Flushing(r)
            \/ ~Queued(r) /\ Running(r) /\ ~Finishing(r) /\ ~Flushing(r)
            \/ ~Queued(r) /\ ~Running(r) /\ Finishing(r) /\ ~Flushing(r)
            \/ ~Queued(r) /\ ~Running(r) /\ ~Finishing(r) /\ Flushing(r)
       ELSE ~Queued(r) /\ ~Running(r) /\ ~Finishing(r) /\ ~Flushing(r)

\* A caller that did not cancel is told why before its stream is closed
\* (finish and drain emit the final event, then close).
FinalEventFirst ==
  \A r \in Requests :
    outClosed[r] /\ ~cancelled[r] =>
      heard[r] \in {"final", "answered"} \/ \E i \in DOMAIN out[r] : out[r][i] \in Reasons

\* Run never goes to sleep over a queue that nobody is about to wake it for:
\* Submit appends before it signals, and wake keeps one token for a Run that
\* has released mu and not reached its select.
NoLostWakeup ==
  pc \in {"unlocked", "idle"} /\ Occupied = {} /\ queue # <<>> => wake \/ signalling # {}

\* Once Run has returned no stream is left open and none can be queued: drain
\* closes admission in the critical section that takes the queue.
NobodyLeftBehind ==
  /\ closed => queue = <<>>
  /\ pc = "exit" => \A r \in Requests : status[r] = "accepted" => outClosed[r]

\* A burst of accepted drafts never takes a request past its token limit
\* (verify counts every accepted token before it goes on).
TokenLimit ==
  \A r \in Requests : MaxTokens[r] > 0 => generated[r] <= MaxTokens[r]

\* A request that names a limit never runs out of context while the cache has
\* room for it: promptBudget left it room to finish, unless the backend names
\* no context per sequence (promptBudget then takes the total, verify ends
\* every stream at once).
RoomToFinish ==
  fin.reason = "context" /\ "nokv" \notin Faults /\ Windowed => MaxTokens[fin.req] = 0

\* Prompts only take what the running streams left of the batch: no prompt
\* token is staged in a tick that has not staged every live running stream.
DecodeBeforePrefill ==
  [][\A r \in Requests : ~primed[r] /\ pos'[r] > pos[r] =>
       \A q \in Occupied :
         primed[active[q]] /\ ~cancelled[active[q]] => staged[active[q]] > 0]_vars

\* The engine implements the abstract Admission: first come, first served
\* among the requests still wanted, at most NSeqMax at a time, every accepted
\* request settled once and none started after admission closed.
Fitting == {r \in Requests : Admissible(r)}
Asked   == {r \in Requests : status[r] # "new"}
Serving == {r \in Requests : Running(r) \/ Finishing(r)}
Leaving == {r \in Requests : Flushing(r)}
Settled == {r \in Requests : outClosed[r]}
GaveUp  == {r \in Requests : cancelled[r]}

Promise == INSTANCE Admission WITH
  Capacity <- NSeqMax, Limit <- MaxQueue, Fitting <- Fitting,
  asked <- Asked, waiting <- queue, serving <- Serving, leaving <- Leaving,
  settled <- Settled, gone <- GaveUp, open <- ~closed

ImplementsAdmission == Promise!Spec

\* Every sequence is held by a stream its caller has abandoned.
AllAbandoned == \A q \in Seqs : active[q] # None /\ cancelled[active[q]]

\* Every accepted request is answered unless its own caller cancels, whatever
\* the callers of the others do, with one exception: abandoned slots that are
\* never released (CloseReleasesSlot) may come to hold every sequence for ever.
AcceptedEnds ==
  []<>~AllAbandoned =>
    \A r \in Requests : status[r] = "accepted" ~> (Ended(r) \/ cancelled[r])

\* Stopping Run's context ends Run, whatever it was doing.
StopEnds == stopped ~> (pc = "exit")

\* "Close abandons the stream. The slot is released on the next tick."
CloseReleasesSlot ==
  \A r \in Requests :
    (cancelled[r] /\ Running(r)) ~> ~Running(r)
=============================================================================
