------------------------------- MODULE Service -------------------------------
(***************************************************************************)
(* The running process: serve (cmd/llama-herd/serve.go) loads the models,  *)
(* the Registry (internal/engine/registry.go) runs one engine for each,    *)
(* the handlers of internal/api look an engine up, submit, read the stream *)
(* and answer, and a signal ends it all.                                   *)
(*                                                                         *)
(* The engine is here what Admission promises of it: it queues, serves up  *)
(* to Capacity requests, ends a stream with one final event, and drains    *)
(* when its context is done or a tick fails.  And it may keep for good the *)
(* sequence of a client that left (EngineClose shows how).  A text is the  *)
(* sequence of its pieces, numbered as the engine emits them.              *)
(*                                                                         *)
(* A definition marked "Changed" is the next one with a bug; no action     *)
(* uses it.                                                                *)
(***************************************************************************)
EXTENDS Integers, Sequences, FiniteSets, SequencesExt

CONSTANTS
  Models,     \* the models of the manifest
  Order,      \* the order in which it lists them
  Unknown,    \* a name that is not in it
  Templates,  \* the models with a chat template
  ToolModels, \* the models that can be given tools
  Requests,   \* the requests clients send
  Impatient,  \* those whose clients may leave
  Bodies,     \* [Requests -> what each may ask for]
  StreamCounts, \* the streams a model of the manifest may have
  MaxQueue,   \* max_queue, 0 for no bound
  Pieces,     \* the pieces of the longest answer
  Reasons,    \* why an answer may end
  Faults      \* what may fail in this instance

ASSUME ServiceAssumption ==
  /\ Unknown \notin Models /\ ToSet(Order) = Models /\ IsInjective(Order)
  /\ Templates \subseteq Models /\ ToolModels \subseteq Templates
  /\ Impatient \subseteq Requests
  /\ Bodies \in [Requests -> SUBSET [model : Models \cup {Unknown}, tools : BOOLEAN, sse : BOOLEAN]]
  /\ StreamCounts \subseteq Nat \ {0} /\ MaxQueue \in Nat /\ Pieces \in Nat
  /\ Reasons \subseteq {"eos", "stop", "length", "context"}
  /\ Faults \subseteq {"open", "listen", "decode", "sample", "slow"}

VARIABLES
  main,     \* where serve is
  loaded,   \* how many models are loaded
  nSeqMax,  \* [Models -> the streams of each], as the manifest has it
  runner,   \* [Models -> "none", "open", "closed"]
  ctxDone,  \* the context of NotifyContext is done
  late,     \* Shutdown gave up after its 15 seconds
  srv,      \* the listener: "off", "up", "failed", "lost" (after it was up), "closed"
  loop,     \* the goroutine of Start for each model
  dead,     \* the models whose entry has an err
  h,        \* the handler of each request
  stream    \* the stream the engine holds for it

process == <<main, loaded, nSeqMax, runner, ctxDone, late, srv>>
vars == <<process, loop, dead, h, stream>>

NoStream == [at |-> "none", emitted |-> 0, events |-> <<>>, reason |-> "none"]
NoHandler ==
  [at |-> "idle", model |-> Unknown, tools |-> FALSE, sse |-> FALSE, gone |-> FALSE,
   status |-> 0, held |-> <<>>, sent |-> <<>>,
   reason |-> "eos", errored |-> FALSE, finish |-> "none"]

Init ==
  /\ main = "load" /\ loaded = 0 /\ ctxDone = FALSE /\ late = FALSE /\ srv = "off"
  /\ nSeqMax \in [Models -> StreamCounts]
  /\ runner = [m \in Models |-> "none"]
  /\ loop = [m \in Models |-> "none"] /\ dead = {}
  /\ h = [r \in Requests |-> NoHandler]
  /\ stream = [r \in Requests |-> NoStream]

---------------------------------------------------------------------------
(* serve.                                                                    *)

Alive == main # "exited"

LoadModel ==
  /\ main = "load" /\ loaded < Len(Order)
  /\ loaded' = loaded + 1
  /\ runner' = [runner EXCEPT ![Order[loaded + 1]] = "open"]
  /\ UNCHANGED <<nSeqMax, main, ctxDone, late, srv, loop, dead, h, stream>>

\* OpenRunner fails: what is loaded already is closed again.
LoadFails ==
  /\ main = "load" /\ loaded < Len(Order) /\ "open" \in Faults
  /\ main' = "return"
  /\ UNCHANGED <<nSeqMax, loaded, runner, ctxDone, late, srv, loop, dead, h, stream>>

\* Registry.Start, and then the self-test, whose requests end before it returns.
Start ==
  /\ main = "load" /\ loaded = Len(Order)
  /\ main' = "selftest"
  /\ loop' = [m \in Models |-> "running"]
  /\ UNCHANGED <<nSeqMax, loaded, runner, ctxDone, late, srv, dead, h, stream>>

SelftestEnds ==
  /\ main = "selftest"
  /\ main' = "select"
  /\ srv' \in {"up"} \cup (IF "listen" \in Faults THEN {"failed"} ELSE {})
  /\ UNCHANGED <<nSeqMax, loaded, runner, ctxDone, late, loop, dead, h, stream>>

\* Accept fails for good, with handlers at work and streams running.
ListenerLost ==
  /\ main = "select" /\ srv = "up" /\ "listen" \in Faults
  /\ srv' = "lost"
  /\ UNCHANGED <<nSeqMax, main, loaded, runner, ctxDone, late, loop, dead, h, stream>>

Signal ==
  /\ main \in {"selftest", "select"} /\ ~ctxDone
  /\ ctxDone' = TRUE
  /\ UNCHANGED <<nSeqMax, main, loaded, runner, late, srv, loop, dead, h, stream>>

\* The select at the end of serve: the listener's error, which returns at once,
\* or the signal, which starts Shutdown.  stop() is the first of the deferred
\* calls.
ListenerFailed ==
  /\ main = "select" /\ srv \in {"failed", "lost"}
  /\ main' = "return" /\ ctxDone' = TRUE
  /\ UNCHANGED <<nSeqMax, loaded, runner, late, srv, loop, dead, h, stream>>

Signalled ==
  /\ main = "select" /\ ctxDone
  /\ main' = "shutdown" /\ srv' = "closed"
  /\ UNCHANGED <<nSeqMax, loaded, runner, ctxDone, late, loop, dead, h, stream>>

Handling(r) == h[r].at \notin {"idle", "done"}

\* Shutdown returns when no handler is left, or after its timeout.
ShutdownEnds ==
  /\ main = "shutdown"
  /\ \/ (\A r \in Requests : ~Handling(r)) /\ UNCHANGED late
     \/ "slow" \in Faults /\ late' = TRUE
  /\ main' = "wait"
  /\ UNCHANGED <<nSeqMax, loaded, runner, ctxDone, srv, loop, dead, h, stream>>

\* Changed: serve returns without Registry.Wait.
LoopsEndedUnwaited ==
  /\ main = "wait"
  /\ main' = "return"
  /\ UNCHANGED <<nSeqMax, loaded, runner, ctxDone, late, srv, loop, dead, h, stream>>

\* Registry.Wait.
LoopsEnded ==
  /\ main = "wait" /\ \A m \in Models : loop[m] = "ended"
  /\ main' = "return"
  /\ UNCHANGED <<nSeqMax, loaded, runner, ctxDone, late, srv, loop, dead, h, stream>>

\* The deferred calls close the runners, then the process is gone.
CloseRunners ==
  /\ main = "return" /\ \E m \in Models : runner[m] = "open"
  /\ runner' = [m \in Models |-> IF runner[m] = "open" THEN "closed" ELSE runner[m]]
  /\ UNCHANGED <<nSeqMax, main, loaded, ctxDone, late, srv, loop, dead, h, stream>>

Exit ==
  /\ main = "return" /\ \A m \in Models : runner[m] # "open"
  /\ main' = "exited"
  /\ UNCHANGED <<nSeqMax, loaded, runner, ctxDone, late, srv, loop, dead, h, stream>>

---------------------------------------------------------------------------
(* The engines.                                                              *)

Of(m, at) == {r \in Requests : h[r].model = m /\ stream[r].at \in at}

\* What a stream has of the sequences of its engine: a slot that is decoded, or
\* one that its client left and that no pass of tick looks at any more.
Sequences(m) == Of(m, {"active", "held"})

\* admit: a queued request gets a sequence, or is closed because it was left.
Admit(r) ==
  LET m == h[r].model IN
  /\ Alive /\ stream[r].at = "queued" /\ loop[m] = "running"
  /\ Cardinality(Sequences(m)) < nSeqMax[m]
  /\ stream' = [stream EXCEPT ![r].at = IF h[r].gone THEN "over" ELSE "active"]
  /\ UNCHANGED <<process, loop, dead, h>>

\* emit: into the channel, or nowhere when the client has gone.
Delivered(r, event) ==
  {Append(stream[r].events, event)} \cup {q \in {stream[r].events} : h[r].gone}

Emit(r) ==
  /\ Alive /\ stream[r].at = "active" /\ loop[h[r].model] = "running"
  /\ stream[r].emitted < Pieces
  /\ \E q \in Delivered(r, [kind |-> "text", n |-> stream[r].emitted + 1]) :
       stream' = [stream EXCEPT ![r].emitted = @ + 1, ![r].events = q]
  /\ UNCHANGED <<process, loop, dead, h>>

Final(kind, reason) == [kind |-> kind, reason |-> reason]

\* finish: the last event, and the channel is closed.
Finish(r, kind, reason) ==
  \E q \in Delivered(r, Final(kind, reason)) :
    stream' = [stream EXCEPT ![r].at = "over", ![r].reason = reason, ![r].events = q]

\* The answer ends, or the sampler fails.
EndAnswer(r) ==
  /\ Alive /\ stream[r].at = "active" /\ loop[h[r].model] = "running"
  /\ \E reason \in Reasons, kind \in {"done", "error"} :
       /\ kind = "error" => "sample" \in Faults /\ reason = "eos"
       /\ Finish(r, kind, reason)
  /\ UNCHANGED <<process, loop, dead, h>>

\* harvest finds the context of a slot with logits done.
EndGone(r) ==
  /\ Alive /\ stream[r].at = "active" /\ loop[h[r].model] = "running" /\ h[r].gone
  /\ Finish(r, "done", "cancel")
  /\ UNCHANGED <<process, loop, dead, h>>

\* The context was done before the slot was staged: every pass of tick skips it,
\* harvest never sees it, and its sequence stays taken.
Strand(r) ==
  /\ Alive /\ stream[r].at = "active" /\ loop[h[r].model] = "running" /\ h[r].gone
  /\ stream' = [stream EXCEPT ![r].at = "held"]
  /\ UNCHANGED <<process, loop, dead, h>>

\* evictOne takes such a slot, when the decode of another finds the cache full.
Evict(r) ==
  /\ Alive /\ stream[r].at = "held" /\ loop[h[r].model] = "running"
  /\ "context" \in Reasons /\ Of(h[r].model, {"active"}) # {}
  /\ Finish(r, "done", "context")
  /\ UNCHANGED <<process, loop, dead, h>>

\* A tick fails, or Run sees its context done: from here on it only drains.
Stops(m) ==
  /\ Alive /\ loop[m] = "running"
  /\ \/ ctxDone /\ loop' = [loop EXCEPT ![m] = "stopping"]
     \/ "decode" \in Faults /\ Of(m, {"active"}) # {} /\ loop' = [loop EXCEPT ![m] = "failing"]
  /\ UNCHANGED <<process, dead, h, stream>>

\* drain: every stream it holds ends with the reason of a cancellation, which a
\* client that has gone may not be told, and the engine is closed.
Drain(m) ==
  /\ Alive /\ loop[m] \in {"stopping", "failing"}
  /\ loop' = [loop EXCEPT ![m] = IF @ = "failing" THEN "failed" ELSE "stopped"]
  /\ \E untold \in SUBSET {r \in Requests : h[r].gone} :
       stream' = [r \in Requests |->
         IF r \in Of(m, {"queued", "active", "held"})
         THEN [stream[r] EXCEPT !.at = "over", !.reason = "cancel",
                                !.events = IF r \in untold THEN @
                                           ELSE Append(@, Final("done", "cancel"))]
         ELSE stream[r]]
  /\ UNCHANGED <<process, dead, h>>

\* Run has returned and the goroutine of Start notes why.
RunReturns(m) ==
  /\ Alive /\ loop[m] \in {"stopped", "failed"}
  /\ loop' = [loop EXCEPT ![m] = "ended"]
  /\ dead' = IF loop[m] = "failed" THEN dead \cup {m} ELSE dead
  /\ UNCHANGED <<process, h, stream>>

Closed(m) == loop[m] \in {"stopped", "failed", "ended"}

---------------------------------------------------------------------------
(* The handlers.                                                             *)

Answer(r, status) ==
  h' = [h EXCEPT ![r] = [NoHandler EXCEPT !.at = "done", !.status = status,
                                          !.model = h[r].model, !.gone = h[r].gone]]

\* A listener that is lost takes no connection, but those there are stay open.
Reached == srv \in {"up", "lost"}

\* A request arrives, and chatCompletions decodes it: a body that does not
\* parse, or has no model or no messages, is refused before anything else.
Arrive(r) ==
  /\ Alive /\ Reached /\ h[r].at = "idle"
  /\ \E b \in Bodies[r] :
       h' = [h EXCEPT ![r] = [NoHandler EXCEPT !.at = "lookup", !.model = b.model,
                                               !.tools = b.tools, !.sse = b.sse]]
  /\ UNCHANGED <<process, loop, dead, stream>>

ArriveBad(r) ==
  /\ Alive /\ Reached /\ h[r].at = "idle"
  /\ Answer(r, 400)
  /\ UNCHANGED <<process, loop, dead, stream>>

\* Registry.Get and Registry.Renderer; then the messages are parsed and rendered:
\* content this model cannot take, or a template that fails, is refused, and so
\* are tools it cannot be given.
LookUp(r) ==
  LET m == h[r].model IN
  /\ Alive /\ h[r].at = "lookup"
  /\ IF m \notin Models THEN Answer(r, 404)
     ELSE IF m \in dead THEN Answer(r, 503)
     ELSE \/ Answer(r, 400)
          \/ /\ m \in Templates /\ (h[r].tools => m \in ToolModels)
             /\ h' = [h EXCEPT ![r].at = "submit"]
  /\ UNCHANGED <<process, loop, dead, stream>>

\* Changed: an engine that is closed takes requests.
SubmitOpen(r) ==
  LET m == h[r].model IN
  /\ Alive /\ h[r].at = "submit"
  /\ IF MaxQueue > 0 /\ Cardinality(Of(m, {"queued"})) >= MaxQueue
     THEN Answer(r, 429) /\ UNCHANGED stream
     ELSE /\ h' = [h EXCEPT ![r].at = "read"]
          /\ stream' = [stream EXCEPT ![r].at = "queued"]
  /\ UNCHANGED <<process, loop, dead>>

\* Submit refuses a closed engine and a full queue, and what it cannot admit.
Submit(r) ==
  LET m == h[r].model
      full == MaxQueue > 0 /\ Cardinality(Of(m, {"queued"})) >= MaxQueue
  IN
  /\ Alive /\ h[r].at = "submit"
  /\ \/ Answer(r, 400) /\ UNCHANGED stream
     \/ ~Closed(m) /\ full /\ Answer(r, 429) /\ UNCHANGED stream
     \/ /\ ~Closed(m) /\ ~full
        /\ h' = [h EXCEPT ![r].at = "read"]
        /\ stream' = [stream EXCEPT ![r].at = "queued"]
  /\ UNCHANGED <<process, loop, dead>>

\* The text of a piece goes out at once, or is held for the whole answer.
HearText(r, n) ==
  h' = IF h[r].sse /\ ~h[r].tools THEN [h EXCEPT ![r].sent = Append(@, n)]
       ELSE [h EXCEPT ![r].held = Append(@, n)]

\* The next event of the stream.  An error ends a buffered answer with a 500;
\* in a stream the status is long gone, and it rides the stream.
Hear(r) ==
  /\ Alive /\ h[r].at = "read" /\ stream[r].events # <<>>
  /\ LET ev == Head(stream[r].events) IN
     CASE ev.kind = "text" -> HearText(r, ev.n)
       [] ev.kind = "done" -> h' = [h EXCEPT ![r].reason = ev.reason]
       [] ev.kind = "error" /\ h[r].sse -> h' = [h EXCEPT ![r].at = "reply", ![r].errored = TRUE]
       [] OTHER -> Answer(r, 500)
  /\ stream' = [stream EXCEPT ![r].events = Tail(@)]
  /\ UNCHANGED <<process, loop, dead>>

\* The channel is closed and empty.
HearEnd(r) ==
  /\ Alive /\ h[r].at = "read" /\ stream[r].events = <<>> /\ stream[r].at = "over"
  /\ h' = [h EXCEPT ![r].at = "reply"]
  /\ UNCHANGED <<process, loop, dead, stream>>

\* Changed: a full context reads as a complete answer.
FinishReasonFull(reason) == IF reason = "length" THEN "length" ELSE "stop"

FinishReason(reason) == IF reason \in {"length", "context"} THEN "length" ELSE "stop"

\* What parseToolCalls may find: without tools nothing, with tools calls (from
\* the library, or from the format the template documents), none, or an error.
Parsed(r) == IF h[r].tools THEN {"calls", "none", "failed"} ELSE {"none"}

\* Changed: what was held is lost when the parse fails.
ReplyDropped(r) ==
  /\ Alive /\ h[r].at = "reply"
  /\ \E found \in Parsed(r) :
       h' = [h EXCEPT ![r].at = "done", ![r].status = 200,
                      ![r].finish = IF found = "calls" THEN "tool_calls"
                                    ELSE FinishReason(h[r].reason),
                      ![r].sent = IF found # "none" THEN @ ELSE @ \o h[r].held, ![r].held = <<>>]
  /\ UNCHANGED <<process, loop, dead, stream>>

\* The end of bufferChat and of streamChat: the calls, or all that was held.
Reply(r) ==
  /\ Alive /\ h[r].at = "reply"
  /\ \E found \in Parsed(r) :
       h' = [h EXCEPT ![r].at = "done", ![r].status = 200,
                      ![r].finish = IF found = "calls" THEN "tool_calls"
                                    ELSE FinishReason(h[r].reason),
                      ![r].sent = IF found = "calls" THEN @ ELSE @ \o h[r].held, ![r].held = <<>>]
  /\ UNCHANGED <<process, loop, dead, stream>>

\* The client hangs up, which ends the context the engine has of it.  (When the
\* handler is done and closes its stream, the stream is over.)
Leave(r) ==
  /\ Alive /\ ~h[r].gone /\ r \in Impatient /\ h[r].at = "read"
  /\ h' = [h EXCEPT ![r].gone = TRUE]
  /\ UNCHANGED <<process, loop, dead, stream>>

---------------------------------------------------------------------------

Serve == \/ LoadModel \/ LoadFails \/ Start \/ SelftestEnds \/ ListenerFailed \/ Signalled
         \/ ShutdownEnds \/ LoopsEnded \/ CloseRunners \/ Exit
Engine(m) == Stops(m) \/ Drain(m) \/ RunReturns(m)
Answering(r) == Admit(r) \/ Emit(r) \/ EndAnswer(r) \/ EndGone(r) \/ Strand(r) \/ Evict(r)
Handler(r) == LookUp(r) \/ Submit(r) \/ Hear(r) \/ HearEnd(r) \/ Reply(r)

Terminated == main = "exited" /\ UNCHANGED vars

Next ==
  \/ Serve \/ Signal \/ ListenerLost \/ Terminated
  \/ \E m \in Models : Engine(m)
  \/ \E r \in Requests : Answering(r) \/ Handler(r) \/ Arrive(r) \/ ArriveBad(r) \/ Leave(r)

\* Goroutines run; the engine admits, in the order of its queue, and is done with
\* a slot, because its limit or its window ends, or its client has left.  That it
\* gives the sequence back is not assumed.
Fairness ==
  /\ WF_vars(Serve)
  /\ \A m \in Models : WF_vars(Drain(m) \/ RunReturns(m) \/ (ctxDone /\ Stops(m)))
  /\ \A r \in Requests : /\ WF_vars(Handler(r))
                         /\ SF_vars(Admit(r))
                         /\ WF_vars(EndAnswer(r) \/ EndGone(r) \/ Strand(r))

Spec == Init /\ [][Next]_vars /\ Fairness

---------------------------------------------------------------------------
(* Properties.                                                               *)

\* What the engine emitted reaches a client that stayed, whole and once
\* (server.go:487-618): held back for tools or buffered, released when a parse
\* fails or finds nothing, and after an error at least all that came before it.
WholeText ==
  \A r \in Requests :
    h[r].at = "done" /\ h[r].status = 200 /\ h[r].finish # "tool_calls" /\ ~h[r].gone =>
      h[r].sent = [i \in 1 .. stream[r].emitted |-> i]

\* A finish reason of "stop" tells a client that stayed that the model ended its
\* answer, unless its engine is gone or the stream carried an error
\* (server.go:626-637): drain and a cancellation share a reason.
StopMeansEnded ==
  \A r \in Requests : h[r].at = "done" /\ h[r].status = 200 =>
    /\ h[r].finish = "length" => stream[r].reason \in {"length", "context"}
    /\ h[r].finish = "stop" =>
         \/ stream[r].reason \in {"eos", "stop"}
         \/ h[r].gone \/ h[r].errored \/ Closed(h[r].model)

\* A runner is closed only when its loop holds no request, and, unless Shutdown
\* ran out of time, when no handler can ask it to render or parse
\* (serve.go:172-176, 399-402): on a signal, on a load that failed and on a
\* listener that never came up.  A listener that is lost is ClosedWhenIdle's.
RunnerOutlivesUse ==
  srv # "lost" => \A m \in Models : runner[m] = "closed" =>
    /\ Sequences(m) = {} \/ Closed(m)
    /\ ~late => \A r \in Requests : h[r].model = m => ~Handling(r)

\* The loop is the only goroutine that touches the backend (engine.go:332-333),
\* so nobody closes a runner while its loop has streams to decode.  The return
\* on a listener's error does, after a listener that was up (serve.go:390-393).
ClosedWhenIdle ==
  \A m \in Models : runner[m] = "closed" => Sequences(m) = {} \/ Closed(m)

\* Clients that left have all the sequences of a model.
Abandoned(m) == Cardinality(Of(m, {"held"})) = nSeqMax[m]

\* Nobody hangs: a request that arrived is answered, also when its engine dies
\* between any two steps of its handler (registry.go:25-27), unless its client
\* left, the sequences of its model all stay with clients that left, or the
\* process is gone first; and a signal ends the process, whoever left.
ServiceAnswers ==
  /\ \A r \in Requests :
       []<>(~\E m \in Models : h[r].model = m /\ Abandoned(m)) =>
         (Handling(r) ~> (~Handling(r) \/ h[r].gone \/ main = "exited"))
  /\ ctxDone ~> main = "exited"
=============================================================================
