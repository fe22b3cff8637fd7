---------------------------- MODULE ServiceProofs -----------------------------
(***************************************************************************)
(* What Service keeps, for every set of models, requests and bodies, every *)
(* length of an answer and every fault: the text a client that stays gets, *)
(* the finish reason it is told, and the order in which serve takes things *)
(* down.                                                                   *)
(*                                                                         *)
(* The invariant has one part for the process (Stage) and one for each     *)
(* request (Sound), which is a relation between the record of its handler  *)
(* and the record of its stream: Traced of every client, Exact of one that *)
(* stays, from whom no event is kept.  A step of the engine or a handler   *)
(* changes the records of one request, and Drain those of one model.       *)
(***************************************************************************)
EXTENDS Service, SequenceTheorems, TLAPS

---------------------------------------------------------------------------
(* The invariant.                                                            *)

Causes == {"eos", "stop", "length", "context", "cancel"}

Event == [kind : {"text"}, n : Nat] \cup [kind : {"done", "error"}, reason : Causes]

HandlerRecord ==
  [at : {"idle", "lookup", "submit", "read", "reply", "done"}, model : Models \cup {Unknown},
   tools : BOOLEAN, sse : BOOLEAN, gone : BOOLEAN, status : Nat, held : Seq(Nat),
   sent : Seq(Nat), reason : Causes, errored : BOOLEAN,
   finish : {"none", "stop", "length", "tool_calls"}]

StreamRecord ==
  [at : {"none", "queued", "active", "held", "over"}, emitted : Nat, events : Seq(Event),
   reason : Causes \cup {"none"}]

Types ==
  /\ main \in {"load", "selftest", "select", "shutdown", "wait", "return", "exited"}
  /\ loaded \in 0 .. Len(Order)
  /\ runner \in [Models -> {"none", "open", "closed"}]
  /\ ctxDone \in BOOLEAN /\ late \in BOOLEAN
  /\ srv \in {"off", "up", "failed", "lost", "closed"}
  /\ loop \in [Models -> {"none", "running", "stopping", "failing", "stopped", "failed", "ended"}]
  /\ dead \subseteq Models
  /\ h \in [Requests -> HandlerRecord]
  /\ stream \in [Requests -> StreamRecord]

\* Where serve is says what can still be going on.
Stage ==
  /\ main \in {"load", "selftest"} => srv = "off"
  /\ main = "select" => srv \in {"up", "failed", "lost"}
  /\ main \in {"shutdown", "wait"} => srv = "closed"
  /\ srv \in {"off", "failed"} => \A r \in Requests : h[r].at = "idle"
  /\ main = "wait" => late \/ \A r \in Requests : ~Handling(r)
  /\ main \in {"return", "exited"} =>
       \/ srv \in {"off", "failed", "lost"}
       \/ /\ srv = "closed"
          /\ \A m \in Models : loop[m] = "ended"
          /\ late \/ \A r \in Requests : ~Handling(r)
  /\ \A m \in Models : runner[m] = "closed" => main \in {"return", "exited"}

\* The pieces a handler has of an answer, in the field it collects them in.
Streams(x) == x.sse /\ ~x.tools
Heard(x) == IF Streams(x) THEN x.sent ELSE x.held
Other(x) == IF Streams(x) THEN x.held ELSE x.sent

Numbered(q) == \A i \in 1 .. Len(q) : q[i] = i

IsText(e) == e.kind = "text"

\* The events still in the channel go on where the handler is: the text, in
\* order, and then at most one final event, which ends the stream.
Continues(x, s) ==
  \A i \in 1 .. Len(s.events) :
    \/ /\ IsText(s.events[i])
       /\ s.events[i].n = Len(Heard(x)) + i
    \/ /\ s.events[i].kind \in {"done", "error"}
       /\ i = Len(s.events) /\ s.at = "over"
       /\ s.events[i].reason = s.reason

\* The text emitted is the text heard and the text in the channel.
Accounted(x, s) ==
  s.emitted = Len(Heard(x)) +
    (IF s.events = <<>> THEN 0
     ELSE IF IsText(s.events[Len(s.events)]) THEN Len(s.events) ELSE Len(s.events) - 1)

\* What the handler knows of why an answer ended, once it has read all of it.
Learnt(x, s) == x.reason = s.reason \/ x.errored \/ x.gone

\* What a handler has of its stream, whatever its client does.
Traced(x, s) ==
  /\ x.at \in {"idle", "lookup", "submit"} =>
       s = NoStream /\ x.held = <<>> /\ x.sent = <<>> /\ x.reason = "eos"
  /\ x.at = "submit" => x.model \in Models
  /\ x.at = "read" =>
       /\ x.model \in Models /\ s.at # "none"
       /\ \A i \in 1 .. Len(s.events) :
            IsText(s.events[i]) \/ (s.at = "over" /\ s.events[i].reason = s.reason)
       /\ s.at = "queued" => s.events = <<>>
       /\ s.at # "over" => x.reason = "eos" /\ s.reason = "none"
  /\ x.at = "reply" => x.model \in Models /\ s.at = "over"
  /\ x.at \in {"read", "reply"} => x.reason = "eos" \/ x.reason = s.reason
  /\ x.at = "done" =>
       /\ s.at \in {"none", "over"}
       /\ x.status = 200 =>
            /\ x.model \in Models /\ s.at = "over"
            /\ x.finish = "length" => s.reason \in {"length", "context"}

\* And what it has of it for a client that stays.
Exact(x, s) ==
  /\ x.at = "read" =>
       /\ Numbered(Heard(x)) /\ Other(x) = <<>>
       /\ Continues(x, s) /\ Accounted(x, s)
       /\ s.at = "over" =>
            IF s.events = <<>> THEN Learnt(x, s)
            ELSE ~IsText(s.events[Len(s.events)])
  /\ x.at = "reply" =>
       /\ Numbered(Heard(x)) /\ Other(x) = <<>> /\ s.emitted = Len(Heard(x))
       /\ Learnt(x, s)
  /\ x.at = "done" /\ x.status = 200 =>
       /\ x.finish # "tool_calls" => Numbered(x.sent) /\ Len(x.sent) = s.emitted
       /\ x.finish = "stop" => s.reason \in {"eos", "stop", "cancel"} \/ x.errored

Sound(x, s) == Traced(x, s) /\ (x.gone \/ Exact(x, s))

\* An answer is cut short for a client that left or because the engine closed.
CutFor(x, s) == s.reason = "cancel" => x.gone \/ (x.model \in Models /\ Closed(x.model))

Inv ==
  /\ Types /\ Stage
  /\ \A r \in Requests : Sound(h[r], stream[r]) /\ CutFor(h[r], stream[r])

---------------------------------------------------------------------------
(* The records of one request.                                               *)

\* A stream that the engine still holds has a handler that reads it, and no
\* final event in its channel.
LEMMA Running ==
  ASSUME NEW x \in HandlerRecord, NEW s \in StreamRecord, Traced(x, s),
         s.at \in {"queued", "active", "held"}
  PROVE  /\ x.at = "read" /\ x.reason = "eos" /\ s.reason = "none" /\ x.model \in Models
         /\ \A i \in 1 .. Len(s.events) : IsText(s.events[i])
<1>1. x.at \in {"idle", "lookup", "submit"} => s.at = "none"
  BY DEF Traced, NoStream
<1>2. x.at = "read"
  BY <1>1 DEF Traced, HandlerRecord
<1> QED  BY <1>2 DEF Traced

\* And for a client that stays, the pieces in it go on where the handler is.
LEMMA RunningExact ==
  ASSUME NEW x \in HandlerRecord, NEW s \in StreamRecord, Traced(x, s), Exact(x, s),
         s.at \in {"queued", "active", "held"}
  PROVE  /\ \A i \in 1 .. Len(s.events) : s.events[i].n = Len(Heard(x)) + i
         /\ s.emitted = Len(Heard(x)) + Len(s.events)
<1>1. x.at = "read" /\ \A i \in 1 .. Len(s.events) : IsText(s.events[i])
  BY Running
<1>2. \A i \in 1 .. Len(s.events) : s.events[i].n = Len(Heard(x)) + i
  BY <1>1 DEF Exact, Continues
<1>3. s.events # <<>> => Len(s.events) \in 1 .. Len(s.events)
  BY DEF StreamRecord
<1>4. s.events = <<>> => Len(s.events) = 0
  OBVIOUS
<1>5. Len(Heard(x)) \in Nat
  BY DEF Heard, HandlerRecord
<1>6. s.emitted = Len(Heard(x)) + Len(s.events)
  BY <1>1, <1>3, <1>4, <1>5 DEF Exact, Accounted
<1> QED  BY <1>2, <1>6

\* One event more in a channel.
LEMMA OneMore ==
  ASSUME NEW q \in Seq(Event), NEW e \in Event
  PROVE  /\ Append(q, e) \in Seq(Event) /\ Append(q, e) # <<>>
         /\ Len(q) \in Nat /\ Len(Append(q, e)) = Len(q) + 1
         /\ Append(q, e)[Len(q) + 1] = e
         /\ \A i \in 1 .. Len(q) : Append(q, e)[i] = q[i]
         /\ \A i \in 1 .. Len(q) + 1 : i \in 1 .. Len(q) \/ i = Len(q) + 1
<1>1. /\ Append(q, e) \in Seq(Event) /\ Len(q) \in Nat /\ Len(Append(q, e)) = Len(q) + 1
      /\ Append(q, e)[Len(q) + 1] = e
      /\ \A i \in 1 .. Len(q) : Append(q, e)[i] = q[i]
      /\ Append(q, e) # <<>>
  BY AppendProperties, LenProperties
<1> DEFINE c == Len(q)
<1> HIDE DEF c
<1>a. c \in Nat
  BY <1>1 DEF c
<1>b. \A i \in 1 .. c + 1 : i \in 1 .. c \/ i = c + 1
  BY ONLY <1>a
<1>3. \A i \in 1 .. Len(q) + 1 : i \in 1 .. Len(q) \/ i = Len(q) + 1
  BY <1>b DEF c
<1> QED  BY <1>1, <1>3

\* What may be in the channel after an event, as Delivered says.
Reaches(x, s, event, q) == q = Append(s.events, event) \/ (x.gone /\ q = s.events)

\* The stream after a piece and after a final event.
Longer(s, q) == [s EXCEPT !.emitted = @ + 1, !.events = q]
Ended(s, reason, q) == [s EXCEPT !.at = "over", !.reason = reason, !.events = q]

\* Emit: one more piece, numbered after all the others.
LEMMA EmitSound ==
  ASSUME NEW x \in HandlerRecord, NEW s \in StreamRecord, Sound(x, s), s.at = "active",
         NEW e, e = [kind |-> "text", n |-> s.emitted + 1],
         NEW q, Reaches(x, s, e, q), NEW t, t = Longer(s, q)
  PROVE  t \in StreamRecord /\ Sound(x, t) /\ t.reason = s.reason
<1>1. /\ x.at = "read" /\ x.reason = "eos" /\ s.reason = "none" /\ x.model \in Models
      /\ \A i \in 1 .. Len(s.events) : IsText(s.events[i])
  BY Running DEF Sound
<1>2. /\ e \in Event /\ IsText(e) /\ e.n = s.emitted + 1
      /\ s.emitted \in Nat /\ s.events \in Seq(Event)
  BY DEF Event, IsText, StreamRecord
<1>a. s.emitted + 1 \in Nat
  BY <1>2
<1>b. q \in Seq(Event)
  BY <1>2, OneMore DEF Reaches
<1>3. q \in Seq(Event) /\ s.emitted + 1 \in Nat
  BY <1>a, <1>b
<1>4. /\ t.at = "active" /\ t.reason = s.reason /\ t.emitted = s.emitted + 1 /\ t.events = q
      /\ t \in StreamRecord
  BY <1>3 DEF StreamRecord, Longer
<1>5. \A i \in 1 .. Len(q) : IsText(q[i])
  <2>1. CASE q = s.events
    BY <1>1, <2>1
  <2>2. CASE q = Append(s.events, e)
    BY <1>1, <1>2, <2>2, OneMore
  <2> QED  BY <2>1, <2>2 DEF Reaches
<1>6. Traced(x, t)
  BY <1>1, <1>4, <1>5 DEF Traced
<1>7. ASSUME ~x.gone PROVE Exact(x, t)
  <2>1. q = Append(s.events, e) /\ Exact(x, s)
    BY <1>7 DEF Reaches, Sound
  <2>2. /\ \A i \in 1 .. Len(s.events) : s.events[i].n = Len(Heard(x)) + i
        /\ s.emitted = Len(Heard(x)) + Len(s.events)
    BY <2>1, RunningExact DEF Sound
  <2>3. Len(Heard(x)) \in Nat
    BY DEF Heard, HandlerRecord
  <2>4. /\ Len(q) = Len(s.events) + 1 /\ Len(s.events) \in Nat /\ q # <<>>
        /\ q[Len(q)] = e
        /\ \A i \in 1 .. Len(s.events) : q[i] = s.events[i]
        /\ \A i \in 1 .. Len(q) : i \in 1 .. Len(s.events) \/ i = Len(q)
    BY <1>2, <2>1, OneMore
  <2>5. Accounted(x, t)
    BY <1>2, <1>4, <2>2, <2>3, <2>4 DEF Accounted
  <2>6. \A i \in 1 .. Len(q) : q[i].n = Len(Heard(x)) + i
    <3> SUFFICES ASSUME NEW i \in 1 .. Len(q) PROVE q[i].n = Len(Heard(x)) + i
      OBVIOUS
    <3>1. CASE i \in 1 .. Len(s.events)
      BY <3>1, <2>2, <2>4
    <3>2. CASE i = Len(q)
      BY <3>2, <1>2, <2>2, <2>3, <2>4
    <3> QED  BY <3>1, <3>2, <2>4
  <2>7. Continues(x, t)
    BY <1>4, <1>5, <2>6 DEF Continues
  <2> QED  BY <1>1, <1>4, <2>1, <2>5, <2>7 DEF Exact
<1> QED  BY <1>4, <1>6, <1>7 DEF Sound

\* finish and drain: one final event, and the stream is over.
LEMMA EndSound ==
  ASSUME NEW x \in HandlerRecord, NEW s \in StreamRecord, Sound(x, s),
         s.at \in {"queued", "active", "held"},
         NEW kind \in {"done", "error"}, NEW reason \in Causes,
         NEW q, Reaches(x, s, Final(kind, reason), q), NEW t, t = Ended(s, reason, q)
  PROVE  t \in StreamRecord /\ Sound(x, t) /\ t.reason = reason
<1> DEFINE e == Final(kind, reason)
<1>1. /\ x.at = "read" /\ x.reason = "eos" /\ s.reason = "none" /\ x.model \in Models
      /\ \A i \in 1 .. Len(s.events) : IsText(s.events[i])
  BY Running DEF Sound
<1>2. /\ e \in Event /\ ~IsText(e) /\ e.kind \in {"done", "error"} /\ e.reason = reason
      /\ s.emitted \in Nat /\ s.events \in Seq(Event)
  BY DEF Event, IsText, StreamRecord, Final
<1>a. Reaches(x, s, e, q)
  OBVIOUS
<1> HIDE DEF e
<1>3. q \in Seq(Event)
  BY <1>2, <1>a, OneMore DEF Reaches
<1>4. /\ t.at = "over" /\ t.reason = reason /\ t.emitted = s.emitted /\ t.events = q
      /\ t \in StreamRecord
  BY <1>3 DEF StreamRecord, Ended
<1>5. \A i \in 1 .. Len(q) : IsText(q[i]) \/ q[i].reason = reason
  <2>1. CASE q = s.events
    BY <1>1, <2>1
  <2>2. CASE q = Append(s.events, e)
    BY <1>1, <1>2, <2>2, OneMore
  <2> QED  BY <1>a, <2>1, <2>2 DEF Reaches
<1>6. Traced(x, t)
  BY <1>1, <1>4, <1>5 DEF Traced
<1>7. ASSUME ~x.gone PROVE Exact(x, t)
  <2>1. q = Append(s.events, e) /\ Exact(x, s)
    BY <1>a, <1>7 DEF Reaches, Sound
  <2>2. /\ \A i \in 1 .. Len(s.events) : s.events[i].n = Len(Heard(x)) + i
        /\ s.emitted = Len(Heard(x)) + Len(s.events)
    BY <2>1, RunningExact DEF Sound
  <2>3. Len(Heard(x)) \in Nat
    BY DEF Heard, HandlerRecord
  <2>4. /\ Len(q) = Len(s.events) + 1 /\ Len(s.events) \in Nat /\ q # <<>>
        /\ q[Len(q)] = e
        /\ \A i \in 1 .. Len(s.events) : q[i] = s.events[i]
        /\ \A i \in 1 .. Len(q) : i \in 1 .. Len(s.events) \/ i = Len(q)
    BY <1>2, <2>1, OneMore
  <2>a. /\ t.events # <<>> /\ ~IsText(t.events[Len(t.events)])
        /\ Len(t.events) - 1 = Len(s.events) /\ t.emitted = s.emitted
    BY <1>2, <1>4, <2>4
  <2>5. Accounted(x, t)
    BY <2>2, <2>a DEF Accounted
  <2>6. Continues(x, t)
    <3> SUFFICES ASSUME NEW i \in 1 .. Len(q)
                 PROVE  \/ IsText(q[i]) /\ q[i].n = Len(Heard(x)) + i
                        \/ /\ q[i].kind \in {"done", "error"}
                           /\ i = Len(q) /\ q[i].reason = reason
      BY <1>4 DEF Continues
    <3>1. CASE i \in 1 .. Len(s.events)
      BY <3>1, <1>1, <2>2, <2>4
    <3>2. CASE i = Len(q)
      BY <3>2, <1>2, <2>4
    <3> QED  BY <3>1, <3>2, <2>4
  <2> QED  BY <1>1, <1>2, <1>4, <2>1, <2>4, <2>5, <2>6 DEF Exact
<1> QED  BY <1>4, <1>6, <1>7 DEF Sound

\* Admit and Strand: the request runs, or the caller has left and the channel is
\* closed, or its sequence is forgotten.
LEMMA MovedSound ==
  ASSUME NEW x \in HandlerRecord, NEW s \in StreamRecord, Sound(x, s),
         s.at \in {"queued", "active"},
         NEW a \in {"active", "held", "over"}, a # "active" => x.gone,
         NEW t, t = [s EXCEPT !.at = a]
  PROVE  t \in StreamRecord /\ Sound(x, t) /\ t.reason = "none"
<1>1. /\ x.at = "read" /\ x.reason = "eos" /\ s.reason = "none" /\ x.model \in Models
      /\ \A i \in 1 .. Len(s.events) : IsText(s.events[i])
  BY Running DEF Sound
<1>2. /\ t \in StreamRecord /\ t.emitted = s.emitted /\ t.events = s.events /\ t.reason = s.reason
      /\ t.at = a
  BY DEF StreamRecord
<1>3. Traced(x, t)
  BY <1>1, <1>2 DEF Traced
<1>4. ASSUME ~x.gone PROVE Exact(x, t)
  <2>1. Exact(x, s) /\ t.at = "active"
    BY <1>2, <1>4 DEF Sound
  <2>2. \A i \in 1 .. Len(t.events) : IsText(t.events[i]) /\ t.events[i].n = Len(Heard(x)) + i
    BY <1>1, <1>2, <2>1, RunningExact DEF Sound
  <2>3. Accounted(x, t) /\ Continues(x, t)
    BY <1>1, <1>2, <2>1, <2>2 DEF Exact, Accounted, Continues
  <2> QED  BY <1>1, <2>1, <2>3 DEF Exact
<1> QED  BY <1>1, <1>2, <1>3, <1>4 DEF Sound

\* The stream without its next event, which is there.
Shorter(s) == [s EXCEPT !.events = Tail(@)]

LEMMA NextEvent ==
  ASSUME NEW s \in StreamRecord, s.events # <<>>, NEW t, t = Shorter(s)
  PROVE  /\ t \in StreamRecord /\ t.at = s.at /\ t.reason = s.reason /\ t.emitted = s.emitted
         /\ t.events = Tail(s.events)
         /\ Len(s.events) \in Nat \ {0} /\ Len(t.events) = Len(s.events) - 1
         /\ \A i \in 1 .. Len(t.events) : t.events[i] = s.events[i + 1]
         /\ Head(s.events) = s.events[1] /\ Head(s.events) \in Event
<1>1. s.events \in Seq(Event)
  BY DEF StreamRecord
<1> DEFINE q == s.events
<1>2. /\ Tail(q) \in Seq(Event) /\ Len(q) \in Nat \ {0} /\ Len(Tail(q)) = Len(q) - 1
      /\ \A i \in 1 .. Len(Tail(q)) : Tail(q)[i] = q[i + 1]
      /\ Head(q) = q[1] /\ Head(q) \in Event
  <2> HIDE DEF q
  <2>1. q \in Seq(Event) /\ q # <<>>
    BY <1>1 DEF q
  <2> QED  BY <2>1
<1>3. /\ t \in StreamRecord /\ t.at = s.at /\ t.reason = s.reason /\ t.emitted = s.emitted
      /\ t.events = Tail(s.events)
  <2> DEFINE u == Tail(s.events)
  <2> HIDE DEF u
  <2>1. u \in Seq(Event) /\ t = [s EXCEPT !.events = u]
    BY <1>2 DEF u, Shorter
  <2>2. /\ t \in StreamRecord /\ t.at = s.at /\ t.reason = s.reason /\ t.emitted = s.emitted
        /\ t.events = u
    BY <2>1 DEF StreamRecord
  <2> QED  BY <2>2 DEF u
<1> QED  BY <1>2, <1>3

\* Places and numbers when the first of several events is taken.
LEMMA Shifted ==
  ASSUME NEW a \in Nat, NEW c \in Nat, NEW i \in Nat
  PROVE  a + (i + 1) = (a + 1) + i /\ (i + 1 = c => i = c - 1)
OBVIOUS

\* An empty channel.
LEMMA EmptyIs ==
  ASSUME NEW S, NEW q \in Seq(S)
  PROVE  q = <<>> <=> Len(q) = 0
OBVIOUS

\* HearText: the piece goes behind those the handler has.
LEMMA HearTextField ==
  ASSUME NEW x \in HandlerRecord, NEW n \in Nat,
         NEW y, y = IF Streams(x) THEN [x EXCEPT !.sent = Append(@, n)]
                    ELSE [x EXCEPT !.held = Append(@, n)]
  PROVE  /\ y \in HandlerRecord /\ y.at = x.at /\ y.model = x.model /\ y.reason = x.reason
         /\ y.gone = x.gone /\ y.errored = x.errored
         /\ Heard(y) = Append(Heard(x), n) /\ Other(y) = Other(x)
<1>1. x.sent \in Seq(Nat) /\ x.held \in Seq(Nat)
  BY DEF HandlerRecord
<1>2. Append(x.sent, n) \in Seq(Nat) /\ Append(x.held, n) \in Seq(Nat)
  BY <1>1
<1>3. CASE Streams(x)
  <2> DEFINE u == Append(x.sent, n)
  <2> HIDE DEF u
  <2>1. u \in Seq(Nat) /\ y = [x EXCEPT !.sent = u]
    BY <1>2, <1>3 DEF u
  <2>2. /\ y \in HandlerRecord /\ y.at = x.at /\ y.model = x.model /\ y.reason = x.reason
        /\ y.gone = x.gone /\ y.errored = x.errored /\ y.sse = x.sse /\ y.tools = x.tools
        /\ y.sent = u /\ y.held = x.held
    BY <2>1 DEF HandlerRecord
  <2> QED  BY <2>2, <1>3 DEF Heard, Other, Streams, u
<1>4. CASE ~Streams(x)
  <2> DEFINE u == Append(x.held, n)
  <2> HIDE DEF u
  <2>1. u \in Seq(Nat) /\ y = [x EXCEPT !.held = u]
    BY <1>2, <1>4 DEF u
  <2>2. /\ y \in HandlerRecord /\ y.at = x.at /\ y.model = x.model /\ y.reason = x.reason
        /\ y.gone = x.gone /\ y.errored = x.errored /\ y.sse = x.sse /\ y.tools = x.tools
        /\ y.held = u /\ y.sent = x.sent
    BY <2>1 DEF HandlerRecord
  <2> QED  BY <2>2, <1>4 DEF Heard, Other, Streams, u
<1> QED  BY <1>3, <1>4

\* And what is left in the channel goes on behind it.
LEMMA HearTextExact ==
  ASSUME NEW x \in HandlerRecord, NEW s \in StreamRecord, Traced(x, s), Exact(x, s),
         x.at = "read", s.events # <<>>, IsText(Head(s.events)),
         NEW t, t = Shorter(s),
         NEW y \in HandlerRecord, y.at = "read", Other(y) = Other(x),
         Heard(y) = Append(Heard(x), Head(s.events).n)
  PROVE  Exact(y, t)
<1> DEFINE n == Head(s.events).n
           hd == Heard(x)
<1>1. /\ t \in StreamRecord /\ t.at = s.at /\ t.reason = s.reason /\ t.emitted = s.emitted
      /\ Len(s.events) \in Nat \ {0} /\ Len(t.events) = Len(s.events) - 1
      /\ \A i \in 1 .. Len(t.events) : t.events[i] = s.events[i + 1]
      /\ Head(s.events) = s.events[1] /\ Head(s.events) \in Event
  BY NextEvent
<1>2. n \in Nat
  BY <1>1 DEF Event, IsText
<1>3. hd \in Seq(Nat) /\ Len(hd) \in Nat
  BY DEF Heard, HandlerRecord
<1>4. n = Len(hd) + 1
  <2>1. 1 \in 1 .. Len(s.events)
    BY <1>1
  <2> QED  BY <2>1, <1>1 DEF Exact, Continues, IsText
<1> HIDE DEF n
<1>6. Heard(y) = Append(hd, n)
  BY DEF n
<1> HIDE DEF hd
<1>7. /\ Len(Heard(y)) = Len(hd) + 1 /\ Len(Heard(y)) \in Nat
      /\ \A i \in 1 .. Len(hd) : Heard(y)[i] = hd[i]
      /\ Heard(y)[Len(hd) + 1] = n
  <2>1. /\ Len(Append(hd, n)) = Len(hd) + 1 /\ Len(Append(hd, n)) \in Nat
        /\ \A i \in 1 .. Len(hd) : Append(hd, n)[i] = hd[i]
        /\ Append(hd, n)[Len(hd) + 1] = n
    BY <1>2, <1>3
  <2>2. Heard(y) = Append(hd, n)
    BY <1>6
  <2> QED  BY <2>1, <2>2
<1>8. Numbered(Heard(y))
  <2>1. Numbered(hd)
    BY DEF Exact, hd
  <2>2. \A i \in 1 .. Len(hd) + 1 : i \in 1 .. Len(hd) \/ i = Len(hd) + 1
    BY <1>3
  <2> QED  BY <2>1, <2>2, <1>4, <1>7 DEF Numbered
<1>9. Continues(x, s) /\ Accounted(x, s)
  BY DEF Exact
<1>10. Continues(y, t)
  <2> SUFFICES ASSUME NEW i \in 1 .. Len(t.events)
               PROVE  \/ IsText(t.events[i]) /\ t.events[i].n = Len(Heard(y)) + i
                      \/ /\ t.events[i].kind \in {"done", "error"}
                         /\ i = Len(t.events) /\ t.at = "over"
                         /\ t.events[i].reason = t.reason
    BY DEF Continues
  <2>1. i + 1 \in 1 .. Len(s.events) /\ t.events[i] = s.events[i + 1]
    BY <1>1
  <2>2. \/ IsText(t.events[i]) /\ t.events[i].n = Len(hd) + (i + 1)
        \/ /\ t.events[i].kind \in {"done", "error"}
           /\ i + 1 = Len(s.events) /\ t.at = "over"
           /\ t.events[i].reason = t.reason
    BY <2>1, <1>1, <1>9 DEF Continues, hd
  <2>3. Len(hd) + (i + 1) = Len(Heard(y)) + i /\ (i + 1 = Len(s.events) => i = Len(t.events))
    <3>1. Len(hd) \in Nat /\ Len(s.events) \in Nat /\ i \in Nat
      BY <1>1, <1>3
    <3>2. /\ Len(hd) + (i + 1) = (Len(hd) + 1) + i
          /\ i + 1 = Len(s.events) => i = Len(s.events) - 1
      BY ONLY <3>1, Shifted, Zenon
    <3>3. Len(Heard(y)) = Len(hd) + 1 /\ Len(t.events) = Len(s.events) - 1
      BY <1>1, <1>7
    <3> QED  BY <3>2, <3>3, Zenon
  <2> QED  BY <2>2, <2>3
<1>11. Len(t.events) > 0 => t.events[Len(t.events)] = s.events[Len(s.events)]
  BY <1>1
<1>12. (s.events = <<>> <=> Len(s.events) = 0) /\ (t.events = <<>> <=> Len(t.events) = 0)
  <2>1. s.events \in Seq(Event) /\ t.events \in Seq(Event)
    BY <1>1 DEF StreamRecord
  <2> QED  BY <2>1, EmptyIs
<1>13. Len(t.events) = 0 => IsText(s.events[Len(s.events)])
  BY <1>1
<1>14. Accounted(y, t)
  <2>1. s.emitted = Len(hd) + IF IsText(s.events[Len(s.events)]) THEN Len(s.events) ELSE Len(s.events) - 1
    BY <1>9 DEF Accounted, hd
  <2> DEFINE a == Len(hd)
             b == Len(Heard(y))
             c == Len(s.events)
             d == Len(t.events)
             z == IsText(s.events[Len(s.events)])
  <2>2. /\ a \in Nat /\ b = a + 1 /\ c \in Nat /\ d = c - 1 /\ d \in Nat
        /\ s.emitted = a + (IF z THEN c ELSE c - 1)
        /\ d = 0 => z
    BY <2>1, <1>1, <1>3, <1>7, <1>13
  <2>3. d # 0 => (IsText(t.events[Len(t.events)]) <=> z)
    <3> HIDE DEF a, b, c, d, z
    <3>1. d # 0 => d > 0
      BY <2>2
    <3>2. d # 0 => t.events[Len(t.events)] = s.events[Len(s.events)]
      BY <3>1, <1>11 DEF d
    <3> QED  BY <3>2, Zenon DEF z
  <2> HIDE DEF a, b, c, d, z
  <2>4. s.emitted = b + (IF d = 0 THEN 0 ELSE IF z THEN d ELSE d - 1)
    BY <2>2, SMTT(60)
  <2> QED  BY <2>3, <2>4, <1>1, <1>12 DEF Accounted, a, b, c, d, z
<1>15. s.at = "over" => ~IsText(s.events[Len(s.events)])
  BY DEF Exact
<1>16. t.at = "over" => t.events # <<>> /\ ~IsText(t.events[Len(t.events)])
  BY <1>1, <1>11, <1>12, <1>13, <1>15
<1>17. Other(y) = <<>>
  BY DEF Exact
<1> QED  BY <1>1, <1>8, <1>10, <1>14, <1>16, <1>17 DEF Exact

LEMMA HearTextSound ==
  ASSUME NEW x \in HandlerRecord, NEW s \in StreamRecord, Sound(x, s),
         x.at = "read", s.events # <<>>, IsText(Head(s.events)),
         NEW t, t = Shorter(s),
         NEW y, y = IF Streams(x) THEN [x EXCEPT !.sent = Append(@, Head(s.events).n)]
                    ELSE [x EXCEPT !.held = Append(@, Head(s.events).n)]
  PROVE  y \in HandlerRecord /\ t \in StreamRecord /\ Sound(y, t)
<1>1. /\ t \in StreamRecord /\ t.at = s.at /\ t.reason = s.reason /\ t.emitted = s.emitted
      /\ Len(s.events) \in Nat \ {0} /\ Len(t.events) = Len(s.events) - 1
      /\ \A i \in 1 .. Len(t.events) : t.events[i] = s.events[i + 1]
      /\ Head(s.events) \in Event
  BY NextEvent
<1>2. Head(s.events).n \in Nat
  BY <1>1 DEF Event, IsText
<1>3. /\ y \in HandlerRecord /\ y.at = "read" /\ y.model = x.model /\ y.reason = x.reason
      /\ y.gone = x.gone /\ Other(y) = Other(x)
      /\ Heard(y) = Append(Heard(x), Head(s.events).n)
  <2>1. PICK n \in Nat : n = Head(s.events).n
    BY <1>2
  <2>2. y = IF Streams(x) THEN [x EXCEPT !.sent = Append(@, n)] ELSE [x EXCEPT !.held = Append(@, n)]
    BY <2>1
  <2>3. /\ y \in HandlerRecord /\ y.at = x.at /\ y.model = x.model /\ y.reason = x.reason
        /\ y.gone = x.gone /\ Heard(y) = Append(Heard(x), n) /\ Other(y) = Other(x)
    BY ONLY <2>2, x \in HandlerRecord, n \in Nat, HearTextField, Zenon
  <2> QED  BY <2>1, <2>3
<1>4. Traced(x, s) /\ (x.gone \/ Exact(x, s))
  BY DEF Sound
<1>5. \A i \in 1 .. Len(t.events) :
        IsText(t.events[i]) \/ (t.at = "over" /\ t.events[i].reason = t.reason)
  <2> SUFFICES ASSUME NEW i \in 1 .. Len(t.events)
               PROVE  IsText(t.events[i]) \/ (t.at = "over" /\ t.events[i].reason = t.reason)
    OBVIOUS
  <2>1. i + 1 \in 1 .. Len(s.events) /\ t.events[i] = s.events[i + 1]
    BY <1>1
  <2> QED  BY <1>1, <1>4, <2>1 DEF Traced
<1>6. Traced(y, t)
  BY <1>1, <1>3, <1>4, <1>5 DEF Traced
<1>7. ~x.gone => Exact(y, t)
  BY <1>3, <1>4, HearTextExact
<1> QED  BY <1>1, <1>3, <1>6, <1>7 DEF Sound

\* The final event is the last a client that stays hears, and says what the
\* stream says.
LEMMA FinalEvent ==
  ASSUME NEW x \in HandlerRecord, NEW s \in StreamRecord, Traced(x, s),
         x.at = "read", s.events # <<>>, ~IsText(Head(s.events)),
         NEW t, t = Shorter(s)
  PROVE  /\ t \in StreamRecord /\ t.at = "over" /\ t.reason = s.reason /\ s.at = "over"
         /\ Head(s.events).kind \in {"done", "error"} /\ Head(s.events).reason = s.reason
         /\ s.reason \in Causes
         /\ \A i \in 1 .. Len(t.events) : IsText(t.events[i]) \/ t.events[i].reason = t.reason
         /\ Exact(x, s) => t.events = <<>> /\ t.emitted = Len(Heard(x))
<1>1. /\ t \in StreamRecord /\ t.at = s.at /\ t.reason = s.reason /\ t.emitted = s.emitted
      /\ Len(s.events) \in Nat \ {0} /\ Len(t.events) = Len(s.events) - 1
      /\ \A i \in 1 .. Len(t.events) : t.events[i] = s.events[i + 1]
      /\ Head(s.events) = s.events[1] /\ Head(s.events) \in Event
  BY NextEvent
<1>2. 1 \in 1 .. Len(s.events) /\ \A i \in 1 .. Len(t.events) : i + 1 \in 1 .. Len(s.events)
  BY <1>1
<1>3. s.at = "over" /\ s.events[1].reason = s.reason
  BY <1>1, <1>2 DEF Traced
<1>4. Head(s.events) \in [kind : {"done", "error"}, reason : Causes]
  BY <1>1 DEF Event, IsText
<1>5. \A i \in 1 .. Len(t.events) : IsText(t.events[i]) \/ t.events[i].reason = t.reason
  BY <1>1, <1>2 DEF Traced
<1>6. ASSUME Exact(x, s) PROVE t.events = <<>> /\ t.emitted = Len(Heard(x))
  <2>1. 1 = Len(s.events)
    BY <1>1, <1>2, <1>6 DEF Exact, Continues
  <2>2. t.events = <<>>
    BY <1>1, <2>1 DEF StreamRecord
  <2>3. Len(Heard(x)) \in Nat
    BY DEF Heard, HandlerRecord
  <2>4. s.emitted = Len(Heard(x))
    BY <1>1, <1>6, <2>1, <2>3 DEF Exact, Accounted
  <2> QED  BY <1>1, <2>2, <2>4
<1> QED  BY <1>1, <1>3, <1>4, <1>5, <1>6

\* The handler reads the final event and goes on: into the answer, whose channel
\* is empty now, or out of it with the error.
LEMMA HearFinalSound ==
  ASSUME NEW x \in HandlerRecord, NEW s \in StreamRecord, Sound(x, s),
         x.at = "read", s.events # <<>>, ~IsText(Head(s.events)),
         NEW t, t = Shorter(s),
         NEW y, \/ y = [x EXCEPT !.reason = Head(s.events).reason]
                \/ y = [x EXCEPT !.at = "reply", !.errored = TRUE]
  PROVE  y \in HandlerRecord /\ t \in StreamRecord /\ Sound(y, t)
<1>a. Traced(x, s)
  BY DEF Sound
<1>b. x.gone \/ Exact(x, s)
  BY DEF Sound
<1>0. Traced(x, s) /\ (x.gone \/ Exact(x, s))
  BY <1>a, <1>b
<1>1. /\ t \in StreamRecord /\ t.at = "over" /\ t.reason = s.reason /\ s.at = "over"
      /\ Head(s.events).kind \in {"done", "error"} /\ Head(s.events).reason = s.reason
      /\ s.reason \in Causes
      /\ \A i \in 1 .. Len(t.events) : IsText(t.events[i]) \/ t.events[i].reason = t.reason
      /\ Exact(x, s) => t.events = <<>> /\ t.emitted = Len(Heard(x))
  BY ONLY <1>a, x \in HandlerRecord, s \in StreamRecord, x.at = "read", s.events # <<>>,
          ~IsText(Head(s.events)), t = Shorter(s), FinalEvent
<1>2. x.model \in Models /\ (x.reason = "eos" \/ x.reason = s.reason)
  BY <1>0 DEF Traced
<1>3. /\ y \in HandlerRecord /\ Heard(y) = Heard(x) /\ Other(y) = Other(x) /\ y.model = x.model
      /\ \/ y.at = "read" /\ y.reason = s.reason
         \/ y.at = "reply" /\ y.reason = x.reason
  BY <1>1 DEF HandlerRecord, Heard, Other, Streams
<1>4. y.at = "reply" => y.errored
  BY <1>1 DEF HandlerRecord
<1>5. y.gone = x.gone
  BY <1>1 DEF HandlerRecord
<1>6. Traced(y, t)
  BY <1>1, <1>2, <1>3 DEF Traced
<1>7. ASSUME Exact(x, s) PROVE Exact(y, t)
  <2>1. Numbered(Heard(y)) /\ Other(y) = <<>> /\ t.events = <<>> /\ t.emitted = Len(Heard(y))
    BY <1>1, <1>3, <1>7 DEF Exact
  <2>2. Continues(y, t) /\ Accounted(y, t)
    BY <2>1 DEF Continues, Accounted, Heard, HandlerRecord
  <2>3. Learnt(y, t)
    BY <1>1, <1>3, <1>4 DEF Learnt
  <2>4. y.at # "done"
    BY <1>3
  <2> QED  BY <2>1, <2>2, <2>3, <2>4 DEF Exact
<1> QED  BY <1>0, <1>1, <1>3, <1>5, <1>6, <1>7 DEF Sound

\* HearEnd: the channel is closed, and what ended the answer has been read.
LEMMA HearEndSound ==
  ASSUME NEW x \in HandlerRecord, NEW s \in StreamRecord, Sound(x, s),
         x.at = "read", s.events = <<>>, s.at = "over",
         NEW y, y = [x EXCEPT !.at = "reply"]
  PROVE  y \in HandlerRecord /\ Sound(y, s)
<1>1. /\ y \in HandlerRecord /\ y.at = "reply" /\ Heard(y) = Heard(x) /\ Other(y) = Other(x)
      /\ y.model = x.model /\ y.reason = x.reason
  BY DEF HandlerRecord, Heard, Other, Streams
<1>2. y.errored = x.errored
  BY DEF HandlerRecord
<1>3. y.gone = x.gone
  BY DEF HandlerRecord
<1>4. Traced(y, s)
  BY <1>1 DEF Sound, Traced
<1>5. ASSUME Exact(x, s) PROVE Exact(y, s)
  <2>1. Numbered(Heard(x)) /\ Other(x) = <<>> /\ Accounted(x, s) /\ Learnt(x, s)
    BY <1>5 DEF Exact
  <2>2. s.emitted = Len(Heard(y))
    BY <1>1, <2>1 DEF Accounted, Heard, HandlerRecord
  <2>3. Learnt(y, s)
    BY <1>1, <1>2, <1>3, <2>1, Zenon DEF Learnt
  <2> QED  BY <1>1, <2>1, <2>2, <2>3 DEF Exact
<1> QED  BY <1>1, <1>3, <1>4, <1>5 DEF Sound

\* Reply: all that was heard is sent, unless it was calls, and the finish reason
\* is the translation of what ended the answer.
LEMMA ReplySound ==
  ASSUME NEW x \in HandlerRecord, NEW s \in StreamRecord, Sound(x, s), x.at = "reply",
         NEW calls \in BOOLEAN,
         NEW y \in HandlerRecord, y.at = "done", y.model = x.model,
         y.finish = IF calls THEN "tool_calls" ELSE FinishReason(x.reason),
         y.sent = IF calls THEN x.sent ELSE x.sent \o x.held,
         y.errored <=> x.errored, y.gone <=> x.gone
  PROVE  Sound(y, s)
<1>1. x.model \in Models /\ s.at = "over" /\ (x.reason = "eos" \/ x.reason = s.reason)
  BY DEF Sound, Traced
<1>2. y.finish = "length" => s.reason \in {"length", "context"}
  BY <1>1 DEF FinishReason
<1>3. Traced(y, s)
  BY <1>1, <1>2 DEF Traced
<1>4. ASSUME ~x.gone PROVE Exact(y, s)
  <2>1. /\ Numbered(Heard(x)) /\ Other(x) = <<>> /\ s.emitted = Len(Heard(x))
        /\ x.reason = s.reason \/ x.errored
    BY <1>4 DEF Sound, Exact, Learnt
  <2>2. x.sent \in Seq(Nat) /\ x.held \in Seq(Nat)
    BY DEF HandlerRecord
  <2>3. x.sent \o x.held = Heard(x)
    BY <2>1, <2>2, ConcatEmptySeq DEF Heard, Other
  <2> DEFINE f == y.finish
  <2>4. f # "tool_calls" => y.sent = Heard(x) /\ f = FinishReason(x.reason)
    BY <2>3
  <2>5. x.reason \in Causes
    BY DEF HandlerRecord
  <2>6. f = "stop" /\ x.reason = s.reason => s.reason \in {"eos", "stop", "cancel"}
    BY <2>4, <2>5 DEF FinishReason, Causes
  <2>7. f = "stop" => s.reason \in {"eos", "stop", "cancel"} \/ y.errored
    BY <2>1, <2>6, Zenon
  <2>8. f # "tool_calls" => Numbered(y.sent) /\ Len(y.sent) = s.emitted
    BY <2>1, <2>4
  <2> QED  BY <2>7, <2>8 DEF Exact
<1> QED  BY <1>3, <1>4 DEF Sound

\* The request is new, or goes on to the next step before a stream exists.
LEMMA EarlySound ==
  ASSUME NEW x \in HandlerRecord, x.at \in {"idle", "lookup", "submit"},
         x.held = <<>>, x.sent = <<>>, x.reason = "eos", x.at = "submit" => x.model \in Models
  PROVE  Sound(x, NoStream)
BY DEF Sound, Traced, Exact

\* A request that was refused, or none: nothing but that its stream is over.
LEMMA RefusedSound ==
  ASSUME NEW y \in HandlerRecord, y.at = "done", y.status # 200,
         NEW t \in StreamRecord, t.at \in {"none", "over"}
  PROVE  Sound(y, t)
BY DEF Sound, Traced, Exact

\* Submit: a request in the queue.
LEMMA SubmitSound ==
  ASSUME NEW x \in HandlerRecord, NEW s \in StreamRecord, Sound(x, s), x.at = "submit",
         NEW y \in HandlerRecord, y.at = "read", y.model = x.model, y.reason = x.reason,
         y.held = x.held, y.sent = x.sent,
         NEW t \in StreamRecord, t.at = "queued", t.emitted = s.emitted, t.events = s.events,
         t.reason = s.reason
  PROVE  Sound(y, t) /\ t.reason = "none"
<1>1. s = NoStream /\ x.model \in Models /\ x.held = <<>> /\ x.sent = <<>> /\ x.reason = "eos"
  BY DEF Sound, Traced
<1>2. Heard(y) = <<>> /\ Other(y) = <<>>
  BY <1>1 DEF Heard, Other
<1>3. t.emitted = 0 /\ t.events = <<>> /\ t.reason = "none"
  BY <1>1 DEF NoStream
<1>4. Numbered(Heard(y)) /\ Continues(y, t) /\ Accounted(y, t)
  BY <1>2, <1>3 DEF Numbered, Continues, Accounted
<1>5. Traced(y, t)
  BY <1>1, <1>3 DEF Traced
<1>6. Exact(y, t)
  BY <1>2, <1>4 DEF Exact
<1> QED  BY <1>3, <1>5, <1>6 DEF Sound

\* Leave: a client that left is traced.
LEMMA LeaveSound ==
  ASSUME NEW x \in HandlerRecord, NEW s \in StreamRecord, Sound(x, s), x.at = "read",
         NEW y, y = [x EXCEPT !.gone = TRUE]
  PROVE  y \in HandlerRecord /\ Sound(y, s) /\ y.gone
<1>1. y \in HandlerRecord /\ y.at = "read" /\ y.model = x.model /\ y.reason = x.reason
  BY DEF HandlerRecord
<1>2. y.gone
  BY DEF HandlerRecord
<1>3. Traced(y, s)
  BY <1>1 DEF Sound, Traced
<1> QED  BY <1>1, <1>2, <1>3 DEF Sound

---------------------------------------------------------------------------
(* The steps.                                                                *)

\* At first nothing has arrived.
LEMMA Initially == Init => Inv
<1> SUFFICES ASSUME Init PROVE Inv
  OBVIOUS
<1>1. NoHandler \in HandlerRecord /\ NoHandler.at = "idle" /\ NoHandler.held = <<>>
      /\ NoHandler.sent = <<>> /\ NoHandler.reason = "eos"
  <2>1. PICK e \in Seq(Nat) : e = <<>>
    <3>1. <<>> \in Seq(Nat)
      OBVIOUS
    <3> QED  BY <3>1
  <2>2. PICK c \in Causes : c = "eos"
    BY DEF Causes
  <2>3. NoHandler = [at |-> "idle", model |-> Unknown, tools |-> FALSE, sse |-> FALSE, gone |-> FALSE,
                     status |-> 0, held |-> e, sent |-> e, reason |-> c, errored |-> FALSE,
                     finish |-> "none"]
    BY <2>1, <2>2 DEF NoHandler
  <2>4. 0 \in Nat
    OBVIOUS
  <2>5. NoHandler \in HandlerRecord
    BY ONLY <2>3, <2>4, e \in Seq(Nat), c \in Causes, Zenon DEF HandlerRecord
  <2> QED  BY <2>5 DEF NoHandler
<1>2. NoStream \in StreamRecord /\ NoStream.reason = "none"
  <2>1. <<>> \in Seq(Event)
    OBVIOUS
  <2> QED  BY <2>1 DEF NoStream, StreamRecord
<1>3. Sound(NoHandler, NoStream)
  BY <1>1, EarlySound
<1>4. Len(Order) \in Nat
  BY ServiceAssumption DEF IsInjective
<1>5. Types
  <2>1. h \in [Requests -> HandlerRecord]
    BY <1>1 DEF Init
  <2>2. stream \in [Requests -> StreamRecord]
    BY <1>2 DEF Init
  <2>3. loaded \in 0 .. Len(Order)
    BY <1>4 DEF Init
  <2>4. runner \in [Models -> {"none", "open", "closed"}]
    BY DEF Init
  <2>5. loop \in [Models -> {"none", "running", "stopping", "failing", "stopped", "failed", "ended"}]
    BY DEF Init
  <2> QED  BY <2>1, <2>2, <2>3, <2>4, <2>5 DEF Init, Types
<1>6. Stage
  BY <1>1 DEF Init, Stage
<1> QED  BY <1>2, <1>3, <1>5, <1>6 DEF Init, Inv, CutFor

\* A step of one request: its records change, nothing else does.
LEMMA OneRequest ==
  ASSUME Inv, NEW r \in Requests, NEW y \in HandlerRecord, NEW t \in StreamRecord,
         Sound(y, t), CutFor(y, t),
         h' = [h EXCEPT ![r] = y], stream' = [stream EXCEPT ![r] = t],
         UNCHANGED <<process, loop, dead>>,
         Reached \/ Handling(r)
  PROVE  Inv'
<1>1. /\ h \in [Requests -> HandlerRecord] /\ stream \in [Requests -> StreamRecord]
      /\ \A q \in Requests : Sound(h[q], stream[q]) /\ CutFor(h[q], stream[q])
      /\ Stage
  BY DEF Inv, Types
<1>2. \A q \in Requests : /\ h'[q] = IF q = r THEN y ELSE h[q]
                          /\ stream'[q] = IF q = r THEN t ELSE stream[q]
  BY <1>1
<1>3. Types'
  BY <1>1 DEF Inv, Types, process
<1>4. \A q \in Requests : Sound(h[q], stream[q])' /\ CutFor(h[q], stream[q])'
  <2> SUFFICES ASSUME NEW q \in Requests
               PROVE  Sound(h'[q], stream'[q]) /\ CutFor(h[q], stream[q])'
    OBVIOUS
  <2>1. CASE q = r
    BY <1>2, <2>1 DEF CutFor, Closed
  <2>2. CASE q # r
    BY <1>1, <1>2, <2>2 DEF CutFor, Closed
  <2> QED  BY <2>1, <2>2
<1>5. Stage'
  <2>1. \A q \in Requests : Handling(q)' => Handling(q) \/ Reached
    BY <1>2 DEF Handling
  <2>2. srv \in {"off", "failed"} => \A q \in Requests : h'[q].at = "idle"
    BY <1>1, <1>2 DEF Stage, Handling, Reached
  <2> QED  BY <1>1, <2>1, <2>2 DEF Stage, process, Reached
<1> QED  BY <1>3, <1>4, <1>5 DEF Inv

\* A step of the engine for one request.
LEMMA OneStream ==
  ASSUME Inv, NEW r \in Requests, stream[r].at \in {"queued", "active", "held"},
         NEW t \in StreamRecord, Sound(h[r], t), CutFor(h[r], t),
         stream' = [stream EXCEPT ![r] = t], UNCHANGED <<process, loop, dead, h>>
  PROVE  Inv'
<1>1. h \in [Requests -> HandlerRecord] /\ h[r] \in HandlerRecord /\ stream[r] \in StreamRecord
      /\ Sound(h[r], stream[r])
  BY DEF Inv, Types
<1>2. h[r].at = "read"
  BY <1>1, Running DEF Sound
<1>3. h' = [h EXCEPT ![r] = h[r]]
  BY <1>1
<1>4. Handling(r)
  BY <1>2 DEF Handling
<1> QED  BY <1>1, <1>3, <1>4, OneRequest

\* Finish: for the model's own reasons, or for a client that left.
LEMMA FinishKeeps ==
  ASSUME Inv, NEW r \in Requests, stream[r].at \in {"active", "held"},
         NEW kind \in {"done", "error"}, NEW reason \in Causes, Finish(r, kind, reason),
         reason = "cancel" => h[r].gone, UNCHANGED <<process, loop, dead, h>>
  PROVE  Inv'
<1>1. /\ h[r] \in HandlerRecord /\ stream[r] \in StreamRecord /\ Sound(h[r], stream[r])
      /\ stream \in [Requests -> StreamRecord]
  BY DEF Inv, Types
<1>2. PICK q \in Delivered(r, Final(kind, reason)) :
        stream' = [stream EXCEPT ![r].at = "over", ![r].reason = reason, ![r].events = q]
  BY DEF Finish
<1>3. PICK t : t = Ended(stream[r], reason, q)
  OBVIOUS
<1>4. stream' = [stream EXCEPT ![r] = t]
  BY <1>1, <1>2, <1>3 DEF Ended
<1>5. Reaches(h[r], stream[r], Final(kind, reason), q)
  BY <1>2 DEF Delivered, Reaches
<1>6. t \in StreamRecord /\ Sound(h[r], t) /\ t.reason = reason
  <2>1. stream[r].at \in {"queued", "active", "held"}
    OBVIOUS
  <2> QED  BY ONLY <1>1, <1>3, <1>5, <2>1, kind \in {"done", "error"}, reason \in Causes, EndSound
<1> QED  BY <1>4, <1>6, OneStream DEF CutFor

\* Admit and Strand: only where the stream is.
LEMMA MoveKeeps ==
  ASSUME Inv, NEW r \in Requests, stream[r].at \in {"queued", "active"},
         NEW a \in {"active", "held", "over"}, a # "active" => h[r].gone,
         stream' = [stream EXCEPT ![r].at = a], UNCHANGED <<process, loop, dead, h>>
  PROVE  Inv'
<1>1. /\ h[r] \in HandlerRecord /\ stream[r] \in StreamRecord /\ Sound(h[r], stream[r])
      /\ stream \in [Requests -> StreamRecord]
  BY DEF Inv, Types
<1>2. PICK t : t = [stream[r] EXCEPT !.at = a]
  OBVIOUS
<1>3. stream' = [stream EXCEPT ![r] = t]
  BY <1>1, <1>2
<1>4. t \in StreamRecord /\ Sound(h[r], t) /\ t.reason = "none"
  BY ONLY <1>1, <1>2, stream[r].at \in {"queued", "active"}, a \in {"active", "held", "over"},
          a # "active" => h[r].gone, MovedSound, Zenon
<1> QED  BY <1>3, <1>4, OneStream DEF CutFor

\* Answering: the engine admits, emits, ends and forgets.
LEMMA AnsweringKeeps ==
  ASSUME Inv, NEW r \in Requests, Answering(r)
  PROVE  Inv'
<1>1. /\ h[r] \in HandlerRecord /\ stream[r] \in StreamRecord
      /\ Sound(h[r], stream[r]) /\ CutFor(h[r], stream[r])
      /\ stream \in [Requests -> StreamRecord]
  BY DEF Inv, Types
<1>2. CASE Admit(r) \/ Strand(r)
  <2>1. PICK a \in {"active", "held", "over"} :
          /\ a # "active" => h[r].gone
          /\ stream' = [stream EXCEPT ![r].at = a]
    BY <1>2 DEF Admit, Strand
  <2>2. stream[r].at \in {"queued", "active"} /\ UNCHANGED <<process, loop, dead, h>>
    BY <1>2 DEF Admit, Strand
  <2> QED  BY <2>1, <2>2, MoveKeeps
<1>3. CASE Emit(r)
  <2>0. PICK e : e = [kind |-> "text", n |-> stream[r].emitted + 1]
    OBVIOUS
  <2>1. PICK q \in Delivered(r, e) :
          stream' = [stream EXCEPT ![r].emitted = @ + 1, ![r].events = q]
    BY <1>3, <2>0 DEF Emit
  <2>2. stream[r].at = "active" /\ UNCHANGED <<process, loop, dead, h>>
    BY <1>3 DEF Emit
  <2>3. PICK t : t = Longer(stream[r], q)
    OBVIOUS
  <2>4. stream' = [stream EXCEPT ![r] = t]
    BY <1>1, <2>1, <2>3 DEF Longer
  <2>5. Reaches(h[r], stream[r], e, q)
    BY <2>1 DEF Delivered, Reaches
  <2>6. t \in StreamRecord /\ Sound(h[r], t) /\ t.reason = stream[r].reason
    BY ONLY <1>1, <2>0, <2>2, <2>3, <2>5, EmitSound
  <2> QED  BY <1>1, <2>2, <2>4, <2>6, OneStream DEF CutFor
<1>4. CASE EndAnswer(r)
  <2>1. PICK reason \in Reasons, kind \in {"done", "error"} : Finish(r, kind, reason)
    BY <1>4 DEF EndAnswer
  <2>2. stream[r].at = "active" /\ UNCHANGED <<process, loop, dead, h>>
    BY <1>4 DEF EndAnswer
  <2>3. reason \in Causes /\ reason # "cancel"
    BY ServiceAssumption DEF Causes
  <2> QED  BY <2>1, <2>2, <2>3, FinishKeeps
<1>5. CASE EndGone(r)
  <2>1. /\ stream[r].at = "active" /\ h[r].gone /\ Finish(r, "done", "cancel")
        /\ UNCHANGED <<process, loop, dead, h>>
    BY <1>5 DEF EndGone
  <2>2. "cancel" \in Causes /\ "done" \in {"done", "error"}
    BY DEF Causes
  <2> QED  BY <2>1, <2>2, FinishKeeps
<1>6. CASE Evict(r)
  <2>1. /\ stream[r].at = "held" /\ Finish(r, "done", "context")
        /\ UNCHANGED <<process, loop, dead, h>>
    BY <1>6 DEF Evict
  <2>2. "context" \in Causes /\ "done" \in {"done", "error"} /\ "context" # "cancel"
    BY DEF Causes
  <2> QED  BY <2>1, <2>2, FinishKeeps
<1> QED  BY <1>2, <1>3, <1>4, <1>5, <1>6 DEF Answering

\* A refusal, by any handler that has no stream, or one that is over.
LEMMA AnswerKeeps ==
  ASSUME Inv, NEW r \in Requests, NEW status \in Nat \ {200}, Answer(r, status),
         Reached \/ Handling(r), stream[r].at \in {"none", "over"},
         NEW t \in StreamRecord, t.at = stream[r].at, t.reason = stream[r].reason,
         stream' = [stream EXCEPT ![r] = t], UNCHANGED <<process, loop, dead>>
  PROVE  Inv'
<1>1. /\ h[r] \in HandlerRecord /\ stream[r] \in StreamRecord /\ CutFor(h[r], stream[r])
  BY DEF Inv, Types
<1>2. PICK y : /\ y = [NoHandler EXCEPT !.at = "done", !.status = status,
                                       !.model = h[r].model, !.gone = h[r].gone]
               /\ h' = [h EXCEPT ![r] = y]
  BY DEF Answer
<1>5. h[r].model \in Models \cup {Unknown} /\ <<>> \in Seq(Nat)
  BY <1>1 DEF HandlerRecord
<1>6. h[r].gone \in BOOLEAN
  BY <1>1 DEF HandlerRecord
<1>7. y \in HandlerRecord
  <2>1. PICK m \in Models \cup {Unknown} : m = h[r].model
    BY <1>5
  <2>2. PICK e \in Seq(Nat) : e = <<>>
    BY <1>5
  <2>3. PICK g \in BOOLEAN : g = h[r].gone
    BY <1>6
  <2>4. PICK c \in Causes : c = "eos"
    BY DEF Causes
  <2>5. y = [NoHandler EXCEPT !.at = "done", !.status = status, !.model = m, !.gone = g]
    BY <1>2, <2>1, <2>3
  <2>6. y = [at |-> "done", model |-> m, tools |-> FALSE, sse |-> FALSE, gone |-> g,
             status |-> status, held |-> e, sent |-> e,
             reason |-> c, errored |-> FALSE, finish |-> "none"]
    BY <2>2, <2>4, <2>5 DEF NoHandler
  <2>7. status \in Nat
    OBVIOUS
  <2> QED  BY ONLY <2>6, <2>7, m \in Models \cup {Unknown}, g \in BOOLEAN, e \in Seq(Nat),
                   c \in Causes, Zenon DEF HandlerRecord
<1>8. y.at = "done" /\ y.status = status /\ y.model = h[r].model
  BY <1>2 DEF NoHandler
<1>3. Sound(y, t)
  BY <1>7, <1>8, RefusedSound
<1>a. y.gone = h[r].gone
  BY <1>2 DEF NoHandler
<1>4. CutFor(y, t)
  BY <1>1, <1>8, <1>a DEF CutFor
<1> QED  BY <1>2, <1>3, <1>4, <1>7, <1>8, OneRequest

\* A stream nobody touches.
LEMMA SameStream ==
  ASSUME Inv, NEW r \in Requests, UNCHANGED stream
  PROVE  /\ stream[r] \in StreamRecord /\ h[r] \in HandlerRecord
         /\ stream' = [stream EXCEPT ![r] = stream[r]]
         /\ Sound(h[r], stream[r]) /\ CutFor(h[r], stream[r])
BY DEF Inv, Types

\* Arrive and ArriveBad: a handler with the fields of its body, or a refusal.
LEMMA ArriveKeeps ==
  ASSUME Inv, NEW r \in Requests, Arrive(r) \/ ArriveBad(r)
  PROVE  Inv'
<1>1. /\ Reached /\ h[r].at = "idle" /\ UNCHANGED <<process, loop, dead, stream>>
  BY DEF Arrive, ArriveBad
<1>2. /\ stream[r] \in StreamRecord /\ h[r] \in HandlerRecord
      /\ stream' = [stream EXCEPT ![r] = stream[r]]
      /\ Sound(h[r], stream[r]) /\ CutFor(h[r], stream[r])
  BY <1>1, SameStream
<1>3. stream[r] = NoStream
  BY <1>1, <1>2 DEF Sound, Traced
<1>4. CASE Arrive(r)
  <2>1. PICK b \in Bodies[r] :
          h' = [h EXCEPT ![r] = [NoHandler EXCEPT !.at = "lookup", !.model = b.model,
                                                  !.tools = b.tools, !.sse = b.sse]]
    BY <1>4 DEF Arrive
  <2>2. b.model \in Models \cup {Unknown}
    BY ServiceAssumption
  <2>3. b.tools \in BOOLEAN
    BY ServiceAssumption
  <2>4. b.sse \in BOOLEAN
    BY ServiceAssumption
  <2> DEFINE y == [NoHandler EXCEPT !.at = "lookup", !.model = b.model,
                                    !.tools = b.tools, !.sse = b.sse]
  <2>5. y \in HandlerRecord
    <3>1. PICK e \in Seq(Nat) : e = <<>>
      <4>1. <<>> \in Seq(Nat)
        OBVIOUS
      <4> QED  BY <4>1
    <3>2. PICK c \in Causes : c = "eos"
      BY DEF Causes
    <3>3. PICK m \in Models \cup {Unknown} : m = b.model
      BY <2>2
    <3>4. PICK u \in BOOLEAN : u = b.tools
      BY <2>3
    <3>5. PICK v \in BOOLEAN : v = b.sse
      BY <2>4
    <3>6. y = [NoHandler EXCEPT !.at = "lookup", !.model = m, !.tools = u, !.sse = v]
      BY <3>3, <3>4, <3>5
    <3> HIDE DEF y
    <3>7. y = [at |-> "lookup", model |-> m, tools |-> u, sse |-> v, gone |-> FALSE,
               status |-> 0, held |-> e, sent |-> e, reason |-> c, errored |-> FALSE,
               finish |-> "none"]
      BY <3>1, <3>2, <3>6 DEF NoHandler
    <3>8. 0 \in Nat
      OBVIOUS
    <3> QED  BY ONLY <3>7, <3>8, m \in Models \cup {Unknown}, u \in BOOLEAN, v \in BOOLEAN,
                     e \in Seq(Nat), c \in Causes, Zenon DEF HandlerRecord
  <2>6. y.at = "lookup" /\ y.held = <<>> /\ y.sent = <<>> /\ y.reason = "eos"
    BY DEF NoHandler
  <2>7. Sound(y, NoStream)
    BY <2>5, <2>6, EarlySound
  <2>8. CutFor(y, NoStream)
    BY DEF CutFor, NoStream
  <2>9. h' = [h EXCEPT ![r] = y]
    BY <2>1
  <2> HIDE DEF y
  <2> QED  BY <1>1, <1>2, <1>3, <2>5, <2>7, <2>8, <2>9, OneRequest
<1>5. CASE ArriveBad(r)
  <2>1. PICK status \in Nat \ {200} : Answer(r, status)
    BY <1>5 DEF ArriveBad
  <2>2. stream[r].at = "none"
    BY <1>3 DEF NoStream
  <2> QED  BY <1>1, <1>2, <2>1, <2>2, AnswerKeeps
<1> QED  BY <1>4, <1>5

\* LookUp: a refusal, or on to Submit with a model that is loaded.
LEMMA LookUpKeeps ==
  ASSUME Inv, NEW r \in Requests, LookUp(r)
  PROVE  Inv'
<1>1. /\ h[r].at = "lookup" /\ UNCHANGED <<process, loop, dead, stream>>
  BY DEF LookUp
<1>2. /\ stream[r] \in StreamRecord /\ h[r] \in HandlerRecord
      /\ stream' = [stream EXCEPT ![r] = stream[r]]
      /\ Sound(h[r], stream[r]) /\ CutFor(h[r], stream[r])
  BY <1>1, SameStream
<1>3. stream[r] = NoStream /\ stream[r].at = "none" /\ Handling(r)
  BY <1>1, <1>2 DEF Sound, Traced, Handling, NoStream
<1>4. CASE \E status \in {400, 404, 503} : Answer(r, status)
  <2>1. PICK status \in Nat \ {200} : Answer(r, status)
    BY <1>4
  <2> QED  BY <1>1, <1>2, <1>3, <2>1, AnswerKeeps
<1>5. CASE h[r].model \in Models /\ h' = [h EXCEPT ![r].at = "submit"]
  <2> DEFINE y == [h[r] EXCEPT !.at = "submit"]
  <2>1. h' = [h EXCEPT ![r] = y]
    BY <1>2, <1>5 DEF Inv, Types
  <2>2. /\ y \in HandlerRecord /\ y.at = "submit" /\ y.model = h[r].model
        /\ y.held = h[r].held /\ y.sent = h[r].sent /\ y.reason = h[r].reason
    BY <1>2 DEF HandlerRecord
  <2>3. Sound(y, NoStream)
    BY <1>1, <1>2, <1>5, <2>2, EarlySound DEF Sound, Traced
  <2>4. CutFor(y, NoStream)
    BY DEF CutFor, NoStream
  <2> HIDE DEF y
  <2> QED  BY <1>1, <1>2, <1>3, <2>1, <2>2, <2>3, <2>4, OneRequest
<1> QED  BY <1>4, <1>5 DEF LookUp

\* Submit: a refusal, or a queued stream.
LEMMA SubmitKeeps ==
  ASSUME Inv, NEW r \in Requests, Submit(r)
  PROVE  Inv'
<1>1. /\ h[r].at = "submit" /\ UNCHANGED <<process, loop, dead>>
  BY DEF Submit
<1>2. /\ stream[r] \in StreamRecord /\ h[r] \in HandlerRecord
      /\ Sound(h[r], stream[r]) /\ CutFor(h[r], stream[r])
      /\ stream \in [Requests -> StreamRecord] /\ h \in [Requests -> HandlerRecord]
  BY DEF Inv, Types
<1>3. stream[r] = NoStream /\ stream[r].at = "none" /\ Handling(r)
  BY <1>1, <1>2 DEF Sound, Traced, Handling, NoStream
<1>4. CASE UNCHANGED stream /\ \E status \in {400, 429} : Answer(r, status)
  <2>1. PICK status \in Nat \ {200} : Answer(r, status)
    BY <1>4
  <2>2. stream' = [stream EXCEPT ![r] = stream[r]]
    BY <1>2, <1>4
  <2> QED  BY <1>1, <1>2, <1>3, <2>1, <2>2, AnswerKeeps
<1>5. CASE h' = [h EXCEPT ![r].at = "read"] /\ stream' = [stream EXCEPT ![r].at = "queued"]
  <2>a. PICK y : y = [h[r] EXCEPT !.at = "read"]
    OBVIOUS
  <2>b. PICK t : t = [stream[r] EXCEPT !.at = "queued"]
    OBVIOUS
  <2>1. h' = [h EXCEPT ![r] = y] /\ stream' = [stream EXCEPT ![r] = t]
    BY <1>2, <1>5, <2>a, <2>b
  <2>2. y \in HandlerRecord /\ t \in StreamRecord /\ Sound(y, t) /\ t.reason = "none"
    <3>1. /\ y \in HandlerRecord /\ y.at = "read" /\ y.model = h[r].model
          /\ y.reason = h[r].reason /\ y.held = h[r].held /\ y.sent = h[r].sent
      BY <1>2, <2>a DEF HandlerRecord
    <3>2. /\ t \in StreamRecord /\ t.at = "queued" /\ t.emitted = stream[r].emitted
          /\ t.events = stream[r].events /\ t.reason = stream[r].reason
      BY <1>2, <2>b DEF StreamRecord
    <3> QED  BY <1>1, <1>2, <3>1, <3>2, SubmitSound
  <2>3. CutFor(y, t)
    BY <2>2 DEF CutFor
  <2> QED  BY <1>1, <1>3, <2>1, <2>2, <2>3, OneRequest
<1> QED  BY <1>4, <1>5 DEF Submit

\* Hear: the next event, of either kind.
LEMMA HearKeeps ==
  ASSUME Inv, NEW r \in Requests, Hear(r)
  PROVE  Inv'
<1> DEFINE x == h[r]
           s == stream[r]
           ev == Head(s.events)
           t == Shorter(s)
<1>1. /\ x.at = "read" /\ s.events # <<>> /\ UNCHANGED <<process, loop, dead>>
      /\ stream' = [stream EXCEPT ![r].events = Tail(@)]
  BY DEF Hear
<1>2. /\ s \in StreamRecord /\ x \in HandlerRecord /\ Sound(x, s) /\ CutFor(x, s)
      /\ stream \in [Requests -> StreamRecord] /\ h \in [Requests -> HandlerRecord]
  BY DEF Inv, Types
<1>3. stream' = [stream EXCEPT ![r] = t]
  BY <1>1, <1>2 DEF Shorter
<1>4. Handling(r)
  BY <1>1 DEF Handling
<1>5. t \in StreamRecord /\ t.at = s.at /\ t.reason = s.reason
  BY <1>1, <1>2, NextEvent
<1>6. CASE IsText(ev)
  <2> DEFINE y == IF Streams(x) THEN [x EXCEPT !.sent = Append(@, ev.n)]
                  ELSE [x EXCEPT !.held = Append(@, ev.n)]
  <2>1. HearText(r, ev.n)
    BY <1>6 DEF Hear, IsText
  <2>2. h' = [h EXCEPT ![r] = y]
    <3>1. CASE Streams(x)
      <4>1. h' = [h EXCEPT ![r].sent = Append(@, ev.n)]
        BY <2>1, <3>1 DEF HearText, Streams
      <4> QED  BY <1>2, <3>1, <4>1
    <3>2. CASE ~Streams(x)
      <4>1. h' = [h EXCEPT ![r].held = Append(@, ev.n)]
        BY <2>1, <3>2 DEF HearText, Streams
      <4> QED  BY <1>2, <3>2, <4>1
    <3> QED  BY <3>1, <3>2
  <2>3. y \in HandlerRecord /\ Sound(y, t)
    BY <1>1, <1>2, <1>6, HearTextSound
  <2>4. y.model = x.model
    BY <1>2 DEF HandlerRecord
  <2>5. y.gone = x.gone
    BY <1>2 DEF HandlerRecord
  <2> HIDE DEF x, s, t, y
  <2>6. CutFor(y, t)
    BY <1>2, <1>5, <2>4, <2>5 DEF CutFor
  <2> QED  BY <1>1, <1>3, <1>4, <1>5, <2>2, <2>3, <2>6, OneRequest
<1>7. CASE ~IsText(ev)
  <2>1. /\ s.at = "over" /\ ev.kind \in {"done", "error"}
    BY <1>1, <1>2, <1>7, FinalEvent DEF Sound
  <2>2. CASE Answer(r, 500)
    <3>1. PICK status \in Nat \ {200} : Answer(r, status)
      BY <2>2
    <3> HIDE DEF t
    <3> QED  BY <1>1, <1>3, <1>4, <1>5, <2>1, <3>1, AnswerKeeps
  <2>3. CASE \/ h' = [h EXCEPT ![r].reason = ev.reason]
             \/ h' = [h EXCEPT ![r].at = "reply", ![r].errored = TRUE]
    <3>1. PICK y : /\ h' = [h EXCEPT ![r] = y]
                   /\ \/ y = [x EXCEPT !.reason = Head(s.events).reason]
                      \/ y = [x EXCEPT !.at = "reply", !.errored = TRUE]
      <4>1. CASE h' = [h EXCEPT ![r].reason = ev.reason]
        <5>1. h' = [h EXCEPT ![r] = [x EXCEPT !.reason = ev.reason]]
          BY <1>2, <4>1
        <5> QED  BY <5>1
      <4>2. CASE h' = [h EXCEPT ![r].at = "reply", ![r].errored = TRUE]
        <5>1. h' = [h EXCEPT ![r] = [x EXCEPT !.at = "reply", !.errored = TRUE]]
          BY <1>2, <4>2
        <5> QED  BY <5>1
      <4> QED  BY <2>3, <4>1, <4>2
    <3>2. y \in HandlerRecord /\ Sound(y, t)
      BY <1>1, <1>2, <1>7, <3>1, HearFinalSound
    <3>3. y.model = x.model
      BY <1>2, <3>1 DEF HandlerRecord
    <3>4. y.gone = x.gone
      BY <1>2, <3>1 DEF HandlerRecord
    <3> HIDE DEF x, s, t
    <3>5. CutFor(y, t)
      BY <1>2, <1>5, <3>3, <3>4 DEF CutFor
    <3> QED  BY <1>1, <1>3, <1>4, <1>5, <3>1, <3>2, <3>5, OneRequest
  <2>4. ev.kind # "text"
    BY <1>7 DEF IsText
  <2> QED  BY <2>1, <2>2, <2>3, <2>4 DEF Hear
<1> QED  BY <1>6, <1>7

\* HearEnd: the channel is closed.
LEMMA HearEndKeeps ==
  ASSUME Inv, NEW r \in Requests, HearEnd(r)
  PROVE  Inv'
<1>1. /\ h[r].at = "read" /\ stream[r].events = <<>> /\ stream[r].at = "over"
      /\ h' = [h EXCEPT ![r].at = "reply"] /\ UNCHANGED <<process, loop, dead, stream>>
  BY DEF HearEnd
<1>2. /\ stream[r] \in StreamRecord /\ h[r] \in HandlerRecord
      /\ stream' = [stream EXCEPT ![r] = stream[r]]
      /\ Sound(h[r], stream[r]) /\ CutFor(h[r], stream[r])
  BY <1>1, SameStream
<1> DEFINE y == [h[r] EXCEPT !.at = "reply"]
<1>3. h' = [h EXCEPT ![r] = y]
  BY <1>1 DEF Inv, Types
<1>4. y \in HandlerRecord /\ Sound(y, stream[r])
  BY <1>1, <1>2, HearEndSound
<1>5. y.model = h[r].model
  BY <1>2 DEF HandlerRecord
<1>6. y.gone = h[r].gone
  BY <1>2 DEF HandlerRecord
<1>7. Handling(r)
  BY <1>1 DEF Handling
<1> HIDE DEF y
<1>8. CutFor(y, stream[r])
  BY <1>2, <1>5, <1>6 DEF CutFor
<1> QED  BY <1>1, <1>2, <1>3, <1>4, <1>7, <1>8, OneRequest

\* Reply: the answer is on its way.
LEMMA ReplyKeeps ==
  ASSUME Inv, NEW r \in Requests, Reply(r)
  PROVE  Inv'
<1>1. /\ h[r].at = "reply" /\ UNCHANGED <<process, loop, dead, stream>>
  BY DEF Reply
<1>2. /\ stream[r] \in StreamRecord /\ h[r] \in HandlerRecord
      /\ stream' = [stream EXCEPT ![r] = stream[r]]
      /\ Sound(h[r], stream[r]) /\ CutFor(h[r], stream[r])
  BY <1>1, SameStream
<1>3. PICK found \in Parsed(r) :
        h' = [h EXCEPT ![r].at = "done", ![r].status = 200,
                       ![r].finish = IF found = "calls" THEN "tool_calls"
                                     ELSE FinishReason(h[r].reason),
                       ![r].sent = IF found = "calls" THEN @ ELSE @ \o h[r].held, ![r].held = <<>>]
  BY DEF Reply
<1>a. PICK calls \in BOOLEAN : calls <=> found = "calls"
  OBVIOUS
<1>b. PICK f : f = IF calls THEN "tool_calls" ELSE FinishReason(h[r].reason)
  OBVIOUS
<1>c. PICK q : q = IF calls THEN h[r].sent ELSE h[r].sent \o h[r].held
  OBVIOUS
<1>d. PICK y : y = [h[r] EXCEPT !.at = "done", !.status = 200, !.finish = f, !.sent = q, !.held = <<>>]
  OBVIOUS
<1>4. h' = [h EXCEPT ![r] = y]
  <2>1. h' = [h EXCEPT ![r].at = "done", ![r].status = 200, ![r].finish = f, ![r].sent = q,
                       ![r].held = <<>>]
    BY <1>3, <1>a, <1>b, <1>c
  <2> QED  BY <2>1, <1>d, ZenonT(60) DEF Inv, Types
<1>5. /\ y \in HandlerRecord /\ y.at = "done" /\ y.sent = q /\ y.finish = f
      /\ y.model = h[r].model
  <2>a. f \in {"stop", "length", "tool_calls"}
    BY <1>b DEF FinishReason
  <2>b. q \in Seq(Nat)
    <3>1. h[r].sent \in Seq(Nat) /\ h[r].held \in Seq(Nat)
      BY <1>2 DEF HandlerRecord
    <3>2. h[r].sent \o h[r].held \in Seq(Nat)
      BY <3>1
    <3> QED  BY <1>c, <3>1, <3>2
  <2>c. PICK e \in Seq(Nat) : e = <<>>
    <3>1. <<>> \in Seq(Nat)
      OBVIOUS
    <3> QED  BY <3>1
  <2>1. PICK y1 : y1 = [h[r] EXCEPT !.at = "done", !.status = 200]
    OBVIOUS
  <2>2. PICK y2 : y2 = [y1 EXCEPT !.finish = f]
    OBVIOUS
  <2>3. PICK y3 : y3 = [y2 EXCEPT !.sent = q]
    OBVIOUS
  <2>4. y = [y3 EXCEPT !.held = e]
    BY <1>d, <2>c, <2>1, <2>2, <2>3
  <2>5. y1 \in HandlerRecord /\ y1.at = "done" /\ y1.model = h[r].model
    BY <1>2, <2>1, ZenonT(60) DEF HandlerRecord
  <2>6. y2 \in HandlerRecord /\ y2.finish = f /\ y2.at = y1.at /\ y2.model = y1.model
    BY ONLY <2>2, <2>5, <2>a DEF HandlerRecord
  <2>7. /\ y3 \in HandlerRecord /\ y3.sent = q /\ y3.finish = y2.finish /\ y3.at = y2.at
        /\ y3.model = y2.model
    BY ONLY <2>3, <2>6, <2>b DEF HandlerRecord
  <2>8. /\ y \in HandlerRecord /\ y.sent = y3.sent /\ y.finish = y3.finish /\ y.at = y3.at
        /\ y.model = y3.model
    BY ONLY <2>4, <2>7, e \in Seq(Nat) DEF HandlerRecord
  <2> QED  BY <2>5, <2>6, <2>7, <2>8
<1>6. y.errored = h[r].errored
  BY <1>2, <1>d DEF HandlerRecord
<1>7. y.gone = h[r].gone
  BY <1>2, <1>d DEF HandlerRecord
<1>e. Sound(y, stream[r])
  BY <1>1, <1>2, <1>b, <1>c, <1>5, <1>6, <1>7, ReplySound
<1>8. Handling(r)
  BY <1>1 DEF Handling
<1>9. CutFor(y, stream[r])
  BY <1>2, <1>5, <1>7 DEF CutFor
<1> QED  BY <1>1, <1>2, <1>4, <1>5, <1>8, <1>9, <1>e, OneRequest

\* Leave: only that the client has gone.
LEMMA LeaveKeeps ==
  ASSUME Inv, NEW r \in Requests, Leave(r)
  PROVE  Inv'
<1>1. /\ h[r].at = "read"
      /\ h' = [h EXCEPT ![r].gone = TRUE] /\ UNCHANGED <<process, loop, dead, stream>>
  BY DEF Leave
<1>2. /\ stream[r] \in StreamRecord /\ h[r] \in HandlerRecord
      /\ stream' = [stream EXCEPT ![r] = stream[r]]
      /\ Sound(h[r], stream[r]) /\ CutFor(h[r], stream[r])
  BY <1>1, SameStream
<1> DEFINE y == [h[r] EXCEPT !.gone = TRUE]
<1>3. h' = [h EXCEPT ![r] = y]
  BY <1>1 DEF Inv, Types
<1>4. y \in HandlerRecord /\ Sound(y, stream[r]) /\ y.gone
  BY <1>1, <1>2, LeaveSound
<1>6. Handling(r)
  BY <1>1 DEF Handling
<1> HIDE DEF y
<1>7. CutFor(y, stream[r])
  BY <1>4 DEF CutFor
<1> QED  BY <1>1, <1>2, <1>3, <1>4, <1>6, <1>7, OneRequest

\* Every step of a handler, or of its client.
LEMMA HandlingKeeps ==
  ASSUME Inv, NEW r \in Requests, Handler(r) \/ Arrive(r) \/ ArriveBad(r) \/ Leave(r)
  PROVE  Inv'
BY ArriveKeeps, LookUpKeeps, SubmitKeeps, HearKeeps, HearEndKeeps, ReplyKeeps, LeaveKeeps DEF Handler

\* A loop that is closed stays closed, so what was cut short for it still was.
LEMMA LoopKeeps ==
  ASSUME Inv, UNCHANGED <<process, h, stream>>,
         loop' \in [Models -> {"none", "running", "stopping", "failing", "stopped", "failed", "ended"}],
         dead' \subseteq Models,
         \A m \in Models : /\ Closed(m) => Closed(m)'
                           /\ loop[m] = "ended" => loop'[m] = "ended"
  PROVE  Inv'
<1>1. Types'
  BY DEF Inv, Types, process
<1>2. Stage'
  BY DEF Inv, Stage, Handling, process
<1>3. \A r \in Requests : Sound(h[r], stream[r])' /\ CutFor(h[r], stream[r])'
  BY DEF Inv, CutFor
<1> QED  BY <1>1, <1>2, <1>3 DEF Inv

\* Drain: every stream of the model ends, and its engine is closed by then.
LEMMA DrainKeeps ==
  ASSUME Inv, NEW m \in Models, Drain(m)
  PROVE  Inv'
<1>1. /\ h \in [Requests -> HandlerRecord] /\ stream \in [Requests -> StreamRecord]
      /\ loop[m] \in {"stopping", "failing"} /\ UNCHANGED <<process, dead, h>>
      /\ loop' = [loop EXCEPT ![m] = IF @ = "failing" THEN "failed" ELSE "stopped"]
  BY DEF Drain, Inv, Types
<1>a. PICK untold \in SUBSET {r \in Requests : h[r].gone} :
        stream' = [r \in Requests |->
          IF r \in Of(m, {"queued", "active", "held"})
          THEN [stream[r] EXCEPT !.at = "over", !.reason = "cancel",
                                 !.events = IF r \in untold THEN @
                                            ELSE Append(@, Final("done", "cancel"))]
          ELSE stream[r]]
  BY DEF Drain
<1>2. /\ loop' \in [Models -> {"none", "running", "stopping", "failing", "stopped", "failed", "ended"}]
      /\ loop'[m] \in {"failed", "stopped"}
      /\ \A q \in Models : q # m => loop'[q] = loop[q]
  BY <1>1 DEF Inv, Types
<1>3. \A q \in Models : Closed(q) => Closed(q)'
  BY <1>1, <1>2 DEF Closed
<1>4. Closed(m)'
  BY <1>2 DEF Closed
<1>5. \A r \in Requests : /\ stream'[r] \in StreamRecord /\ Sound(h[r], stream'[r])
                          /\ CutFor(h[r], stream[r])'
  <2> SUFFICES ASSUME NEW r \in Requests
               PROVE  /\ stream'[r] \in StreamRecord /\ Sound(h[r], stream'[r])
                      /\ CutFor(h[r], stream[r])'
    OBVIOUS
  <2>1. /\ h[r] \in HandlerRecord /\ stream[r] \in StreamRecord
        /\ Sound(h[r], stream[r]) /\ CutFor(h[r], stream[r])
    BY DEF Inv, Types
  <2>2. CASE r \in Of(m, {"queued", "active", "held"})
    <3>1. h[r].model = m /\ stream[r].at \in {"queued", "active", "held"}
      BY <2>2 DEF Of
    <3>2. PICK q : q = IF r \in untold THEN stream[r].events
                       ELSE Append(stream[r].events, Final("done", "cancel"))
      OBVIOUS
    <3>3. PICK t : t = Ended(stream[r], "cancel", q)
      OBVIOUS
    <3>4. stream'[r] = t
      BY <1>a, <2>2, <3>2, <3>3 DEF Ended
    <3>5. "cancel" \in Causes /\ "done" \in {"done", "error"}
      BY DEF Causes
    <3>6. Reaches(h[r], stream[r], Final("done", "cancel"), q)
      BY <3>2 DEF Reaches
    <3>7. t \in StreamRecord /\ Sound(h[r], t)
      BY ONLY <2>1, <3>1, <3>3, <3>5, <3>6, EndSound
    <3> QED  BY <1>1, <1>4, <3>1, <3>4, <3>7 DEF CutFor
  <2>3. CASE r \notin Of(m, {"queued", "active", "held"})
    <3>1. stream'[r] = stream[r]
      BY <1>a, <2>3
    <3> QED  BY <1>1, <1>3, <2>1, <3>1 DEF CutFor
  <2> QED  BY <2>2, <2>3
<1>6. stream' \in [Requests -> StreamRecord]
  <2>1. DOMAIN stream' = Requests /\ stream' = [r \in Requests |-> stream'[r]]
    BY <1>a
  <2> QED  BY <1>5, <2>1
<1>7. Types'
  BY <1>1, <1>2, <1>6 DEF Inv, Types, process
<1>8. Stage'
  BY <1>1, <1>2 DEF Inv, Stage, Handling, process
<1> QED  BY <1>1, <1>5, <1>7, <1>8 DEF Inv

\* The steps of a loop.
LEMMA EngineKeeps ==
  ASSUME Inv, NEW m \in Models, Engine(m)
  PROVE  Inv'
<1>1. CASE Stops(m)
  <2>1. /\ UNCHANGED <<process, dead, h, stream>> /\ loop[m] = "running"
        /\ \E v \in {"stopping", "failing"} : loop' = [loop EXCEPT ![m] = v]
    BY <1>1 DEF Stops
  <2>2. loop \in [Models -> {"none", "running", "stopping", "failing", "stopped", "failed", "ended"}]
        /\ dead \subseteq Models
    BY DEF Inv, Types
  <2>3. \A q \in Models : Closed(q) => Closed(q)'
    BY <2>1, <2>2 DEF Closed
  <2> QED  BY <2>1, <2>2, <2>3, LoopKeeps
<1>2. CASE RunReturns(m)
  <2>1. /\ UNCHANGED <<process, h, stream>> /\ loop' = [loop EXCEPT ![m] = "ended"]
        /\ dead' \in {dead, dead \cup {m}}
    BY <1>2 DEF RunReturns
  <2>2. loop \in [Models -> {"none", "running", "stopping", "failing", "stopped", "failed", "ended"}]
        /\ dead \subseteq Models
    BY DEF Inv, Types
  <2>3. \A q \in Models : Closed(q) => Closed(q)'
    BY <2>1, <2>2 DEF Closed
  <2> QED  BY <2>1, <2>2, <2>3, LoopKeeps
<1> QED  BY <1>1, <1>2, DrainKeeps DEF Engine

\* serve moves on; what it starts, it starts before there is a request.
LEMMA ServeKeeps ==
  ASSUME Inv, Serve \/ Signal \/ ListenerLost
  PROVE  Inv'
<1>1. UNCHANGED <<h, stream, dead>>
  BY DEF Serve, Signal, ListenerLost, LoadModel, LoadFails, Start, SelftestEnds, ListenerFailed, Signalled,
         ShutdownEnds, LoopsEnded, CloseRunners, Exit
<1>2. \A r \in Requests : Sound(h[r], stream[r])' /\ CutFor(h[r], stream[r])'
  <2>1. CASE UNCHANGED loop
    BY <1>1, <2>1 DEF Inv, CutFor, Closed
  <2>2. CASE Start
    <3> SUFFICES ASSUME NEW r \in Requests
                 PROVE  Sound(h[r], stream[r])' /\ CutFor(h[r], stream[r])'
      OBVIOUS
    <3>1. h[r].at = "idle" /\ Sound(h[r], stream[r])
      BY <2>2 DEF Start, Inv, Stage
    <3>2. stream[r].reason = "none"
      BY <3>1 DEF Sound, Traced, NoStream
    <3> QED  BY <1>1, <3>1, <3>2 DEF CutFor
  <2> QED  BY <2>1, <2>2 DEF Serve, Signal, ListenerLost, LoadModel, LoadFails, SelftestEnds, ListenerFailed,
              Signalled, ShutdownEnds, LoopsEnded, CloseRunners, Exit
<1>3. CASE LoadModel
  <2>1. /\ main = "load" /\ loaded < Len(Order) /\ loaded' = loaded + 1
        /\ runner' = [runner EXCEPT ![Order[loaded + 1]] = "open"]
        /\ UNCHANGED <<main, ctxDone, late, srv, loop, dead, h, stream>>
    BY <1>3 DEF LoadModel
  <2>2. /\ runner' \in [Models -> {"none", "open", "closed"}]
        /\ \A m \in Models : runner'[m] = "closed" => runner[m] = "closed"
    BY <2>1 DEF Inv, Types
  <2>3. Len(Order) \in Nat
    BY ServiceAssumption DEF IsInjective
  <2>4. loaded' \in 0 .. Len(Order)
    BY <2>1, <2>3 DEF Inv, Types
  <2>5. Types'
    BY <2>1, <2>2, <2>4 DEF Inv, Types
  <2>6. Stage'
    BY <2>1, <2>2 DEF Inv, Stage, Handling
  <2> QED  BY <1>2, <2>5, <2>6 DEF Inv
<1>4. CASE CloseRunners
  <2>1. /\ main = "return"
        /\ runner' = [m \in Models |-> IF runner[m] = "open" THEN "closed" ELSE runner[m]]
        /\ UNCHANGED <<main, loaded, ctxDone, late, srv, loop, dead, h, stream>>
    BY <1>4 DEF CloseRunners
  <2>2. Types'
    BY <2>1 DEF Inv, Types
  <2>3. Stage'
    BY <2>1 DEF Inv, Stage, Handling
  <2> QED  BY <1>2, <2>2, <2>3 DEF Inv
<1>5. CASE Start
  <2>1. Types'
    BY <1>5 DEF Inv, Types, Start
  <2>2. Stage'
    BY <1>5 DEF Inv, Types, Stage, Start, Handling
  <2> QED  BY <1>2, <2>1, <2>2 DEF Inv
<1>6. CASE ShutdownEnds
  <2>1. Types'
    BY <1>6 DEF Inv, Types, ShutdownEnds
  <2>2. Stage'
    BY <1>6 DEF Inv, Types, Stage, ShutdownEnds, Handling
  <2> QED  BY <1>2, <2>1, <2>2 DEF Inv
<1>7. CASE LoadFails \/ SelftestEnds \/ Signal \/ ListenerLost \/ ListenerFailed \/ Signalled \/ LoopsEnded \/ Exit
  <2>1. Types'
    BY <1>7 DEF Inv, Types, LoadFails, SelftestEnds, Signal, ListenerLost, ListenerFailed, Signalled, LoopsEnded, Exit
  <2>2. Stage'
    BY <1>7 DEF Inv, Types, Stage, Handling, LoadFails, SelftestEnds, Signal, ListenerLost, ListenerFailed,
                Signalled, LoopsEnded, Exit
  <2> QED  BY <1>2, <2>1, <2>2 DEF Inv
<1> QED  BY <1>3, <1>4, <1>5, <1>6, <1>7 DEF Serve

\* The parts hold in every reachable state.
THEOREM Invariance == Spec => []Inv
<1>1. ASSUME Inv, [Next]_vars PROVE Inv'
  <2>1. CASE UNCHANGED vars
    BY <1>1, <2>1 DEF Inv, Types, Stage, CutFor, Closed, Handling, vars, process
  <2>2. CASE Next
    BY <1>1, <2>1, <2>2, ServeKeeps, EngineKeeps, AnsweringKeeps, HandlingKeeps DEF Next, Terminated
  <2> QED  BY <1>1, <2>1, <2>2
<1> QED  BY Initially, <1>1, PTL DEF Spec

\* The text of an answer to a client that stayed is the text its engine emitted,
\* whole, once and in order, whether it was held, streamed, cut by an error or given back when its
\* calls did not parse (server.go:487-618).
THEOREM TextIsWhole == Spec => []WholeText
<1>1. Inv => WholeText
  <2> SUFFICES ASSUME Inv, NEW r \in Requests, h[r].at = "done", h[r].status = 200,
                      h[r].finish # "tool_calls", ~h[r].gone
               PROVE  h[r].sent = [i \in 1 .. stream[r].emitted |-> i]
    BY DEF WholeText
  <2>1. h[r] \in HandlerRecord /\ Numbered(h[r].sent) /\ Len(h[r].sent) = stream[r].emitted
    BY DEF Inv, Types, Sound, Traced, Exact
  <2> DEFINE q == h[r].sent
  <2>2. q \in Seq(Nat) /\ Numbered(q) /\ Len(q) = stream[r].emitted
    BY <2>1 DEF HandlerRecord
  <2> HIDE DEF q
  <2>3. q = [i \in 1 .. Len(q) |-> i]
    BY <2>2 DEF Numbered
  <2> QED  BY <2>2, <2>3 DEF q
<1> QED  BY Invariance, <1>1, PTL

\* A finish reason says what ended the answer: "length" only for a limit or a
\* full window, and "stop" for the model's own end, unless the client left, its
\* engine closed, or the stream carried an error (server.go:626-637).
THEOREM FinishIsHonest == Spec => []StopMeansEnded
<1>1. Inv => StopMeansEnded
  <2> SUFFICES ASSUME Inv, NEW r \in Requests, h[r].at = "done", h[r].status = 200
               PROVE  /\ h[r].finish = "length" => stream[r].reason \in {"length", "context"}
                      /\ h[r].finish = "stop" =>
                           \/ stream[r].reason \in {"eos", "stop"}
                           \/ h[r].gone \/ h[r].errored \/ Closed(h[r].model)
    BY DEF StopMeansEnded
  <2>1. Sound(h[r], stream[r]) /\ CutFor(h[r], stream[r])
    BY DEF Inv
  <2> QED  BY <2>1 DEF Sound, Traced, Exact, CutFor
<1> QED  BY Invariance, <1>1, PTL

\* serve closes a runner after the loop that decodes with it and, unless
\* Shutdown gave up, after every handler that renders and parses with it
\* (serve.go:172-176, 399-402): when a signal ends it, when a model does not
\* load, and when its listener never came up.  Nothing of the kind holds once a
\* listener that was up is lost (serve.go:390-393).
THEOREM RunnersOutlive == Spec => []RunnerOutlivesUse
<1>1. Inv => RunnerOutlivesUse
  <2> SUFFICES ASSUME Inv, srv # "lost", NEW m \in Models, runner[m] = "closed"
               PROVE  /\ Sequences(m) = {} \/ Closed(m)
                      /\ ~late => \A r \in Requests : h[r].model = m => ~Handling(r)
    BY DEF RunnerOutlivesUse
  <2>1. main \in {"return", "exited"}
    BY DEF Inv, Stage
  <2>2. CASE srv \in {"off", "failed"}
    <3>1. \A r \in Requests : h[r].at = "idle" /\ Sound(h[r], stream[r])
      BY <2>2 DEF Inv, Stage
    <3>2. \A r \in Requests : stream[r].at = "none"
      BY <3>1 DEF Sound, Traced, NoStream
    <3> QED  BY <3>1, <3>2 DEF Sequences, Of, Handling
  <2>3. CASE ~(srv \in {"off", "failed"})
    BY <2>1, <2>3 DEF Inv, Stage, Closed
  <2> QED  BY <2>2, <2>3
<1> QED  BY Invariance, <1>1, PTL

===============================================================================
