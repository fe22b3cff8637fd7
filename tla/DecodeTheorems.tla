---------------------------- MODULE DecodeTheorems ----------------------------
(***************************************************************************)
(* What tick and harvest of internal/engine/engine.go do to the tokens of  *)
(* the sequences, for every model, prompt, drafter and batch: the types of *)
(* the state, what a cache holds while a step is staged, decoded, verified *)
(* and taken back, and what follows for the answers.                       *)
(***************************************************************************)
EXTENDS DecodeState, Induction, SequenceTheorems, TLAPS

---------------------------------------------------------------------------
(* The penalty window of a sequence's sampler is the answer of its request.*)

\* A slot is of a request, or it is none.
Named == \A q \in Seqs :
  /\ slot[q] # NoSlot => "req" \in DOMAIN slot[q] /\ slot[q].req \in Requests
  /\ slot[q].req = None => slot[q] = NoSlot

Shape ==
  /\ pc \in {"top", "media", "pass1", "share", "pass2", "decode", "harvest", "rewind",
             "judge", "dead"}
  /\ slot = [q \in Seqs |-> slot[q]] /\ Named
  /\ window = [q \in Seqs |-> window[q]]
  /\ answer = [r \in Requests |-> answer[r]]
  /\ ended = [r \in Requests |-> ended[r]]

\* No request has two sequences, and one that was never served has no answer.
Apart == \A p, q \in Seqs : p # q /\ slot[p] # NoSlot => slot[p].req # slot[q].req
Unserved == \A r \in Requests : Fresh(r) => answer[r] = <<>>

\* What a range is still to reach is active; the slot harvest is at is not among it.
Ranged ==
  /\ todo \subseteq Active
  /\ pc \in {"top", "decode"} => todo = {}
  /\ pc \in {"rewind", "judge"} => turn.seq \in Active \ todo

\* The window of a sequence, but for the token that ends an answer, which the
\* sampler has accepted and nobody gets.
Own(q) == window[q] = IF slot[q] # NoSlot THEN answer[slot[q].req] ELSE <<>>
Ending(q) == pc \in {"rewind", "judge"} /\ turn.seq = q /\ turn.reason = "stop"
Owned == \A q \in Seqs : Own(q) \/ Ending(q)

Inv == Shape /\ Apart /\ Unserved /\ Ranged /\ Owned

---------------------------------------------------------------------------

\* A step that writes no stream and no window, and leaves its slot to whom it has.
Keeps ==
  /\ slot' = [q \in Seqs |-> slot'[q]]
  /\ \A q \in Seqs : /\ slot[q] = NoSlot => slot'[q] = NoSlot
                     /\ slot[q] # NoSlot => /\ "req" \in DOMAIN slot'[q]
                                            /\ slot'[q].req = slot[q].req
  /\ UNCHANGED <<window, answer, ended>>

\* No request is None.
LEMMA NoSlotFacts == NoSlot.req = None /\ None \notin Requests
  BY DecodeAssumption DEF NoSlot

\* The invariant of the windows holds at first,
LEMMA InvInit == Init => Inv
<1> SUFFICES ASSUME Init PROVE Inv
  OBVIOUS
<1>1. \A q \in Seqs : slot[q] = NoSlot /\ window[q] = <<>>
  BY DEF Init
<1>2. Active = {}
  BY <1>1 DEF Active
<1>3. Shape
  BY <1>1 DEF Init, Shape, Named
<1>4. Apart /\ Unserved /\ Owned
  BY <1>1 DEF Init, Apart, Unserved, Owned, Own
<1>5. Ranged
  BY <1>2 DEF Init, Ranged
<1> QED
  BY <1>3, <1>4, <1>5 DEF Inv

\* What is left to show of a step that Keeps.
LEMMA KeepsInv ==
  ASSUME Inv, Keeps, Ranged',
         pc' \in {"top", "media", "pass1", "share", "pass2", "decode", "harvest", "rewind",
                  "judge", "dead"},
         \A q \in Seqs : Ending(q) => Ending(q)'
  PROVE  Inv'
<1> USE NoSlotFacts
<1>1. \A q \in Seqs : /\ slot'[q] = NoSlot <=> slot[q] = NoSlot
                      /\ slot'[q].req = slot[q].req
  BY DEF Keeps, Inv, Shape, Named
<1>2. Shape'
  BY <1>1 DEF Keeps, Inv, Shape, Named
<1>3. Apart'
  BY <1>1 DEF Inv, Apart
<1>4. Unserved'
  BY <1>1 DEF Keeps, Inv, Unserved, Fresh
<1>5. Owned'
  BY <1>1 DEF Keeps, Inv, Owned, Own
<1> QED
  BY <1>2, <1>3, <1>4, <1>5 DEF Inv

PCs == {"top", "media", "pass1", "share", "pass2", "decode", "harvest", "rewind", "judge", "dead"}

\* A slot that is written and stays with its request.
LEMMA SlotKept ==
  ASSUME Shape, NEW q \in Active, NEW new, "req" \in DOMAIN new, new.req = slot[q].req,
         slot' = [slot EXCEPT ![q] = new], UNCHANGED <<window, answer, ended>>
  PROVE  Keeps
<1>1. \A p \in Seqs : slot'[p] = IF p = q THEN new ELSE slot[p]
  BY DEF Shape
<1>2. slot' = [p \in Seqs |-> slot'[p]]
  BY DEF Shape
<1> QED
  BY <1>1, <1>2 DEF Keeps, Shape, Named, Active

\* A slot that is not written.
LEMMA SlotsKept ==
  ASSUME Shape, UNCHANGED <<slot, window, answer, ended>>
  PROVE  Keeps
BY DEF Keeps, Shape, Named

\* A slot that is freed, with its window.
LEMMA FinishInv ==
  ASSUME Inv, NEW q \in Active, NEW reason, reason # "none", Finish(q, reason), UNCHANGED answer,
         todo' \subseteq todo \ {q}, pc' \in PCs \ {"rewind", "judge"},
         pc' \in {"top", "decode"} => todo' = {},
         pc \in {"rewind", "judge"} => turn.seq = q
  PROVE  Inv'
<1> USE NoSlotFacts
<1>1. \A p \in Seqs : /\ slot'[p] = IF p = q THEN NoSlot ELSE slot[p]
                      /\ window'[p] = IF p = q THEN <<>> ELSE window[p]
  BY DEF Finish, Inv, Shape
<1>2. slot[q] # NoSlot /\ slot[q].req \in Requests /\ q \in Seqs
  BY DEF Inv, Shape, Named, Active
<1>3. \A r \in Requests : ended'[r] = IF r = slot[q].req THEN reason ELSE ended[r]
  BY DEF Finish, Inv, Shape
<1>4. Shape'
  <2>1. Named'
    BY <1>1 DEF Inv, Shape, Named
  <2>2. /\ slot' = [p \in Seqs |-> slot'[p]] /\ window' = [p \in Seqs |-> window'[p]]
        /\ answer' = [r \in Requests |-> answer'[r]] /\ ended' = [r \in Requests |-> ended'[r]]
    BY DEF Finish, Inv, Shape
  <2> QED
    BY <2>1, <2>2 DEF Shape, PCs
<1>5. Apart'
  BY <1>1, <1>2 DEF Inv, Apart, Shape, Named
<1>6. Unserved'
  <2> SUFFICES ASSUME NEW r \in Requests, Fresh(r)' PROVE answer'[r] = <<>>
    BY DEF Unserved
  <2>1. r # slot[q].req /\ ended[r] = "none"
    BY <1>3 DEF Fresh
  <2>2. Fresh(r)
    BY <1>1, <2>1 DEF Fresh
  <2> QED
    BY <2>2 DEF Inv, Unserved
<1>7. Ranged'
  BY <1>1, <1>2 DEF Inv, Ranged, Active, PCs
<1>8. Owned'
  <2> SUFFICES ASSUME NEW p \in Seqs PROVE Own(p)'
    BY DEF Owned
  <2>1. CASE p = q
    BY <1>1, <2>1 DEF Own
  <2>2. CASE p # q
    BY <1>1, <2>2 DEF Inv, Owned, Own, Ending
  <2> QED
    BY <2>1, <2>2
<1> QED
  BY <1>4, <1>5, <1>6, <1>7, <1>8 DEF Inv

---------------------------------------------------------------------------
(* The steps.                                                                *)

\* Admit gives a window to the request it takes.
LEMMA StepAdmit ==
  ASSUME Inv, NEW r \in Requests, NEW q \in Seqs, Admit(r, q)
  PROVE  Inv'
<1> USE NoSlotFacts
<1>1. /\ pc = "top" /\ pc' = "top" /\ slot[q] = NoSlot /\ Fresh(r) /\ todo' = todo /\ turn' = turn
      /\ UNCHANGED <<window, answer, ended>>
  BY DEF Admit, Active, backend, callers
<1>2. \A p \in Seqs : slot'[p] = IF p = q THEN NewSlot(r) ELSE slot[p]
  BY DEF Admit, Inv, Shape
<1>3. "req" \in DOMAIN NewSlot(r) /\ NewSlot(r).req = r
  BY DEF NewSlot
<1>4. Shape'
  <2>1. slot' = [p \in Seqs |-> slot'[p]]
    BY DEF Admit, Inv, Shape
  <2> QED
    BY <1>1, <1>2, <1>3, <2>1 DEF Inv, Shape, Named
<1>5. Apart'
  BY <1>1, <1>2, <1>3 DEF Inv, Apart, Fresh
<1>6. Unserved'
  BY <1>1, <1>2 DEF Inv, Unserved, Fresh
<1>7. Ranged'
  BY <1>1 DEF Inv, Ranged
<1>8. Owned'
  BY <1>1, <1>2, <1>3 DEF Inv, Owned, Own, Ending, Unserved
<1> QED
  BY <1>4, <1>5, <1>6, <1>7, <1>8 DEF Inv

\* Cancel, the ends of the passes and the other steps that write no slot.
LEMMA StepQuiet ==
  ASSUME Inv, UNCHANGED <<slot, window, answer, ended>>, turn' = turn \/ pc = "harvest",
         todo' \subseteq Active, pc' \in PCs,
         pc' \in {"top", "decode"} => todo' = {},
         pc' \in {"rewind", "judge"} => pc \in {"rewind", "judge"} /\ UNCHANGED <<turn, todo>>,
         pc \in {"rewind", "judge"} => pc' \in {"rewind", "judge"} \/ turn.reason = "none"
  PROVE  Inv'
<1>1. Keeps
  BY SlotsKept DEF Inv
<1>2. Active' = Active
  BY DEF Active
<1>3. Ranged'
  BY <1>2 DEF Ranged, Inv
<1>4. \A q \in Seqs : Ending(q) => Ending(q)'
  BY DEF Ending, Inv
<1> QED
  BY <1>1, <1>3, <1>4, KeepsInv DEF PCs

\* The slots that are staged.
LEMMA StepSlot ==
  ASSUME Inv, NEW q \in Active, NEW new, "req" \in DOMAIN new, new.req = slot[q].req,
         slot' = [slot EXCEPT ![q] = new], UNCHANGED <<window, answer, ended, pc>>,
         todo' \subseteq todo, turn' = turn, pc \notin {"rewind", "judge"}
  PROVE  Inv'
<1>1. Keeps
  BY SlotKept DEF Inv
<1>2. \A p \in Seqs : slot'[p] = NoSlot <=> slot[p] = NoSlot
  BY <1>1, NoSlotFacts DEF Keeps, Inv, Shape, Named
<1>3. Active' = Active
  BY <1>2 DEF Active
<1>4. Ranged'
  BY <1>3 DEF Ranged, Inv
<1>5. \A p \in Seqs : Ending(p) => Ending(p)'
  BY DEF Ending
<1> QED
  BY <1>1, <1>4, <1>5, KeepsInv DEF Inv, Shape

\* Every field but req may be written.
LEMMA FieldKept ==
  ASSUME NEW s, "req" \in DOMAIN s, NEW f, f # "req", NEW v
  PROVE  "req" \in DOMAIN [s EXCEPT ![f] = v] /\ [s EXCEPT ![f] = v].req = s.req
OBVIOUS

\* tick begins: the slots forget the step before.
LEMMA StepTop == Inv /\ (TickStart \/ HarvestEnd) => Inv'
<1> SUFFICES ASSUME Inv, TickStart \/ HarvestEnd PROVE Inv'
  OBVIOUS
<1>1. CASE HarvestEnd
  BY <1>1, StepQuiet DEF HarvestEnd, backend, callers, PCs, Inv, Ranged
<1>2. CASE TickStart
  <2>1. /\ pc = "top" /\ pc' = "media" /\ todo' = Active /\ turn' = turn
        /\ UNCHANGED <<window, answer, ended>>
    BY <1>2 DEF TickStart, callers
  <2>2. \A q \in Seqs : slot[q] = NoSlot => slot'[q] = NoSlot
    BY <1>2 DEF TickStart, Active
  <2>3. ASSUME NEW q \in Seqs, slot[q] # NoSlot
        PROVE  "req" \in DOMAIN slot'[q] /\ slot'[q].req = slot[q].req
    <3>1. slot'[q] = [slot[q] EXCEPT !.hasLogits = FALSE, !.draft = <<>>, !.spec = <<>>,
                                     !.committed = <<>>]
      BY <1>2, <2>3 DEF TickStart, Active
    <3> QED
      BY <2>3, <3>1 DEF Inv, Shape, Named
  <2>4. slot' = [q \in Seqs |-> slot'[q]]
    BY <1>2 DEF TickStart
  <2>5. Keeps
    BY <2>1, <2>2, <2>3, <2>4 DEF Keeps
  <2>6. \A q \in Seqs : slot'[q] = NoSlot <=> slot[q] = NoSlot
    BY <2>5, NoSlotFacts DEF Keeps, Inv, Shape, Named
  <2>7. Ranged'
    BY <2>1, <2>6 DEF Ranged, Active
  <2>8. \A q \in Seqs : Ending(q) => Ending(q)'
    BY <2>1 DEF Ending
  <2> QED
    BY <2>1, <2>5, <2>7, <2>8, KeepsInv
<1> QED
  BY <1>1, <1>2

\* Media evaluates a piece of a prompt and samples nothing.
LEMMA StepMedia == Inv /\ ReadMedia => Inv'
<1> SUFFICES ASSUME Inv, ReadMedia PROVE Inv'
  OBVIOUS
<1>1. CASE MediaEnd
  BY <1>1, StepQuiet DEF MediaEnd, backend, callers, PCs
<1>2. ASSUME NEW q \in Seqs, PrefillMedia(q) PROVE Inv'
  <2>1. /\ pc = "media" /\ pc' = pc /\ turn' = turn /\ q \in Active
        /\ todo' = todo \ {q} /\ answer' = answer
    BY <1>2 DEF PrefillMedia, Inv, Ranged
  <2>2. CASE Finish(q, "error")
    BY <2>1, <2>2, FinishInv DEF PCs
  <2>3. CASE slot' = [slot EXCEPT ![q] = [@ EXCEPT !.pos = Len(Prompt[slot[q].req]),
                                                  !.pending = <<>>, !.primed = TRUE,
                                                  !.hasLogits = TRUE]]
             /\ UNCHANGED <<window, ended>>
    <3> DEFINE new == [slot[q] EXCEPT !.pos = Len(Prompt[slot[q].req]), !.pending = <<>>,
                                      !.primed = TRUE, !.hasLogits = TRUE]
    <3>1. slot' = [slot EXCEPT ![q] = new]
      BY <2>3
    <3>2. "req" \in DOMAIN new /\ new.req = slot[q].req
      BY <2>1 DEF Inv, Shape, Named, Active
    <3> HIDE DEF new
    <3> QED
      BY <2>1, <2>3, <3>1, <3>2, StepSlot
  <2> QED
    BY <1>2, <2>2, <2>3 DEF PrefillMedia
<1> QED
  BY <1>1, <1>2 DEF ReadMedia

\* Pass 1 stages; it samples nothing.
LEMMA StepStage == Inv /\ Stage => Inv'
<1> SUFFICES ASSUME Inv, Stage PROVE Inv'
  OBVIOUS
<1>1. CASE Pass1End
  BY <1>1, StepQuiet DEF Pass1End, backend, callers, PCs
<1>2. ASSUME NEW q \in Seqs, SkipNext(q) PROVE Inv'
  BY <1>2, StepQuiet DEF SkipNext, backend, callers, PCs, Inv, Ranged
<1>3. ASSUME NEW q \in Seqs, Running(q), todo' = todo \ {q}, UNCHANGED <<window, answer, ended, pc, turn>>,
             NEW new, "req" \in DOMAIN slot[q] => "req" \in DOMAIN new /\ new.req = slot[q].req,
             slot' = [slot EXCEPT ![q] = new]
      PROVE  Inv'
  <2>1. q \in Active /\ pc = "pass1" /\ "req" \in DOMAIN slot[q]
    BY <1>3 DEF Running, Inv, Ranged, Active, Shape, Named
  <2> QED
    BY <1>3, <2>1, StepSlot
<1>4. ASSUME NEW q \in Seqs, StageNext(q) PROVE Inv'
  <2>1. PICK k \in 0 .. (IF drafting THEN Least(MaxDraft, Room - 1) ELSE 0) : \E draft \in [1 .. k -> Vocabulary] :
          slot' = [slot EXCEPT ![q] =
            [slot[q] EXCEPT !.hasLogits = TRUE, !.draft = draft,
                      !.spec = [i \in 1 .. k + 1 |-> slot[q].pos + i - 1],
                      !.committed = <<slot[q].next>> \o draft,
                      !.replayFrom = slot[q].pos, !.pos = slot[q].pos + k + 1]]
    BY <1>4 DEF StageNext
  <2>2. PICK draft \in [1 .. k -> Vocabulary] :
          slot' = [slot EXCEPT ![q] =
            [slot[q] EXCEPT !.hasLogits = TRUE, !.draft = draft,
                      !.spec = [i \in 1 .. k + 1 |-> slot[q].pos + i - 1],
                      !.committed = <<slot[q].next>> \o draft,
                      !.replayFrom = slot[q].pos, !.pos = slot[q].pos + k + 1]]
    BY <2>1
  <2> QED
    BY <1>3, <1>4, <2>2 DEF StageNext, callers
<1>5. ASSUME NEW q \in Seqs, StageReplay(q) PROVE Inv'
  BY <1>3, <1>5 DEF StageReplay, callers
<1>6. ASSUME NEW q \in Seqs, WaitReplay(q) PROVE Inv'
  BY <1>3, <1>6 DEF WaitReplay, backend, callers
<1> QED
  BY <1>1, <1>2, <1>4, <1>5, <1>6 DEF Stage

\* Pass 2 and sharing stage prompts; they sample nothing.
LEMMA StepPrefill == Inv /\ Prefill => Inv'
<1> SUFFICES ASSUME Inv, Prefill PROVE Inv'
  OBVIOUS
<1>1. CASE ShareEnd
  BY <1>1, StepQuiet DEF ShareEnd, backend, callers, PCs
<1>2. CASE Pass2End
  <2>1. {q \in Active : slot[q].hasLogits} \subseteq Active
    OBVIOUS
  <2> QED
    BY <1>2, <2>1, StepQuiet DEF Pass2End, backend, callers, PCs
<1>3. ASSUME NEW q \in Seqs, Share(q) PROVE Inv'
  <2>1. /\ pc = "share" /\ pc' = pc /\ turn' = turn /\ q \in Active /\ todo' = todo \ {q}
        /\ UNCHANGED <<window, answer, ended>>
    BY <1>3 DEF Share, callers, Inv, Ranged
  <2>2. CASE slot' = slot
    BY <2>1, <2>2, StepQuiet DEF PCs, Inv, Ranged
  <2>3. CASE slot' = [slot EXCEPT ![q] =
                 [slot[q] EXCEPT !.pos = Offer(BestDonor(q), q),
                                 !.pending = SubSeq(@, Offer(BestDonor(q), q) + 1, Len(@))]]
    <3> DEFINE new == [slot[q] EXCEPT !.pos = Offer(BestDonor(q), q),
                         !.pending = SubSeq(@, Offer(BestDonor(q), q) + 1, Len(@))]
    <3>1. slot' = [slot EXCEPT ![q] = new]
      BY <2>3
    <3>2. "req" \in DOMAIN new /\ new.req = slot[q].req
      BY <2>1 DEF Inv, Shape, Named, Active
    <3> HIDE DEF new
    <3> QED
      BY <2>1, <3>1, <3>2, StepSlot
  <2> QED
    BY <1>3, <2>2, <2>3 DEF Share
<1>4. ASSUME NEW q \in Seqs, StagePrompt(q) PROVE Inv'
  <2>1. /\ pc = "pass2" /\ pc' = pc /\ turn' = turn /\ q \in Active /\ todo' = todo \ {q}
        /\ UNCHANGED <<window, answer, ended>>
    BY <1>4 DEF StagePrompt, callers, Inv, Ranged
  <2> DEFINE n == Least(Len(slot[q].pending), Room)
             last == n = Len(slot[q].pending)
             new == [slot[q] EXCEPT !.pos = @ + n, !.pending = SubSeq(@, n + 1, Len(@)),
                       !.primed = last, !.hasLogits = last,
                       !.spec = IF last THEN <<slot[q].pos + n - 1>> ELSE <<>>]
  <2>2. slot' = [slot EXCEPT ![q] = new]
    BY <1>4 DEF StagePrompt
  <2>3. "req" \in DOMAIN new /\ new.req = slot[q].req
    <3> HIDE DEF n, last
    <3> QED
      BY <2>1 DEF Inv, Shape, Named, Active
  <2> HIDE DEF new
  <2> QED
    BY <2>1, <2>2, <2>3, StepSlot
<1> QED
  BY <1>1, <1>2, <1>3, <1>4 DEF Prefill

\* decode, or its failure, which ends what it had staged.
LEMMA StepDecode == Inv /\ Decode => Inv'
<1> SUFFICES ASSUME Inv, Decode PROVE Inv'
  OBVIOUS
<1>1. CASE DecodeOk
  <2>1. {q \in Active : slot[q].hasLogits} \subseteq Active
    OBVIOUS
  <2> QED
    BY <1>1, <2>1, StepQuiet DEF DecodeOk, callers, PCs
<1>2. ASSUME NEW q \in Seqs, DecodeNoKV(q) PROVE Inv'
  BY <1>2, FinishInv DEF DecodeNoKV, PCs, Inv, Ranged
<1>3. CASE DecodeRefused
  <2>1. /\ pc' = "dead" /\ todo' = todo /\ answer' = answer /\ todo = {}
        /\ slot' = [q \in Seqs |-> NoSlot] /\ window' = [q \in Seqs |-> <<>>]
    BY <1>3 DEF DecodeRefused, Inv, Ranged
  <2>2. ended' = [r \in Requests |->
          IF \E q \in Active : slot[q].req = r THEN "cancel" ELSE ended[r]]
    BY <1>3 DEF DecodeRefused
  <2>3. Shape'
    BY <2>1, <2>2, NoSlotFacts DEF Inv, Shape, Named
  <2>4. Unserved'
    <3> SUFFICES ASSUME NEW r \in Requests, Fresh(r)' PROVE answer[r] = <<>>
      BY <2>1 DEF Unserved
    <3>1. ended[r] = "none" /\ \A q \in Active : slot[q].req # r
      BY <2>2 DEF Fresh
    <3>2. Fresh(r)
      BY <3>1, NoSlotFacts DEF Fresh, Active
    <3> QED
      BY <3>2 DEF Inv, Unserved
  <2>5. Apart' /\ Ranged' /\ Owned'
    BY <2>1 DEF Apart, Ranged, Owned, Own, Active
  <2> QED
    BY <2>3, <2>4, <2>5 DEF Inv
<1> QED
  BY <1>1, <1>2, <1>3 DEF Decode

\* The sampler accepts the token that ends an answer; every other token that it
\* accepts is emitted.
LEMMA VerifyOwns ==
  ASSUME Inv, NEW q \in Seqs, HarvestVerify(q)
  PROVE  /\ q \in Active /\ pc' \in {"rewind", "judge"} /\ turn'.seq = q
         /\ \/ Own(q)'
            \/ Ending(q)'
<1>1. q \in Active /\ pc = "harvest"
  BY DEF HarvestVerify, Inv, Ranged
<1>2. pc' \in {"rewind", "judge"} /\ turn'.seq = q
  BY DEF HarvestVerify
<1>3. slot[q] # NoSlot /\ slot[q].req \in Requests /\ Own(q)
  BY <1>1 DEF Active, Inv, Shape, Named, Owned, Ending
<1>4. slot'[q] # NoSlot /\ slot'[q].req = slot[q].req
  <2> DEFINE new == [slot[q] EXCEPT !.next = IF Emitted(q) = <<>> THEN @ ELSE Last(Emitted(q)),
                                    !.pos = @ - (Len(slot[q].spec) - Kept(q))]
  <2>1. slot' = [slot EXCEPT ![q] = new]
    BY DEF HarvestVerify
  <2>2. "req" \in DOMAIN new /\ new.req = slot[q].req
    BY <1>3 DEF Inv, Shape, Named
  <2> HIDE DEF new
  <2> QED
    BY <2>1, <2>2, <1>3, NoSlotFacts DEF Inv, Shape
<1>5. CASE Stopped(q)
  BY <1>1, <1>2, <1>5 DEF HarvestVerify, Ending
<1>6. CASE ~Stopped(q)
  <2>1. Emitted(q) = SubSeq(Tokens(q), 1, Kept(q))
    BY <1>6 DEF Emitted
  <2>2. /\ answer'[slot[q].req] = answer[slot[q].req] \o SubSeq(Tokens(q), 1, Kept(q))
        /\ window'[q] = window[q] \o SubSeq(Tokens(q), 1, Kept(q))
    BY <2>1, <1>3 DEF HarvestVerify, Inv, Shape
  <2> QED
    BY <1>1, <1>2, <1>3, <1>4, <2>2 DEF Own
<1> QED
  BY <1>1, <1>2, <1>5, <1>6

\* Verification is where a window and an answer grow.
LEMMA StepVerify ==
  ASSUME Inv, NEW q \in Seqs, HarvestVerify(q)
  PROVE  Inv'
<1> USE NoSlotFacts
<1>1. /\ q \in Active /\ pc = "harvest" /\ pc' \in {"rewind", "judge"} /\ turn'.seq = q
      /\ Own(q)' \/ Ending(q)'
  BY VerifyOwns DEF HarvestVerify
<1>2. /\ todo' = todo \ {q} /\ ended' = ended
      /\ \A p \in Seqs \ {q} : slot'[p] = slot[p] /\ window'[p] = window[p]
      /\ \A r \in Requests : r # slot[q].req => answer'[r] = answer[r]
  BY DEF HarvestVerify, Inv, Shape
<1>3. slot[q] # NoSlot /\ "req" \in DOMAIN slot[q] /\ slot[q].req \in Requests
  BY <1>1 DEF Active, Inv, Shape, Named
<1>4. slot'[q] # NoSlot /\ "req" \in DOMAIN slot'[q] /\ slot'[q].req = slot[q].req
  <2> DEFINE new == [slot[q] EXCEPT !.next = IF Emitted(q) = <<>> THEN @ ELSE Last(Emitted(q)),
                                    !.pos = @ - (Len(slot[q].spec) - Kept(q))]
  <2>1. slot' = [slot EXCEPT ![q] = new]
    BY DEF HarvestVerify
  <2>2. "req" \in DOMAIN new /\ new.req = slot[q].req
    BY <1>3
  <2> HIDE DEF new
  <2> QED
    BY <2>1, <2>2, <1>3 DEF Inv, Shape
<1>5. Shape'
  <2>1. Named'
    BY <1>2, <1>3, <1>4 DEF Inv, Shape, Named
  <2>2. /\ slot' = [p \in Seqs |-> slot'[p]] /\ window' = [p \in Seqs |-> window'[p]]
        /\ answer' = [r \in Requests |-> answer'[r]] /\ ended' = [r \in Requests |-> ended'[r]]
    BY DEF HarvestVerify, Inv, Shape
  <2> QED
    BY <1>1, <2>1, <2>2 DEF Shape
<1>6. Apart'
  BY <1>2, <1>3, <1>4 DEF Inv, Apart
<1>7. Unserved'
  BY <1>2, <1>3, <1>4 DEF Inv, Unserved, Fresh
<1>8. Active' = Active
  BY <1>2, <1>3, <1>4 DEF Active
<1>9. Ranged'
  BY <1>1, <1>2, <1>8 DEF Inv, Ranged
<1>10. Owned'
  <2> SUFFICES ASSUME NEW p \in Seqs \ {q} PROVE Own(p)'
    BY <1>1 DEF Owned
  <2>1. Own(p)
    BY <1>1 DEF Inv, Owned, Ending
  <2>2. slot[p] # NoSlot => answer'[slot[p].req] = answer[slot[p].req]
    BY <1>2, <1>3 DEF Inv, Apart, Shape, Named
  <2> QED
    BY <1>2, <2>1, <2>2 DEF Own
<1> QED
  BY <1>5, <1>6, <1>7, <1>9, <1>10 DEF Inv

\* What is rolled back is of the cache, not of the window.
LEMMA StepRollback == Inv /\ Rollback => Inv'
<1> SUFFICES ASSUME Inv, Rollback PROVE Inv'
  OBVIOUS
<1> DEFINE q == turn.seq
           new == [slot[q] EXCEPT !.replay = SubSeq(slot[q].committed, 1, turn.kept),
                                  !.pos = slot[q].replayFrom]
<1>1. /\ pc = "rewind" /\ pc' = "judge" /\ q \in Active \ todo
      /\ UNCHANGED <<todo, turn, window, answer, ended>>
  BY DEF Rollback, callers, Inv, Ranged
<1>2. slot' = [slot EXCEPT ![q] = new]
  BY DEF Rollback
<1>3. "req" \in DOMAIN new /\ new.req = slot[q].req
  BY <1>1 DEF Inv, Shape, Named, Active
<1> HIDE DEF new
<1>4. Keeps
  <2> HIDE DEF q
  <2> QED
    BY <1>1, <1>2, <1>3, SlotKept DEF Inv
<1>5. Active' = Active
  BY <1>4, NoSlotFacts DEF Keeps, Inv, Shape, Named, Active
<1>6. Ranged'
  BY <1>1, <1>5 DEF Inv, Ranged
<1>7. \A p \in Seqs : Ending(p) => Ending(p)'
  BY <1>1 DEF Ending
<1> QED
  BY <1>1, <1>4, <1>6, <1>7, KeepsInv

\* What ends a stream frees its window.
LEMMA StepHarvest == Inv /\ Harvest => Inv'
<1> SUFFICES ASSUME Inv, Harvest PROVE Inv'
  OBVIOUS
<1>1. ASSUME NEW q \in Seqs, HarvestCancelled(q) PROVE Inv'
  BY <1>1, FinishInv DEF HarvestCancelled, PCs, Inv, Ranged
<1>2. ASSUME NEW q \in Seqs, HarvestVerify(q) PROVE Inv'
  BY <1>2, StepVerify
<1>3. CASE Trim
  BY <1>3, StepQuiet DEF Trim, callers, PCs, Inv, Ranged
<1>4. CASE Rollback
  BY <1>4, StepRollback
<1>5. CASE RewindFail
  BY <1>5, FinishInv DEF RewindFail, PCs, Inv, Ranged
<1>6. CASE JudgeEnd
  <2> DEFINE reason == IF turn.reason # "none" THEN turn.reason ELSE "context"
  <2>1. reason # "none" /\ Finish(turn.seq, reason)
    BY <1>6 DEF JudgeEnd
  <2> HIDE DEF reason
  <2> QED
    BY <1>6, <2>1, FinishInv DEF JudgeEnd, PCs, Inv, Ranged
<1>7. CASE JudgeOn
  BY <1>7, StepQuiet DEF JudgeOn, Over, backend, callers, PCs, Inv, Ranged
<1>8. CASE HarvestEnd
  BY <1>8, StepTop
<1> QED
  BY <1>1, <1>2, <1>3, <1>4, <1>5, <1>6, <1>7, <1>8 DEF Harvest

\* Steps that touch no slot.
LEMMA StepOther ==
  Inv /\ (Terminated \/ \E r \in Requests : Cancel(r) \/ \E q \in Seqs : Admit(r, q)) => Inv'
<1> SUFFICES ASSUME Inv, Terminated \/ \E r \in Requests : Cancel(r) \/ \E q \in Seqs : Admit(r, q)
             PROVE  Inv'
  OBVIOUS
<1>1. ASSUME UNCHANGED <<slot, window, answer, ended, pc, todo, turn>> PROVE Inv'
  BY <1>1, StepQuiet DEF Inv, Ranged, Shape, PCs
<1>2. CASE Terminated
  BY <1>1, <1>2 DEF Terminated, vars, backend, callers
<1>3. ASSUME NEW r \in Requests, Cancel(r) PROVE Inv'
  BY <1>1, <1>3 DEF Cancel, backend
<1> QED
  BY <1>2, <1>3, StepAdmit

---------------------------------------------------------------------------

\* and every step keeps it.
LEMMA InvNext == Inv /\ [Next]_vars => Inv'
<1> SUFFICES ASSUME Inv, [Next]_vars PROVE Inv'
  OBVIOUS
<1>1. CASE UNCHANGED vars
  BY <1>1, StepQuiet DEF vars, backend, callers, Inv, Ranged, Shape, PCs
<1>2. CASE Next
  BY <1>2, StepTop, StepMedia, StepStage, StepPrefill, StepDecode, StepHarvest, StepOther
    DEF Next, Tick
<1> QED
  BY <1>1, <1>2

\* What it says of the windows.
LEMMA InvOwn == Inv => WindowIsOwn
BY DEF Inv, Owned, Own, Ending, WindowIsOwn, Active

\* finish, FreeSeq and the clone that verify samples with (engine.go): between
\* the steps of harvest the penalty window of a sequence is what its request
\* was given, no rejected draft and nothing of the request before it, whatever
\* the drafter proposes and whichever calls of the backend fail.
THEOREM SamplersOwn == Spec => []WindowIsOwn
<1>1. Init => Inv
  BY InvInit
<1>2. Inv /\ [Next]_vars => Inv'
  BY InvNext
<1>3. Inv => WindowIsOwn
  BY InvOwn
<1> QED
  BY <1>1, <1>2, <1>3, PTL DEF Spec

Token == Vocabulary \cup {Garbage}

---------------------------------------------------------------------------
(* Cells and the tokens they hold.                                           *)

\* The cells of the first m tokens of a text.
Held(t, m) == CellsFrom(0, SubSeq(t, 1, m))

\* The cells, one by one.
LEMMA HeldIs ==
  ASSUME NEW S, NEW t \in Seq(S), NEW m \in 0 .. Len(t)
  PROVE  Held(t, m) = {<<i - 1, t[i]>> : i \in 1 .. m}
<1>1. /\ DOMAIN SubSeq(t, 1, m) = 1 .. m
      /\ \A i \in 1 .. m : SubSeq(t, 1, m)[i] = t[i]
  OBVIOUS
<1> QED
  BY <1>1 DEF Held, CellsFrom

\* A trim leaves the cells of a shorter text.
LEMMA HeldBefore ==
  ASSUME NEW S, NEW t \in Seq(S), NEW m \in 0 .. Len(t), NEW n \in Nat
  PROVE  CellsBefore(Held(t, m), n) = Held(t, Least(m, n))
<1>1. Least(m, n) \in 0 .. Len(t) /\ \A i \in Nat : i \in 1 .. Least(m, n) <=> i \in 1 .. m /\ i - 1 < n
  BY DEF Least
<1>2. Held(t, m) = {<<i - 1, t[i]>> : i \in 1 .. m}
  BY HeldIs
<1>3. Held(t, Least(m, n)) = {<<i - 1, t[i]>> : i \in 1 .. Least(m, n)}
  BY <1>1, HeldIs
<1> QED
  BY <1>1, <1>2, <1>3 DEF CellsBefore

\* A piece goes on where the cells end.
LEMMA HeldMore ==
  ASSUME NEW S, NEW t \in Seq(S), NEW m \in 0 .. Len(t), NEW p \in m .. Len(t)
  PROVE  Held(t, m) \cup CellsFrom(m, SubSeq(t, m + 1, p)) = Held(t, p)
<1>1. /\ DOMAIN SubSeq(t, m + 1, p) = 1 .. p - m
      /\ \A i \in 1 .. p - m : SubSeq(t, m + 1, p)[i] = t[m + i]
  OBVIOUS
<1>2. CellsFrom(m, SubSeq(t, m + 1, p)) = {<<i - 1, t[i]>> : i \in m + 1 .. p}
  <2>1. CellsFrom(m, SubSeq(t, m + 1, p)) = {<<m + i - 1, t[m + i]>> : i \in 1 .. p - m}
    BY <1>1 DEF CellsFrom
  <2>2. \A i \in 1 .. p - m : m + i \in m + 1 .. p
    OBVIOUS
  <2>3. \A i \in m + 1 .. p : i - m \in 1 .. p - m /\ m + (i - m) = i
    OBVIOUS
  <2>4. \A i \in m + 1 .. p : <<i - 1, t[i]>> = <<m + (i - m) - 1, t[m + (i - m)]>>
    BY <2>3
  <2>5. \A i \in 1 .. p - m : m + i - 1 = (m + i) - 1
    OBVIOUS
  <2> DEFINE R == {<<i - 1, t[i]>> : i \in m + 1 .. p}
             L == {<<m + i - 1, t[m + i]>> : i \in 1 .. p - m}
  <2>6. ASSUME NEW c \in L PROVE c \in R
    BY <2>2, <2>5
  <2>7. ASSUME NEW c \in R PROVE c \in L
    BY <2>3, <2>4
  <2> QED
    BY <2>1, <2>6, <2>7
<1>3. Held(t, m) = {<<i - 1, t[i]>> : i \in 1 .. m} /\ Held(t, p) = {<<i - 1, t[i]>> : i \in 1 .. p}
  BY HeldIs
<1> QED
  BY <1>2, <1>3

\* Texts that agree up to m fill the same cells.
LEMMA HeldAlike ==
  ASSUME NEW S, NEW t \in Seq(S), NEW u \in Seq(S), NEW m \in Nat, m <= Len(t), m <= Len(u),
         \A i \in 1 .. m : t[i] = u[i]
  PROVE  Held(t, m) = Held(u, m) /\ SubSeq(t, 1, m) = SubSeq(u, 1, m)
<1>1. SubSeq(t, 1, m) = SubSeq(u, 1, m)
  <2>1. /\ SubSeq(t, 1, m) \in Seq(S) /\ SubSeq(u, 1, m) \in Seq(S)
        /\ Len(SubSeq(t, 1, m)) = m /\ Len(SubSeq(u, 1, m)) = m
        /\ \A i \in 1 .. m : SubSeq(t, 1, m)[i] = SubSeq(u, 1, m)[i]
    OBVIOUS
  <2> QED
    BY <2>1, SeqEqual
<1> QED
  BY <1>1 DEF Held

\* The cells of a shorter text are among those of a longer one.
LEMMA HeldJoin ==
  ASSUME NEW S, NEW t \in Seq(S), NEW m \in 0 .. Len(t), NEW n \in 0 .. m
  PROVE  Held(t, m) \cup Held(t, n) = Held(t, m) /\ Held(t, n) \cup Held(t, m) = Held(t, m)
<1>0. n \in 0 .. Len(t)
  OBVIOUS
<1>1. /\ Held(t, m) = {<<i - 1, t[i]>> : i \in 1 .. m}
      /\ Held(t, n) = {<<i - 1, t[i]>> : i \in 1 .. n}
  <2>1. Held(t, m) = {<<i - 1, t[i]>> : i \in 1 .. m}
    BY HeldIs
  <2>2. Held(t, n) = {<<i - 1, t[i]>> : i \in 1 .. n}
    BY <1>0, HeldIs
  <2> QED
    BY <2>1, <2>2
<1> QED
  BY <1>1

\* The last position in use.
LEMMA HeldEnd ==
  ASSUME NEW S, NEW t \in Seq(S), NEW m \in 0 .. Len(t)
  PROVE  PosMax(Held(t, m)) = m - 1
<1>1. Held(t, m) = {<<i - 1, t[i]>> : i \in 1 .. m}
  BY HeldIs
<1>2. CASE m = 0
  BY <1>1, <1>2 DEF PosMax
<1>3. CASE m > 0
  <2>1. <<m - 1, t[m]>> \in Held(t, m)
    BY <1>1, <1>3
  <2> DEFINE C == {c[1] : c \in Held(t, m)}
  <2>2. C = 0 .. m - 1
    <3>1. C = {<<i - 1, t[i]>>[1] : i \in 1 .. m}
      BY <1>1
    <3>2. \A i \in 1 .. m : <<i - 1, t[i]>>[1] = i - 1
      OBVIOUS
    <3>3. \A j \in 0 .. m - 1 : j + 1 \in 1 .. m /\ j = (j + 1) - 1
      OBVIOUS
    <3> HIDE DEF C
    <3> QED
      BY <3>1, <3>2, <3>3
  <2> HIDE DEF C
  <2>3. Max(C) = m - 1
    BY <1>3, <2>2 DEF Max
  <2> QED
    BY <2>1, <2>3 DEF PosMax, C
<1> QED
  BY <1>2, <1>3

\* Cells say how many tokens they hold.
LEMMA HeldOnce ==
  ASSUME NEW S, NEW t \in Seq(S), NEW m \in 0 .. Len(t), NEW n \in 0 .. Len(t),
         Held(t, m) = Held(t, n)
  PROVE  m = n
<1>1. PosMax(Held(t, m)) = m - 1 /\ PosMax(Held(t, n)) = n - 1
  BY HeldEnd
<1> QED
  BY <1>1

\* A piece goes on where the text is cut.
LEMMA Cut ==
  ASSUME NEW S, NEW t \in Seq(S), NEW m \in 0 .. Len(t), NEW p \in m .. Len(t)
  PROVE  SubSeq(t, 1, m) \o SubSeq(t, m + 1, p) = SubSeq(t, 1, p)
BY ConcatAdjacentSubSeq

\* A draft changes nothing of the text before it.
LEMMA CutLine ==
  ASSUME NEW S, NEW h \in Seq(S), NEW d \in Seq(S), NEW m \in 0 .. Len(h)
  PROVE  /\ SubSeq(h \o d, 1, m) = SubSeq(h, 1, m)
         /\ Held(h \o d, m) = Held(h, m)
<1>1. h \o d \in Seq(S) /\ Len(h \o d) = Len(h) + Len(d) /\ \A i \in 1 .. m : (h \o d)[i] = h[i]
  OBVIOUS
<1>2. m \in Nat /\ m <= Len(h) /\ m <= Len(h \o d)
  BY <1>1
<1> QED
  BY <1>1, <1>2, HeldAlike

\* One cell for each position, with its token.
LEMMA HeldCount ==
  ASSUME NEW S, NEW t \in Seq(S), NEW m \in 0 .. Len(t)
  PROVE  /\ {c[1] : c \in Held(t, m)} = 0 .. m - 1
         /\ Cardinality(Held(t, m)) = m
         /\ \A i \in 1 .. m : \A c \in Held(t, m) : c[1] = i - 1 => c[2] = t[i]
         /\ \A i \in 1 .. m : \E c \in Held(t, m) : c[1] = i - 1
<1>1. Held(t, m) = {<<i - 1, t[i]>> : i \in 1 .. m}
  BY HeldIs
<1>2. \A i \in 1 .. m : <<i - 1, t[i]>> \in Held(t, m)
  BY <1>1
<1>3. \A c \in Held(t, m) : c[1] + 1 \in 1 .. m /\ c = <<c[1], t[c[1] + 1]>>
  BY <1>1
<1>4. {c[1] : c \in Held(t, m)} = 0 .. m - 1
  <2>1. \A j \in 0 .. m - 1 : j + 1 \in 1 .. m /\ <<(j + 1) - 1, t[j + 1]>>[1] = j
    OBVIOUS
  <2>2. \A j \in 0 .. m - 1 : \E c \in Held(t, m) : c[1] = j
    BY <1>2, <2>1
  <2>3. \A c \in Held(t, m) : c[1] \in 0 .. m - 1
    BY <1>1
  <2> QED
    BY <2>2, <2>3
<1>5. Cardinality(Held(t, m)) = m
  <2> DEFINE f == [i \in 1 .. m |-> <<i - 1, t[i]>>]
  <2>1. f \in [1 .. m -> Held(t, m)]
    BY <1>2
  <2>2. \A i, j \in 1 .. m : f[i] = f[j] => i = j
    OBVIOUS
  <2>3. ASSUME NEW c \in Held(t, m) PROVE \E i \in 1 .. m : f[i] = c
    <3>1. PICK i \in 1 .. m : c = <<i - 1, t[i]>>
      BY <1>1
    <3> QED
      BY <3>1
  <2> HIDE DEF f
  <2>4. ExistsBijection(1 .. m, Held(t, m))
    BY <2>1, <2>2, <2>3 DEF ExistsBijection, Bijection, Injection, Surjection, IsInjective
  <2>5. IsFiniteSet(1 .. m) /\ Cardinality(1 .. m) = m
    <3>1. 1 \in Int /\ m \in Int
      OBVIOUS
    <3> QED
      BY <3>1, FS_Interval
  <2> QED
    BY <2>4, <2>5, FS_Bijection
<1>6. \A i \in 1 .. m : \A c \in Held(t, m) : c[1] = i - 1 => c[2] = t[i]
  BY <1>1
<1>7. \A i \in 1 .. m : \E c \in Held(t, m) : c[1] = i - 1
  BY <1>2
<1> QED
  BY <1>4, <1>5, <1>6, <1>7

\* What the model reads at a position of a cache that holds a text.
LEMMA SampleIs ==
  ASSUME NEW q \in Seqs, NEW S, NEW t \in Seq(S), NEW p \in 0 .. Len(t) - 1,
         cells[q] = Held(t, Len(t)), cache = "rewind" => state[q] = t
  PROVE  Sample(q, p) = Target(SubSeq(t, 1, p + 1))
<1> DEFINE C == CellsBefore(cells[q], p + 1)
           h == [i \in 1 .. p + 1 |-> (CHOOSE c \in C : c[1] = i - 1)[2]]
           u == SubSeq(t, 1, p + 1)
           sound == /\ {c[1] : c \in C} = 0 .. p /\ Cardinality(C) = p + 1
                    /\ cache = "rewind" => IsPrefix(h, state[q])
<1>1. C = Held(t, p + 1)
  <2>1. Len(t) \in 0 .. Len(t) /\ p + 1 \in Nat /\ Least(Len(t), p + 1) = p + 1
    BY DEF Least
  <2> QED
    BY <2>1, HeldBefore
<1>2. p + 1 \in 0 .. Len(t)
  OBVIOUS
<1>3. /\ {c[1] : c \in C} = 0 .. p /\ Cardinality(C) = p + 1
      /\ \A i \in 1 .. p + 1 : \A c \in C : c[1] = i - 1 => c[2] = t[i]
      /\ \A i \in 1 .. p + 1 : \E c \in C : c[1] = i - 1
  <2> HIDE DEF C
  <2>1. (p + 1) - 1 = p
    OBVIOUS
  <2> QED
    BY <1>1, <1>2, <2>1, HeldCount
<1>4. u \in Seq(S) /\ Len(u) = p + 1 /\ u = [i \in 1 .. p + 1 |-> t[i]]
  OBVIOUS
<1>5. h = u
  <2>1. \A i \in 1 .. p + 1 : (CHOOSE c \in C : c[1] = i - 1)[2] = t[i]
    <3> HIDE DEF C
    <3> QED
      BY <1>3
  <2> QED
    BY <1>4, <2>1
<1>6. cache = "rewind" => IsPrefix(h, state[q])
  <2>1. SubSeq(u, 1, Len(u)) = u
    BY <1>4, SubSeqFull
  <2>2. Len(u) <= Len(t)
    BY <1>4
  <2> HIDE DEF h, u
  <2> QED
    BY <1>4, <1>5, <2>1, <2>2 DEF IsPrefix, u
<1>7. sound
  BY <1>3, <1>6
<1>8. Sample(q, p) = IF sound THEN Target(h) ELSE Garbage
  BY DEF Sample
<1> HIDE DEF sound, h
<1> QED
  BY <1>5, <1>7, <1>8

---------------------------------------------------------------------------
(* What verify keeps.                                                        *)

\* Min of a set of numbers is the least of them.
LEMMA Least1 ==
  ASSUME NEW I \in SUBSET Nat, I # {}
  PROVE  Min(I) \in I /\ \A i \in I : Min(I) <= i
<1>1. \E n \in I : \A m \in I : n <= m
  BY SmallestNumber
<1> QED
  BY <1>1 DEF Min

\* verify stops at a token of the staged positions.
Stops(q, i) ==
  LET s == slot[q] IN
  \/ Tokens(q)[i] = EOS \/ LimitAt(q, i) \/ i = Len(s.spec)
  \/ i \in DOMAIN s.draft /\ s.draft[i] # Tokens(q)[i]

\* verify keeps up to the first sample that ends a run or differs from its draft.
LEMMA KeptIs ==
  ASSUME NEW q \in Seqs, slot[q].spec \in Seq(Nat), slot[q].spec # <<>>
  PROVE  /\ Kept(q) \in 1 .. Len(slot[q].spec)
         /\ Stops(q, Kept(q))
         /\ \A i \in 1 .. Kept(q) - 1 : ~Stops(q, i)
<1> DEFINE n == Len(slot[q].spec)
           I == {i \in 1 .. n : Stops(q, i)}
<1>1. n \in Nat \ {0} /\ DOMAIN slot[q].spec = 1 .. n
  OBVIOUS
<1>2. n \in I
  BY <1>1 DEF Stops
<1> DEFINE f == [i \in 1 .. n |-> Stops(q, i)]
<1>3. Kept(q) = SelectInSeq(f, LAMBDA b : b)
  BY <1>1, Zenon DEF Kept, Stops
<1>4. Kept(q) = LET J == {i \in 1 .. Len(f) : f[i]} IN IF J # {} THEN Min(J) ELSE 0
  BY <1>3 DEF SelectInSeq
<1>5. {i \in 1 .. Len(f) : f[i]} = I
  <2>1. Len(f) = n
    BY <1>1
  <2>2. \A i \in 1 .. n : f[i] = Stops(q, i)
    BY Zenon
  <2> HIDE DEF f
  <2> QED
    BY <2>1, <2>2, Zenon
<1> HIDE DEF f
<1>6. Kept(q) = Min(I)
  BY <1>2, <1>4, <1>5
<1>7. \A i \in Nat : i \in I <=> i \in 1 .. n /\ Stops(q, i)
  BY <1>1
<1>8. I \in SUBSET Nat /\ I # {} /\ I \subseteq 1 .. n
  BY <1>1, <1>2
<1> HIDE DEF I
<1>9. Min(I) \in I /\ \A i \in I : Min(I) <= i
  BY <1>8, Least1
<1> DEFINE k == Min(I)
<1>10. k \in I /\ k \in 1 .. n /\ Stops(q, k)
  BY <1>1, <1>7, <1>8, <1>9
<1>11. \A i \in 1 .. k - 1 : i \in Nat /\ i \in 1 .. n /\ ~(k <= i)
  BY <1>1, <1>10
<1>12. \A i \in 1 .. k - 1 : ~Stops(q, i)
  BY <1>7, <1>9, <1>11
<1> HIDE DEF k
<1> QED
  BY <1>6, <1>10, <1>12 DEF k

---------------------------------------------------------------------------
(* The prefixes of prompts, and the room of a batch.                         *)

\* The smaller of two numbers.
LEMMA LeastIs == \A a, b \in Int : Least(a, b) \in {a, b} /\ Least(a, b) <= a /\ Least(a, b) <= b
BY DEF Least

\* The common prefix of two texts is a prefix of both.
LEMMA CommonPrefixIs ==
  ASSUME NEW S, NEW a \in Seq(S), NEW b \in Seq(S)
  PROVE  /\ CommonPrefix(a, b) \in Nat
         /\ CommonPrefix(a, b) <= Len(a) /\ CommonPrefix(a, b) <= Len(b)
         /\ \A i \in 1 .. CommonPrefix(a, b) : a[i] = b[i]
<1> DEFINE P == CommonPrefixes({a, b})
           N == {Len(a) - Len(x) : x \in P}
<1>1. \A x \in P : /\ x \in Seq(S) /\ IsPrefix(x, a) /\ IsPrefix(x, b)
                   /\ Len(x) <= Len(a) /\ Len(x) <= Len(b)
  <2> SUFFICES ASSUME NEW x \in P
               PROVE  /\ x \in Seq(S) /\ IsPrefix(x, a) /\ IsPrefix(x, b)
                      /\ Len(x) <= Len(a) /\ Len(x) <= Len(b)
    OBVIOUS
  <2>1. IsPrefix(x, a) /\ IsPrefix(x, b) /\ (x \in Prefixes(a) \/ x \in Prefixes(b))
    BY DEF CommonPrefixes
  <2>2. x \in Seq(S)
    BY <2>1 DEF Prefixes
  <2> QED
    BY <2>1, <2>2 DEF IsPrefix
<1>2. <<>> \in P
  <2>1. 0 \in 0 .. Len(a) /\ SubSeq(a, 1, 0) = <<>> /\ SubSeq(b, 1, 0) = <<>> /\ SubSeq(<<>>, 1, 0) = <<>>
    OBVIOUS
  <2>2. <<>> \in Prefixes(a)
    BY <2>1 DEF Prefixes
  <2>3. IsPrefix(<<>>, a) /\ IsPrefix(<<>>, b)
    BY <2>1 DEF IsPrefix
  <2> QED
    BY <2>2, <2>3 DEF CommonPrefixes
<1>3. \E x \in P : \A y \in P : Len(y) <= Len(x)
  <2>1. N # {} /\ N \subseteq Nat
    <3> HIDE DEF P
    <3>1. \A x \in P : Len(x) \in Nat /\ Len(a) \in Nat /\ Len(x) <= Len(a)
      BY <1>1
    <3> QED
      BY <1>2, <3>1
  <2>2. PICK n \in N : \A m \in N : n <= m
    <3> HIDE DEF N
    <3> QED
      BY <2>1, SmallestNumber
  <2>3. PICK x \in P : n = Len(a) - Len(x)
    OBVIOUS
  <2>4. \A y \in P : Len(a) - Len(x) <= Len(a) - Len(y)
    BY <2>2, <2>3
  <2>5. \A y \in P : Len(y) \in Nat
    BY <1>1
  <2> HIDE DEF P
  <2> QED
    BY <2>4, <2>5
<1> DEFINE l == LongestCommonPrefix({a, b})
<1>4. l \in P
  <2> HIDE DEF P
  <2>1. l = CHOOSE x \in P : \A y \in P : Len(y) <= Len(x)
    BY DEF LongestCommonPrefix, P
  <2> HIDE DEF l
  <2> QED
    BY <1>3, <2>1
<1> HIDE DEF l, P
<1>5. l \in Seq(S) /\ Len(l) <= Len(a) /\ Len(l) <= Len(b) /\ IsPrefix(l, a) /\ IsPrefix(l, b)
  BY <1>1, <1>4
<1>6. \A i \in 1 .. Len(l) : a[i] = b[i]
  <2>1. SubSeq(l, 1, Len(l)) = SubSeq(a, 1, Len(l)) /\ SubSeq(l, 1, Len(l)) = SubSeq(b, 1, Len(l))
    BY <1>5 DEF IsPrefix
  <2>2. \A i \in 1 .. Len(l) : SubSeq(a, 1, Len(l))[i] = a[i] /\ SubSeq(b, 1, Len(l))[i] = b[i]
    BY <1>5
  <2> QED
    BY <2>1, <2>2
<1>7. CommonPrefix(a, b) = Len(l)
  BY DEF CommonPrefix, l
<1> QED
  BY <1>5, <1>6, <1>7

\* The entries of the batch.
Entries == UNION {{q} \X DOMAIN batch[q] : q \in Seqs}

\* An empty batch has nothing for anyone.
LEMMA EntriesEmpty == ASSUME IsFiniteSet(Entries), BatchLen = 0,
                             batch \in [Seqs -> Seq(Token)]
                      PROVE  \A q \in Seqs : batch[q] = <<>>
<1>1. Entries = {}
  BY FS_EmptySet DEF BatchLen, Entries
<1> SUFFICES ASSUME NEW q \in Seqs, batch[q] # <<>> PROVE FALSE
  OBVIOUS
<1>2. batch[q] \in Seq(Token)
  OBVIOUS
<1>3. 1 \in DOMAIN batch[q]
  BY <1>2
<1>4. <<q, 1>> \in Entries
  BY <1>3 DEF Entries
<1> QED
  BY <1>1, <1>4

\* What is staged into the room that is left fits.
LEMMA EntriesMore ==
  ASSUME batch \in [Seqs -> Seq(Token)], IsFiniteSet(Entries), NEW q \in Seqs,
         NEW toks \in Seq(Token), batch' = [batch EXCEPT ![q] = toks], Len(toks) <= Room
  PROVE  IsFiniteSet(Entries)' /\ (BatchLen <= BatchCap)'
<1> DEFINE D == {q} \X DOMAIN toks
<1>1. IsFiniteSet(D) /\ Cardinality(D) = Len(toks)
  <2>1. DOMAIN toks = 1 .. Len(toks) /\ Len(toks) \in Nat /\ 1 \in Int /\ Len(toks) \in Int
    OBVIOUS
  <2>2. IsFiniteSet(DOMAIN toks) /\ Cardinality(DOMAIN toks) = Len(toks)
    <3> DEFINE n == Len(toks)
    <3>1. DOMAIN toks = 1 .. n /\ n \in Nat /\ 1 \in Int /\ n \in Int
      BY <2>1
    <3> HIDE DEF n
    <3>2. IsFiniteSet(1 .. n) /\ Cardinality(1 .. n) = IF 1 > n THEN 0 ELSE n - 1 + 1
      BY <3>1, FS_Interval
    <3> QED
      BY <3>1, <3>2 DEF n
  <2>3. IsFiniteSet({q}) /\ Cardinality({q}) = 1
    BY FS_Singleton
  <2> DEFINE A == {q}
             B == DOMAIN toks
  <2>4. IsFiniteSet(A) /\ IsFiniteSet(B) /\ Cardinality(A) = 1 /\ Cardinality(B) \in Nat
    BY <2>1, <2>2, <2>3
  <2> HIDE DEF A, B
  <2>5. IsFiniteSet(A \X B) /\ Cardinality(A \X B) = Cardinality(A) * Cardinality(B)
    BY <2>4, FS_Product
  <2>6. Cardinality(A \X B) = Cardinality(B)
    BY <2>4, <2>5
  <2> QED
    BY <2>2, <2>5, <2>6 DEF A, B
<1>2. IsFiniteSet(Entries \cup D) /\ Cardinality(Entries \cup D) <= Cardinality(Entries) + Cardinality(D)
  <2> DEFINE E == Entries
  <2>1. IsFiniteSet(E) /\ IsFiniteSet(D)
    BY <1>1
  <2> HIDE DEF D, E
  <2>2. /\ IsFiniteSet(E \cup D)
        /\ Cardinality(E \cup D) = Cardinality(E) + Cardinality(D) - Cardinality(E \cap D)
    BY <2>1, FS_Union
  <2>3. IsFiniteSet(E \cap D)
    BY <2>1, FS_Intersection
  <2>4. Cardinality(E \cap D) \in Nat /\ Cardinality(E) \in Nat /\ Cardinality(D) \in Nat
    BY <2>1, <2>3, FS_CardinalityType
  <2>5. Cardinality(E \cup D) <= Cardinality(E) + Cardinality(D)
    BY <2>2, <2>4
  <2> QED
    BY <2>2, <2>5 DEF E
<1>3. Entries' \subseteq Entries \cup D
  <2> SUFFICES ASSUME NEW p \in Seqs, NEW e \in {p} \X DOMAIN batch'[p] PROVE e \in Entries \cup D
    BY DEF Entries
  <2>1. CASE p = q
    <3>1. batch'[p] = toks
      BY <2>1
    <3> QED
      BY <2>1, <3>1
  <2>2. CASE p # q
    <3>1. batch'[p] = batch[p]
      BY <2>2
    <3> QED
      BY <3>1 DEF Entries
  <2> QED
    BY <2>1, <2>2
<1>4. Entries' \in SUBSET (Entries \cup D)
  BY <1>3
<1> HIDE DEF D
<1>5. IsFiniteSet(Entries') /\ Cardinality(Entries') <= Cardinality(Entries \cup D)
  BY <1>2, <1>4, FS_Subset
<1>6. BatchLen = Cardinality(Entries) /\ BatchLen' = Cardinality(Entries')
  BY DEF BatchLen, Entries
<1>7. Cardinality(Entries) \in Nat /\ Cardinality(Entries') \in Nat /\ Cardinality(Entries \cup D) \in Nat
  BY <1>2, <1>5, FS_CardinalityType
<1>8. BatchCap \in Nat /\ Len(toks) \in Nat /\ Len(toks) <= BatchCap - Cardinality(Entries)
  BY <1>6, DecodeAssumption DEF Room
<1> QED
  BY <1>1, <1>2, <1>5, <1>6, <1>7, <1>8

---------------------------------------------------------------------------
(* The types.                                                                *)

\* What the model chooses is a token, whatever it has read.
ChoosesTokens == \A h \in Seq(Token) : Target(h) \in Token
\* A prompt that is read outside the batch fits the context.
MediaFits == \A r \in Media : Len(Prompt[r]) <= NCtxSeq

Staging == pc \in {"media", "pass1", "share", "pass2", "decode"}

\* What a step staged is part of its position, and what verify keeps of what was staged.
Bounded ==
  /\ \A q \in Active : /\ Staging \/ q \in todo => Len(slot[q].spec) <= slot[q].pos
                       /\ Len(slot[q].spec) > 1 => Len(slot[q].committed) = Len(slot[q].spec)
                       /\ Staging => Len(batch[q]) <= slot[q].pos
                       /\ pc = "media" => slot[q].spec = <<>> /\ batch[q] = <<>>
  /\ pc = "rewind" => turn.kept < Len(slot[turn.seq].spec)

TypeInv == TypeOK /\ IsFiniteSet(Entries) /\ Bounded

\* An active sequence has a slot of a request.
LEMMA ActiveSlot ==
  ASSUME TypeInv, NEW q \in Active
  PROVE  q \in Seqs /\ slot[q] \in Slots /\ slot[q].req \in Requests /\ slot[q] # NoSlot
BY DEF TypeInv, TypeOK, Active, Slots

\* A slot in use is not NoSlot.
LEMMA SlotIsNone == \A s \in Slots : s # NoSlot
BY NoSlotFacts DEF Slots

\* A slot that is written keeps its request.
LEMMA SlotWritten ==
  ASSUME TypeInv, NEW q \in Active, NEW new \in Slots, slot' = [slot EXCEPT ![q] = new]
  PROVE  /\ slot' \in [Seqs -> Slots \cup {NoSlot}]
         /\ slot'[q] = new /\ \A p \in Seqs : p # q => slot'[p] = slot[p]
         /\ Active' = Active
BY SlotIsNone, ActiveSlot DEF TypeInv, TypeOK, Active

\* A prompt is a text, and not empty.
LEMMA PromptIs == \A r \in Requests : Prompt[r] \in Seq(Vocabulary) /\ Prompt[r] \in Seq(Token) /\ Prompt[r] # <<>>
BY DecodeAssumption DEF Token

\* Types: at first,
LEMMA TypeInit == Init => TypeInv
<1> SUFFICES ASSUME Init PROVE TypeInv
  OBVIOUS
<1>1. NSeqMax \in Nat \ {0} /\ BatchCap \in Nat /\ MaxDraft \in Nat
  BY DecodeAssumption
<1>2. 0 \in Seqs /\ \A q \in Seqs : batch[q] = <<>> /\ slot[q] = NoSlot
  BY <1>1 DEF Init, Seqs
<1>3. Entries = {}
  BY <1>2 DEF Entries
<1>4. IsFiniteSet(Entries) /\ BatchLen = 0
  BY <1>3, FS_EmptySet DEF BatchLen, Entries
<1>5. Active = {}
  BY <1>2 DEF Active
<1>6. TypeOK
  BY <1>1, <1>2, <1>4, <1>5 DEF Init, TypeOK, NoTurn
<1>7. Bounded
  BY <1>5 DEF Init, Bounded
<1> QED
  BY <1>4, <1>6, <1>7 DEF TypeInv

\* A step that writes neither the slots nor the backend nor what callers see.
LEMMA TypeQuiet ==
  ASSUME TypeInv, Inv', UNCHANGED <<slot, backend, answer, ended>>, turn' = turn \/ turn' = NoTurn,
         drafting' \in BOOLEAN, cancelled' \subseteq Requests,
         pc' = "rewind" => pc = "rewind" /\ turn' = turn, Staging' => Staging, pc' = "media" => pc = "media",
         Staging \/ todo' \subseteq todo
  PROVE  TypeInv'
<1>1. Active' = Active /\ Entries' = Entries /\ BatchLen' = BatchLen
  BY DEF Active, Entries, BatchLen, backend
<1>2. NoTurn \in [seq : Seqs, kept : Nat, reason : {"none", "stop", "length"}]
  BY DecodeAssumption DEF NoTurn, Seqs
<1>3. turn' \in [seq : Seqs, kept : Nat, reason : {"none", "stop", "length"}]
  BY <1>2 DEF TypeInv, TypeOK
<1>4. TypeOK'
  BY <1>1, <1>3 DEF TypeInv, TypeOK, backend, Inv, Shape, Ranged, Active
<1>5. Bounded'
  BY <1>1 DEF TypeInv, Bounded, backend
<1> QED
  BY <1>1, <1>4, <1>5 DEF TypeInv

\* A sequence that finish frees.
LEMMA FreedSlot ==
  ASSUME TypeInv, NEW q \in Active, NEW reason, Finish(q, reason)
  PROVE  /\ \A p \in Seqs : p # q => /\ slot'[p] = slot[p] /\ cells'[p] = cells[p] /\ state'[p] = state[p]
                                     /\ snapshot'[p] = snapshot[p] /\ window'[p] = window[p]
         /\ slot'[q] = NoSlot /\ cells'[q] = {} /\ state'[q] = <<>> /\ snapshot'[q] = <<>> /\ window'[q] = <<>>
         /\ ended'[slot[q].req] = reason
         /\ \A r \in Requests : r # slot[q].req => ended'[r] = ended[r]
         /\ Active' = Active \ {q}
<1>1. q \in Seqs /\ slot[q].req \in Requests
  BY ActiveSlot
<1>2. slot'[q] = NoSlot /\ \A p \in Seqs : p # q => slot'[p] = slot[p]
  BY <1>1 DEF Finish, TypeInv, TypeOK
<1>3. Active' = Active \ {q}
  BY <1>1, <1>2 DEF Active
<1> QED
  BY <1>1, <1>2, <1>3 DEF Finish, TypeInv, TypeOK

\* Finish frees the slot and types its end.
LEMMA TypeFinish ==
  ASSUME TypeInv, Inv', NEW q \in Active, NEW reason \in {"stop", "length", "context", "cancel", "error"},
         Finish(q, reason), UNCHANGED <<batch, answer, cancelled, turn>>, drafting' \in BOOLEAN,
         pc' # "rewind", Staging' => Staging, pc' = "media" => pc = "media",
         Staging \/ todo' \subseteq todo
  PROVE  TypeInv'
<1>1. Entries' = Entries /\ BatchLen' = BatchLen
  BY DEF Entries, BatchLen
<1>2. Active' = Active \ {q} /\ \A p \in Active' : p \in Active /\ slot'[p] = slot[p]
  BY FreedSlot, ActiveSlot
<1>3. Bounded'
  BY <1>2 DEF TypeInv, Bounded
<1>4. <<>> \in Seq(Token)
  OBVIOUS
<1>5. /\ slot' \in [Seqs -> Slots \cup {NoSlot}]
      /\ cells' \in [Seqs -> SUBSET ((0 .. NCtxSeq - 1) \X Token)]
      /\ state' \in [Seqs -> Seq(Token)] /\ snapshot' \in [Seqs -> Seq(Token)] /\ window' \in [Seqs -> Seq(Token)]
      /\ ended' \in [Requests -> {"none", "stop", "length", "context", "cancel", "error"}]
  BY <1>4 DEF Finish, TypeInv, TypeOK, Token
<1>6. TypeOK'
  BY <1>1, <1>5 DEF TypeInv, TypeOK, Inv, Shape, Ranged, Active, Token
<1> QED
  BY <1>1, <1>3, <1>6 DEF TypeInv

\* Admit types a new slot.
LEMMA TypeAdmit ==
  ASSUME TypeInv, Inv', NEW r \in Requests, NEW q \in Seqs, Admit(r, q)
  PROVE  TypeInv'
<1>1. /\ pc = "top" /\ pc' = "top" /\ slot' = [slot EXCEPT ![q] = NewSlot(r)]
      /\ UNCHANGED <<todo, drafting, turn, batch, cells, state, snapshot, window, answer, ended, cancelled>>
  BY DEF Admit, backend, callers
<1>2. NewSlot(r) \in Slots /\ NewSlot(r).spec = <<>> /\ NewSlot(r).pos = 0
  <2>1. Prompt[r] \in Seq(Vocabulary) /\ 0 \in Vocabulary
    BY PromptIs, DecodeAssumption
  <2> QED
    BY <2>1 DEF NewSlot, Slots
<1>3. slot' \in [Seqs -> Slots \cup {NoSlot}] /\ \A p \in Seqs : slot'[p] = IF p = q THEN NewSlot(r) ELSE slot[p]
  BY <1>1, <1>2 DEF TypeInv, TypeOK
<1>4. Entries' = Entries /\ BatchLen' = BatchLen
  BY <1>1 DEF Entries, BatchLen
<1>5. Bounded'
  <2>1. ASSUME NEW p \in Active', p # q PROVE p \in Active /\ slot'[p] = slot[p]
    <3>1. p \in Seqs /\ slot'[p] # NoSlot
      BY DEF Active
    <3>2. slot'[p] = slot[p]
      BY <1>3, <2>1, <3>1
    <3> QED
      BY <3>1, <3>2 DEF Active
  <2>2. Active' \subseteq Seqs
    BY DEF Active
  <2> QED
    BY <1>1, <1>2, <1>3, <2>1, <2>2 DEF TypeInv, Bounded, Staging
<1>6. TypeOK'
  BY <1>1, <1>3, <1>4 DEF TypeInv, TypeOK, Inv, Ranged, Active
<1> QED
  BY <1>4, <1>5, <1>6 DEF TypeInv

\* The marks of the last tick are gone.
Cleared(s) == [s EXCEPT !.hasLogits = FALSE, !.draft = <<>>, !.spec = <<>>, !.committed = <<>>]

\* What tick resets in a slot, and what it leaves.
LEMMA ClearedIs ==
  ASSUME NEW s \in Slots
  PROVE  /\ Cleared(s) \in Slots
         /\ Cleared(s).req = s.req /\ Cleared(s).pending = s.pending /\ Cleared(s).pos = s.pos
         /\ Cleared(s).next = s.next /\ Cleared(s).primed = s.primed /\ Cleared(s).replay = s.replay
         /\ Cleared(s).replayFrom = s.replayFrom
         /\ Cleared(s).draft = <<>> /\ Cleared(s).spec = <<>> /\ Cleared(s).committed = <<>>
         /\ Cleared(s).hasLogits = FALSE
<1>1. s = [f \in {"req", "pending", "pos", "next", "primed", "hasLogits", "draft", "spec",
                  "committed", "replay", "replayFrom"} |-> s[f]]
  BY DEF Slots
<1>2. /\ Cleared(s).req = s.req /\ Cleared(s).pending = s.pending /\ Cleared(s).pos = s.pos
      /\ Cleared(s).next = s.next /\ Cleared(s).replay = s.replay
      /\ Cleared(s).replayFrom = s.replayFrom
      /\ Cleared(s).draft = <<>> /\ Cleared(s).spec = <<>> /\ Cleared(s).committed = <<>>
  BY <1>1 DEF Cleared
<1>3. Cleared(s).hasLogits = FALSE
  BY DEF Cleared, Slots
<1>4. Cleared(s).primed = s.primed
  BY DEF Cleared, Slots
<1> DEFINE e == <<>>
           no == FALSE
<1>5. e \in Seq(Vocabulary) /\ e \in Seq(Nat) /\ e \in Seq(Vocabulary \cup {Garbage}) /\ no \in BOOLEAN
  OBVIOUS
<1>6. Cleared(s) = [s EXCEPT !.hasLogits = no, !.draft = e, !.spec = e, !.committed = e]
  BY DEF Cleared
<1> HIDE DEF e, no
<1>7. Cleared(s) \in Slots
  BY <1>5, <1>6 DEF Slots
<1> QED
  BY <1>2, <1>3, <1>4, <1>7

\* What the top of tick does to the slots.
LEMMA TickStartDoes ==
  ASSUME TypeInv, TickStart
  PROVE  /\ pc = "top" /\ pc' = "media" /\ todo' = Active
         /\ \A q \in Seqs : batch'[q] = <<>>
         /\ \A q \in Active : slot'[q] = Cleared(slot[q]) /\ slot'[q] \in Slots
         /\ \A q \in Seqs \ Active : slot'[q] = NoSlot /\ slot[q] = NoSlot
         /\ Active' = Active
         /\ slot' \in [Seqs -> Slots \cup {NoSlot}] /\ batch' \in [Seqs -> Seq(Token)]
         /\ UNCHANGED <<drafting, turn, cells, state, snapshot, window, callers>>
<1>1. \A q \in Seqs : slot'[q] = IF q \in Active THEN Cleared(slot[q]) ELSE NoSlot
  BY DEF TickStart, Cleared
<1>2. \A q \in Active : q \in Seqs /\ slot'[q] = Cleared(slot[q]) /\ slot'[q] \in Slots
  BY <1>1, ActiveSlot, ClearedIs
<1>3. Active' = Active
  BY <1>1, <1>2, SlotIsNone DEF Active
<1>4. slot' = [q \in Seqs |-> slot'[q]] /\ batch' = [q \in Seqs |-> <<>>]
  BY DEF TickStart
<1>5. slot' \in [Seqs -> Slots \cup {NoSlot}]
  BY <1>1, <1>2, <1>4
<1>6. batch' \in [Seqs -> Seq(Token)]
  BY <1>4
<1> QED
  BY <1>1, <1>2, <1>3, <1>4, <1>5, <1>6 DEF TickStart, Active

\* The top of tick keeps the types.
LEMMA TypeTickStart == ASSUME TypeInv, Inv', TickStart PROVE TypeInv'
<1>1. /\ Active' = Active /\ pc' = "media" /\ \A q \in Seqs : batch'[q] = <<>>
      /\ slot' \in [Seqs -> Slots \cup {NoSlot}] /\ batch' \in [Seqs -> Seq(Token)]
      /\ UNCHANGED <<drafting, turn, cells, state, snapshot, window, callers>>
  BY TickStartDoes
<1>2. Entries' = {}
  BY <1>1 DEF Entries
<1>3. IsFiniteSet(Entries') /\ BatchLen' = 0 /\ BatchCap \in Nat
  BY <1>2, FS_EmptySet, DecodeAssumption DEF BatchLen, Entries
<1>4. Bounded'
  <2>1. \A q \in Active : slot'[q].spec = <<>> /\ slot'[q].pos \in Nat /\ q \in Seqs
    <3> SUFFICES ASSUME NEW q \in Active PROVE slot'[q].spec = <<>> /\ slot'[q].pos \in Nat /\ q \in Seqs
      OBVIOUS
    <3>1. slot[q] \in Slots /\ q \in Seqs /\ slot'[q] = Cleared(slot[q]) /\ slot'[q] \in Slots
      BY TickStartDoes, ActiveSlot
    <3> QED
      BY <3>1, ClearedIs DEF Slots
  <2> QED
    BY <1>1, <2>1 DEF Bounded
<1>5. TypeOK'
  BY <1>1, <1>3 DEF TypeInv, TypeOK, Inv, Shape, Ranged, Active, Token, callers
<1> QED
  BY <1>3, <1>4, <1>5 DEF TypeInv

\* A slot whose sampled token and drafts are staged.
NextSlot(s, draft) ==
  [s EXCEPT !.hasLogits = TRUE, !.draft = draft,
            !.spec = [i \in 1 .. Len(draft) + 1 |-> s.pos + i - 1],
            !.committed = <<s.next>> \o draft,
            !.replayFrom = s.pos, !.pos = s.pos + Len(draft) + 1]

\* The slot whose last token, and draft, are staged.
LEMMA NextSlotIs ==
  ASSUME NEW s \in Slots, NEW draft \in Seq(Vocabulary)
  PROVE  /\ NextSlot(s, draft) \in Slots
         /\ NextSlot(s, draft).req = s.req /\ NextSlot(s, draft).pending = s.pending
         /\ NextSlot(s, draft).pos = s.pos + Len(draft) + 1
         /\ NextSlot(s, draft).next = s.next /\ NextSlot(s, draft).primed = s.primed
         /\ NextSlot(s, draft).hasLogits = TRUE /\ NextSlot(s, draft).draft = draft
         /\ NextSlot(s, draft).spec = [i \in 1 .. Len(draft) + 1 |-> s.pos + i - 1]
         /\ NextSlot(s, draft).committed = <<s.next>> \o draft
         /\ NextSlot(s, draft).replay = s.replay /\ NextSlot(s, draft).replayFrom = s.pos
<1> DEFINE spec == [i \in 1 .. Len(draft) + 1 |-> s.pos + i - 1]
           committed == <<s.next>> \o draft
           pos == s.pos + Len(draft) + 1
           yes == TRUE
           new == NextSlot(s, draft)
<1>1. s.pos \in Nat /\ s.next \in Token /\ Len(draft) \in Nat
  BY DEF Slots, Token
<1>2. spec \in Seq(Nat) /\ pos \in Nat /\ yes \in BOOLEAN
  BY <1>1
<1>3. committed \in Seq(Vocabulary \cup {Garbage})
  <2>1. <<s.next>> \in Seq(Token) /\ draft \in Seq(Token)
    BY <1>1 DEF Token
  <2> QED
    BY <2>1, ConcatProperties DEF Token
<1>4. new = [s EXCEPT !.hasLogits = yes, !.draft = draft, !.spec = spec, !.committed = committed,
                      !.replayFrom = s.pos, !.pos = pos]
  BY DEF NextSlot
<1> HIDE DEF spec, committed, pos, yes, new
<1>5. new \in Slots
  BY <1>1, <1>2, <1>3, <1>4 DEF Slots
<1>6. /\ new.req = s.req /\ new.pending = s.pending /\ new.pos = pos /\ new.next = s.next
      /\ new.draft = draft /\ new.spec = spec /\ new.committed = committed
      /\ new.replay = s.replay /\ new.replayFrom = s.pos
  BY <1>4 DEF Slots
<1>7. new.hasLogits = yes
  BY <1>4 DEF Slots
<1>8. new.primed = s.primed
  BY <1>4 DEF Slots
<1> QED
  BY <1>5, <1>6, <1>7, <1>8 DEF spec, committed, pos, yes, new

\* The room in a batch is a number.
LEMMA RoomIs == TypeInv => BatchLen \in Nat /\ Room \in Nat /\ MaxDraft \in Nat /\ NCtxSeq \in Nat
<1> SUFFICES ASSUME TypeInv PROVE BatchLen \in Nat /\ Room \in Nat /\ MaxDraft \in Nat /\ NCtxSeq \in Nat
  OBVIOUS
<1>1. BatchLen \in Nat
  BY FS_CardinalityType DEF TypeInv, Entries, BatchLen
<1> QED
  BY <1>1, DecodeAssumption DEF TypeInv, TypeOK, Room

\* Staging the last token and a draft that fits.
LEMMA StageNextDoes ==
  ASSUME Inv, TypeInv, NEW q \in Seqs, StageNext(q)
  PROVE  /\ q \in Active /\ Running(q) /\ pc' = pc /\ todo' = todo \ {q} /\ slot[q].replay = <<>>
         /\ UNCHANGED <<drafting, turn, cells, state, window, callers>>
         /\ snapshot' \in [Seqs -> Seq(Token)]
         /\ \A p \in Seqs : p # q => snapshot'[p] = snapshot[p]
         /\ \E draft \in Seq(Vocabulary) :
              /\ Len(draft) <= MaxDraft /\ Len(draft) + 1 <= Room
              /\ batch' = [batch EXCEPT ![q] = <<slot[q].next>> \o draft]
              /\ slot' = [slot EXCEPT ![q] = NextSlot(slot[q], draft)]
              /\ cache = "rewind" /\ draft # <<>> => snapshot'[q] = state[q]
<1> DEFINE n == IF drafting THEN Least(MaxDraft, Room - 1) ELSE 0
<1>1. q \in Active
  BY DEF StageNext, Running, Inv, Ranged
<1>2. n \in Nat /\ n <= MaxDraft /\ n + 1 <= Room
  <2>1. Room > 0 /\ Room \in Nat /\ MaxDraft \in Nat
    BY RoomIs DEF StageNext, Running
  <2> DEFINE l == Least(MaxDraft, Room - 1)
  <2>2. l \in Nat /\ l <= MaxDraft /\ l + 1 <= Room
    BY <2>1 DEF Least
  <2> HIDE DEF l
  <2>3. n = IF drafting THEN l ELSE 0
    BY DEF l
  <2> QED
    BY <2>1, <2>2, <2>3
<1>3. PICK k \in 0 .. n : \E draft \in [1 .. k -> Vocabulary] :
       /\ IF cache = "rewind" /\ n > 0 THEN Checkpoint(q, k) ELSE UNCHANGED snapshot
       /\ batch' = [batch EXCEPT ![q] = <<slot[q].next>> \o draft]
       /\ slot' = [slot EXCEPT ![q] =
            [slot[q] EXCEPT !.hasLogits = TRUE, !.draft = draft,
                      !.spec = [i \in 1 .. k + 1 |-> slot[q].pos + i - 1],
                      !.committed = <<slot[q].next>> \o draft,
                      !.replayFrom = slot[q].pos, !.pos = slot[q].pos + k + 1]]
  BY DEF StageNext
<1>4. PICK draft \in [1 .. k -> Vocabulary] :
       /\ IF cache = "rewind" /\ n > 0 THEN Checkpoint(q, k) ELSE UNCHANGED snapshot
       /\ batch' = [batch EXCEPT ![q] = <<slot[q].next>> \o draft]
       /\ slot' = [slot EXCEPT ![q] =
            [slot[q] EXCEPT !.hasLogits = TRUE, !.draft = draft,
                      !.spec = [i \in 1 .. k + 1 |-> slot[q].pos + i - 1],
                      !.committed = <<slot[q].next>> \o draft,
                      !.replayFrom = slot[q].pos, !.pos = slot[q].pos + k + 1]]
  BY <1>3
<1>5. draft \in Seq(Vocabulary) /\ Len(draft) = k /\ k <= n
  BY <1>2
<1>6. slot' = [slot EXCEPT ![q] = NextSlot(slot[q], draft)]
  BY <1>4, <1>5 DEF NextSlot
<1>7. /\ snapshot' \in [Seqs -> Seq(Token)] /\ \A p \in Seqs : p # q => snapshot'[p] = snapshot[p]
      /\ cache = "rewind" /\ draft # <<>> => snapshot'[q] = state[q]
  <2>1. snapshot \in [Seqs -> Seq(Token)] /\ state[q] \in Seq(Token) /\ <<>> \in Seq(Token)
    BY DEF TypeInv, TypeOK, Token
  <2>2. draft # <<>> => k # 0 /\ n > 0
    BY <1>2, <1>5
  <2> HIDE DEF n
  <2> QED
    BY <1>4, <2>1, <2>2 DEF Checkpoint
<1>8. Len(draft) <= MaxDraft /\ Len(draft) + 1 <= Room
  BY <1>2, <1>5, RoomIs
<1>9. /\ Running(q) /\ slot[q].replay = <<>> /\ pc' = pc /\ todo' = todo \ {q}
      /\ UNCHANGED <<drafting, turn, cells, state, window, callers>>
  BY DEF StageNext
<1>10. batch' = [batch EXCEPT ![q] = <<slot[q].next>> \o draft]
  BY <1>4
<1> QED
  BY <1>1, <1>5, <1>6, <1>7, <1>8, <1>9, <1>10

\* A slot whose replay is staged, and the sampled token behind it if that fits.
ReplaySlot(s, fits) ==
  [s EXCEPT !.replay = <<>>, !.hasLogits = fits,
            !.spec = IF fits THEN <<s.pos + Len(s.replay)>> ELSE <<>>,
            !.pos = s.pos + Len(s.replay) + (IF fits THEN 1 ELSE 0)]

\* The slot that stages what it has to replay.
LEMMA ReplaySlotIs ==
  ASSUME NEW s \in Slots, NEW fits \in BOOLEAN
  PROVE  /\ ReplaySlot(s, fits) \in Slots
         /\ ReplaySlot(s, fits).req = s.req /\ ReplaySlot(s, fits).pending = s.pending
         /\ ReplaySlot(s, fits).pos = s.pos + Len(s.replay) + (IF fits THEN 1 ELSE 0)
         /\ ReplaySlot(s, fits).next = s.next /\ ReplaySlot(s, fits).primed = s.primed
         /\ ReplaySlot(s, fits).hasLogits = fits /\ ReplaySlot(s, fits).draft = s.draft
         /\ ReplaySlot(s, fits).spec = IF fits THEN <<s.pos + Len(s.replay)>> ELSE <<>>
         /\ ReplaySlot(s, fits).committed = s.committed
         /\ ReplaySlot(s, fits).replay = <<>> /\ ReplaySlot(s, fits).replayFrom = s.replayFrom
<1> DEFINE spec == IF fits THEN <<s.pos + Len(s.replay)>> ELSE <<>>
           pos == s.pos + Len(s.replay) + (IF fits THEN 1 ELSE 0)
           none == <<>>
           new == ReplaySlot(s, fits)
<1>1. s.pos \in Nat /\ Len(s.replay) \in Nat
  BY DEF Slots
<1>2. spec \in Seq(Nat) /\ pos \in Nat /\ none \in Seq(Vocabulary \cup {Garbage})
  BY <1>1
<1>3. new = [s EXCEPT !.replay = none, !.hasLogits = fits, !.spec = spec, !.pos = pos]
  BY DEF ReplaySlot
<1> HIDE DEF spec, pos, none, new
<1>4. new \in Slots
  BY <1>1, <1>2, <1>3 DEF Slots
<1>5. /\ new.req = s.req /\ new.pending = s.pending /\ new.pos = pos /\ new.next = s.next
      /\ new.draft = s.draft /\ new.spec = spec /\ new.committed = s.committed
      /\ new.replay = none /\ new.replayFrom = s.replayFrom
  BY <1>3 DEF Slots
<1>6. new.hasLogits = fits
  BY <1>3 DEF Slots
<1>7. new.primed = s.primed
  BY <1>3 DEF Slots
<1> QED
  BY <1>4, <1>5, <1>6, <1>7 DEF spec, pos, none, new

\* Staging what was rolled back.
LEMMA StageReplayDoes ==
  ASSUME Inv, TypeInv, NEW q \in Seqs, StageReplay(q)
  PROVE  /\ q \in Active /\ Running(q) /\ pc' = pc /\ todo' = todo \ {q} /\ slot[q].replay # <<>>
         /\ UNCHANGED <<drafting, turn, cells, state, snapshot, window, callers>>
         /\ \E fits \in BOOLEAN :
              /\ slot' = [slot EXCEPT ![q] = ReplaySlot(slot[q], fits)]
              /\ batch' = [batch EXCEPT ![q] = IF fits THEN Append(slot[q].replay, slot[q].next)
                                               ELSE slot[q].replay]
              /\ Len(slot[q].replay) + (IF fits THEN 1 ELSE 0) <= Room
<1> DEFINE fits == Room > Len(slot[q].replay)
<1>1. q \in Active
  BY DEF StageReplay, Running, Inv, Ranged
<1>2. slot' = [slot EXCEPT ![q] = ReplaySlot(slot[q], fits)]
  BY DEF StageReplay, ReplaySlot
<1>3. batch' = [batch EXCEPT ![q] = IF fits THEN Append(slot[q].replay, slot[q].next)
                                    ELSE slot[q].replay]
  BY DEF StageReplay
<1>4. Len(slot[q].replay) + (IF fits THEN 1 ELSE 0) <= Room
  <2>1. Len(slot[q].replay) \in Nat /\ Room \in Nat /\ Room >= Len(slot[q].replay)
    BY <1>1, ActiveSlot, RoomIs DEF StageReplay, ReplayFits, Slots
  <2>2. \A l, m \in Nat : m >= l => l + (IF m > l THEN 1 ELSE 0) <= m
    OBVIOUS
  <2> QED
    BY <2>1, <2>2
<1>5. fits \in BOOLEAN
  OBVIOUS
<1> HIDE DEF fits
<1>6. /\ Running(q) /\ pc' = pc /\ todo' = todo \ {q} /\ slot[q].replay # <<>>
      /\ UNCHANGED <<drafting, turn, cells, state, snapshot, window, callers>>
  BY DEF StageReplay
<1> QED
  BY <1>1, <1>2, <1>3, <1>4, <1>5, <1>6

\* A replay that finds no room waits.
LEMMA WaitReplayDoes ==
  ASSUME Inv, TypeInv, NEW q \in Seqs, WaitReplay(q)
  PROVE  /\ q \in Active /\ Running(q) /\ pc' = pc /\ todo' = todo \ {q}
         /\ UNCHANGED <<drafting, turn, backend, callers>>
         /\ slot' = [slot EXCEPT ![q] = slot'[q]] /\ slot'[q] \in Slots
         /\ slot'[q].hasLogits = FALSE /\ slot'[q].primed = slot[q].primed
         /\ slot'[q].req = slot[q].req /\ slot'[q].pending = slot[q].pending
         /\ slot'[q].pos = slot[q].pos /\ slot'[q].next = slot[q].next
         /\ slot'[q].draft = slot[q].draft /\ slot'[q].spec = slot[q].spec
         /\ slot'[q].committed = slot[q].committed /\ slot'[q].replay = slot[q].replay
         /\ slot'[q].replayFrom = slot[q].replayFrom
<1> DEFINE no == FALSE
           new == [slot[q] EXCEPT !.hasLogits = no]
<1>1. q \in Active
  BY DEF WaitReplay, Running, Inv, Ranged
<1>2. slot[q] \in Slots /\ no \in BOOLEAN
  BY <1>1, ActiveSlot
<1>3. slot' = [slot EXCEPT ![q] = new] /\ slot'[q] = new
  BY <1>2 DEF WaitReplay, TypeInv, TypeOK
<1> HIDE DEF no
<1>4. new \in Slots
  BY <1>2 DEF Slots
<1>5. /\ new.req = slot[q].req /\ new.pending = slot[q].pending /\ new.pos = slot[q].pos
      /\ new.next = slot[q].next /\ new.draft = slot[q].draft /\ new.spec = slot[q].spec
      /\ new.committed = slot[q].committed /\ new.replay = slot[q].replay
      /\ new.replayFrom = slot[q].replayFrom
  BY <1>2 DEF Slots
<1>6. new.hasLogits = no
  BY <1>2 DEF Slots
<1>7. new.primed = slot[q].primed
  BY <1>2 DEF Slots
<1> HIDE DEF new
<1>8. /\ Running(q) /\ pc' = pc /\ todo' = todo \ {q}
      /\ UNCHANGED <<drafting, turn, backend, callers>>
  BY DEF WaitReplay
<1> QED
  BY <1>1, <1>3, <1>4, <1>5, <1>6, <1>7, <1>8 DEF no

\* A slot that n tokens of its prompt are staged for.
PromptSlot(s, n) ==
  [s EXCEPT !.pos = s.pos + n, !.pending = SubSeq(s.pending, n + 1, Len(s.pending)),
            !.primed = (n = Len(s.pending)), !.hasLogits = (n = Len(s.pending)),
            !.spec = IF n = Len(s.pending) THEN <<s.pos + n - 1>> ELSE <<>>]

\* The slot that stages a piece of its prompt.
LEMMA PromptSlotIs ==
  ASSUME NEW s \in Slots, NEW n \in 1 .. Len(s.pending)
  PROVE  /\ PromptSlot(s, n) \in Slots
         /\ PromptSlot(s, n).req = s.req
         /\ PromptSlot(s, n).pending = SubSeq(s.pending, n + 1, Len(s.pending))
         /\ PromptSlot(s, n).pos = s.pos + n /\ PromptSlot(s, n).next = s.next
         /\ PromptSlot(s, n).primed = (n = Len(s.pending))
         /\ PromptSlot(s, n).hasLogits = (n = Len(s.pending))
         /\ PromptSlot(s, n).draft = s.draft
         /\ PromptSlot(s, n).spec = IF n = Len(s.pending) THEN <<s.pos + n - 1>> ELSE <<>>
         /\ PromptSlot(s, n).committed = s.committed
         /\ PromptSlot(s, n).replay = s.replay /\ PromptSlot(s, n).replayFrom = s.replayFrom
<1> DEFINE last == n = Len(s.pending)
           pending == SubSeq(s.pending, n + 1, Len(s.pending))
           spec == IF last THEN <<s.pos + n - 1>> ELSE <<>>
           pos == s.pos + n
           new == PromptSlot(s, n)
<1>1. s.pos \in Nat /\ s.pending \in Seq(Vocabulary) /\ Len(s.pending) \in Nat
  BY DEF Slots
<1>2. spec \in Seq(Nat) /\ pos \in Nat /\ last \in BOOLEAN
  BY <1>1
<1>3. pending \in Seq(Vocabulary)
  BY <1>1
<1>4. new = [s EXCEPT !.pos = pos, !.pending = pending, !.primed = last, !.hasLogits = last, !.spec = spec]
  BY DEF PromptSlot
<1> HIDE DEF spec, pos, pending, new, last
<1>5. new \in Slots
  BY <1>2, <1>3, <1>4 DEF Slots
<1>6. /\ new.req = s.req /\ new.pending = pending /\ new.pos = pos /\ new.next = s.next
      /\ new.draft = s.draft /\ new.spec = spec /\ new.committed = s.committed
      /\ new.replay = s.replay /\ new.replayFrom = s.replayFrom
  BY <1>4 DEF Slots
<1>7. new.hasLogits = last
  BY <1>4 DEF Slots
<1>8. new.primed = last
  BY <1>4 DEF Slots
<1> QED
  BY <1>5, <1>6, <1>7, <1>8 DEF spec, pos, pending, new, last

\* Staging a piece of a prompt.
LEMMA StagePromptDoes ==
  ASSUME Inv, TypeInv, NEW q \in Seqs, StagePrompt(q)
  PROVE  /\ q \in Active /\ pc = "pass2" /\ q \in todo /\ Prefilling(q) /\ pc' = pc /\ todo' = todo \ {q}
         /\ UNCHANGED <<drafting, turn, cells, state, snapshot, window, callers>>
         /\ \E n \in 1 .. Len(slot[q].pending) :
              /\ n <= Room
              /\ slot' = [slot EXCEPT ![q] = PromptSlot(slot[q], n)]
              /\ batch' = [batch EXCEPT ![q] = SubSeq(slot[q].pending, 1, n)]
<1> DEFINE n == Least(Len(slot[q].pending), Room)
<1>1. q \in Active
  BY DEF StagePrompt, Inv, Ranged
<1>2. slot[q].pending \in Seq(Vocabulary) /\ slot[q].pending # <<>> /\ Room \in Nat /\ Room > 0
  BY <1>1, ActiveSlot, RoomIs DEF StagePrompt, Prefilling, Slots
<1>3. n \in 1 .. Len(slot[q].pending) /\ n <= Room
  BY <1>2 DEF Least
<1>4. /\ slot' = [slot EXCEPT ![q] = PromptSlot(slot[q], n)]
      /\ batch' = [batch EXCEPT ![q] = SubSeq(slot[q].pending, 1, n)]
  BY DEF StagePrompt, PromptSlot
<1> HIDE DEF n
<1>5. /\ pc = "pass2" /\ q \in todo /\ Prefilling(q) /\ pc' = pc /\ todo' = todo \ {q}
      /\ UNCHANGED <<drafting, turn, cells, state, snapshot, window, callers>>
  BY DEF StagePrompt
<1> QED
  BY <1>1, <1>3, <1>4, <1>5

\* The first n tokens of a slot's prompt are another's.
SharedSlot(s, n) == [s EXCEPT !.pos = n, !.pending = SubSeq(s.pending, n + 1, Len(s.pending))]

\* The slot that takes over a shared prefix.
LEMMA SharedSlotIs ==
  ASSUME NEW s \in Slots, NEW n \in Nat
  PROVE  /\ SharedSlot(s, n) \in Slots
         /\ SharedSlot(s, n).req = s.req
         /\ SharedSlot(s, n).pending = SubSeq(s.pending, n + 1, Len(s.pending))
         /\ SharedSlot(s, n).pos = n /\ SharedSlot(s, n).next = s.next
         /\ SharedSlot(s, n).primed = s.primed
         /\ SharedSlot(s, n).hasLogits = s.hasLogits
         /\ SharedSlot(s, n).draft = s.draft /\ SharedSlot(s, n).spec = s.spec
         /\ SharedSlot(s, n).committed = s.committed
         /\ SharedSlot(s, n).replay = s.replay /\ SharedSlot(s, n).replayFrom = s.replayFrom
<1> DEFINE pending == SubSeq(s.pending, n + 1, Len(s.pending))
           new == SharedSlot(s, n)
<1>1. pending \in Seq(Vocabulary)
  <2>1. s.pending \in Seq(Vocabulary)
    BY DEF Slots
  <2> QED
    BY <2>1
<1>2. new = [s EXCEPT !.pos = n, !.pending = pending]
  BY DEF SharedSlot
<1> HIDE DEF pending, new
<1>3. new \in Slots
  BY <1>1, <1>2 DEF Slots
<1>4. /\ new.req = s.req /\ new.pending = pending /\ new.pos = n /\ new.next = s.next
      /\ new.draft = s.draft /\ new.spec = s.spec /\ new.committed = s.committed
      /\ new.replay = s.replay /\ new.replayFrom = s.replayFrom
  BY <1>2 DEF Slots
<1>5. new.hasLogits = s.hasLogits
  BY <1>2 DEF Slots
<1>6. new.primed = s.primed
  BY <1>2 DEF Slots
<1> QED
  BY <1>3, <1>4, <1>5, <1>6 DEF pending, new

\* What another sequence can share is a prefix of the prompt.
LEMMA OfferIs ==
  ASSUME TypeInv, NEW q \in Active, NEW d \in Active
  PROVE  /\ Offer(d, q) \in Int
         /\ Offer(d, q) <= slot[d].pos
         /\ Offer(d, q) <= CommonPrefix(Prompt[slot[q].req], Prompt[slot[d].req])
         /\ Offer(d, q) <= Len(Prompt[slot[q].req]) - 1
<1> DEFINE a == Prompt[slot[q].req]
           b == Prompt[slot[d].req]
<1>1. slot[q].req \in Requests /\ slot[d].req \in Requests /\ slot[d].pos \in Nat
  BY ActiveSlot DEF Slots
<1>2. a \in Seq(Vocabulary) /\ b \in Seq(Vocabulary)
  BY <1>1, PromptIs
<1> DEFINE c == CommonPrefix(a, b)
           p == slot[d].pos
           l == Len(a) - 1
<1>3. c \in Nat /\ l \in Int /\ p \in Nat
  <2> HIDE DEF a, b
  <2> QED
    BY <1>1, <1>2, CommonPrefixIs
<1>4. Offer(d, q) = Least(Least(c, p), l)
  BY DEF Offer
<1> HIDE DEF a, b, c, p, l
<1>5. Offer(d, q) \in Int /\ Offer(d, q) <= c /\ Offer(d, q) <= p /\ Offer(d, q) <= l
  BY <1>3, <1>4 DEF Least
<1> QED
  BY <1>5 DEF a, b, c, p, l

\* bestDonor is another active slot, if there is one.
LEMMA DonorIs ==
  ASSUME TypeInv, NEW q \in Active, BestDonor(q) # q
  PROVE  BestDonor(q) \in Active \ {q}
<1> DEFINE donors == {d \in Active \ {q} : Live(d)}
           best == {d \in donors : \A e \in donors : Offer(e, q) <= Offer(d, q)}
           l == Len(Prompt[slot[q].req])
           N == {l - Offer(d, q) : d \in donors}
<1>1. donors # {} /\ BestDonor(q) = Min(best)
  BY Zenon DEF BestDonor
<1>2. l \in Nat
  BY ActiveSlot, PromptIs
<1>3. \A d \in donors : Offer(d, q) \in Int /\ Offer(d, q) <= l - 1
  BY OfferIs
<1>4. best # {}
  <2>1. N # {} /\ N \subseteq Nat
    <3> HIDE DEF donors, l
    <3> QED
      BY <1>1, <1>2, <1>3
  <2>2. PICK m \in N : \A k \in N : m <= k
    <3> HIDE DEF N
    <3> QED
      BY <2>1, SmallestNumber
  <2> HIDE DEF donors, l
  <2>3. PICK d \in donors : m = l - Offer(d, q)
    OBVIOUS
  <2>4. \A e \in donors : l - Offer(d, q) <= l - Offer(e, q)
    BY <2>2, <2>3
  <2>5. \A e \in donors : Offer(e, q) <= Offer(d, q)
    BY <1>2, <1>3, <2>4
  <2> QED
    BY <2>5
<1>5. best \in SUBSET Nat
  BY DEF Active, Seqs
<1> HIDE DEF best
<1>6. Min(best) \in best
  BY <1>4, <1>5, Least1
<1> QED
  BY <1>1, <1>6 DEF best

\* Sharing copies the cells and moves pos behind them.
LEMMA ShareDoes ==
  ASSUME Inv, TypeInv, NEW q \in Seqs, Share(q)
  PROVE  /\ q \in Active /\ pc = "share" /\ q \in todo /\ Unstarted(q) /\ pc' = pc /\ todo' = todo \ {q}
         /\ UNCHANGED <<drafting, turn, batch, state, snapshot, window, callers>>
         /\ \/ UNCHANGED <<cells, slot>>
            \/ \E d \in Active \ {q} : \E n \in Nat :
                 /\ n = Offer(d, q)
                 /\ cells' = [cells EXCEPT ![q] = cells[q] \cup CellsBefore(cells[d], n)]
                 /\ \/ PosMax(cells'[q]) # n - 1 /\ slot' = slot
                    \/ PosMax(cells'[q]) = n - 1 /\ slot' = [slot EXCEPT ![q] = SharedSlot(slot[q], n)]
<1> DEFINE d == BestDonor(q)
           n == Offer(d, q)
           shared == cells[q] \cup CellsBefore(cells[d], n)
<1>1. q \in Active
  BY DEF Share, Inv, Ranged
<1>2. CASE d # q /\ n >= MinShared
  <2>1. d \in Active \ {q}
    BY <1>1, <1>2, DonorIs
  <2>2. n \in Nat
    <3>1. n \in Int /\ MinShared \in Nat
      BY <1>1, <2>1, OfferIs, DecodeAssumption
    <3> HIDE DEF n
    <3> QED
      BY <1>2, <3>1
  <2>3. cells' = [cells EXCEPT ![q] = shared]
    BY <1>2 DEF Share
  <2>4. cells'[q] = shared
    BY <2>3 DEF TypeInv, TypeOK
  <2>5. slot' = IF PosMax(shared) = n - 1 THEN [slot EXCEPT ![q] = SharedSlot(slot[q], n)] ELSE slot
    BY <1>2 DEF Share, SharedSlot
  <2> HIDE DEF n, d
  <2>6. \/ PosMax(cells'[q]) # n - 1 /\ slot' = slot
        \/ PosMax(cells'[q]) = n - 1 /\ slot' = [slot EXCEPT ![q] = SharedSlot(slot[q], n)]
    BY <2>4, <2>5
  <2>7. n = Offer(d, q)
    BY DEF n
  <2>8. \E e \in Active \ {q} : \E m \in Nat :
                 /\ m = Offer(e, q)
                 /\ cells' = [cells EXCEPT ![q] = cells[q] \cup CellsBefore(cells[e], m)]
                 /\ \/ PosMax(cells'[q]) # m - 1 /\ slot' = slot
                    \/ PosMax(cells'[q]) = m - 1 /\ slot' = [slot EXCEPT ![q] = SharedSlot(slot[q], m)]
    BY <2>1, <2>2, <2>3, <2>6, <2>7
  <2> QED
    BY <1>1, <2>8 DEF Share
<1>3. CASE ~(d # q /\ n >= MinShared)
  <2>1. UNCHANGED <<cells, slot>>
    BY <1>3 DEF Share
  <2> QED
    BY <1>1, <2>1 DEF Share
<1> QED
  BY <1>2, <1>3

\* verify keeps at most what was staged, and something if anything was.
LEMMA KeptRange ==
  ASSUME NEW q \in Seqs, slot[q].spec \in Seq(Nat)
  PROVE  Kept(q) \in 0 .. Len(slot[q].spec) /\ (Kept(q) = 0 <=> slot[q].spec = <<>>)
<1>1. CASE slot[q].spec # <<>>
  BY <1>1, KeptIs
<1>2. CASE slot[q].spec = <<>>
  <2> DEFINE f == [i \in DOMAIN slot[q].spec |-> Stops(q, i)]
  <2>1. Kept(q) = SelectInSeq(f, LAMBDA b : b)
    BY Zenon DEF Kept, Stops
  <2>2. Kept(q) = LET J == {i \in 1 .. Len(f) : f[i]} IN IF J # {} THEN Min(J) ELSE 0
    BY <2>1 DEF SelectInSeq
  <2>3. DOMAIN f = {}
    BY <1>2
  <2>4. Len(f) = 0
    <3>1. DOMAIN f = 1 .. 0 /\ f = [i \in 1 .. 0 |-> f[i]]
      BY <2>3
    <3> HIDE DEF f
    <3> QED
      BY <3>1
  <2>5. {i \in 1 .. Len(f) : f[i]} = {}
    BY <2>4
  <2>6. Kept(q) = 0
    BY <2>2, <2>5
  <2> QED
    BY <1>2, <2>6
<1> QED
  BY <1>1, <1>2

\* A sample is a token.
LEMMA SampleTyped ==
  ASSUME ChoosesTokens, TypeInv, NEW q \in Seqs, NEW p \in Nat
  PROVE  Sample(q, p) \in Token
<1> DEFINE C == CellsBefore(cells[q], p + 1)
           h == [i \in 1 .. p + 1 |-> (CHOOSE c \in C : c[1] = i - 1)[2]]
           sound == /\ {c[1] : c \in C} = 0 .. p /\ Cardinality(C) = p + 1
                    /\ cache = "rewind" => IsPrefix(h, state[q])
<1>1. Sample(q, p) = IF sound THEN Target(h) ELSE Garbage
  BY DEF Sample
<1>2. CASE sound
  <2>1. \A c \in C : c[2] \in Token
    <3>1. cells[q] \in SUBSET ((0 .. NCtxSeq - 1) \X Token)
      BY DEF TypeInv, TypeOK, Token
    <3> QED
      BY <3>1 DEF CellsBefore
  <2>2. \A i \in 1 .. p + 1 : \E c \in C : c[1] = i - 1
    <3> HIDE DEF C, h
    <3>1. {c[1] : c \in C} = 0 .. p
      BY <1>2
    <3>2. \A i \in 1 .. p + 1 : i - 1 \in 0 .. p
      OBVIOUS
    <3> QED
      BY <3>1, <3>2
  <2>3. \A i \in 1 .. p + 1 : (CHOOSE c \in C : c[1] = i - 1)[2] \in Token
    <3> HIDE DEF C
    <3> QED
      BY <2>1, <2>2
  <2>4. h \in Seq(Token)
    <3> DEFINE e(i) == (CHOOSE c \in C : c[1] = i - 1)[2]
    <3>1. h = [i \in 1 .. p + 1 |-> e(i)] /\ \A i \in 1 .. p + 1 : e(i) \in Token
      BY <2>3
    <3> HIDE DEF e, h
    <3>2. p + 1 \in Nat
      OBVIOUS
    <3> QED
      BY <3>1, <3>2
  <2>5. Target(h) \in Token
    <3> HIDE DEF h
    <3> QED
      BY <2>4 DEF ChoosesTokens
  <2> HIDE DEF sound, h
  <2> QED
    BY <1>1, <1>2, <2>5
<1>3. CASE ~sound
  <2> HIDE DEF sound, h
  <2> QED
    BY <1>1, <1>3 DEF Token
<1> QED
  BY <1>2, <1>3

\* The samples of a step are tokens, one for each place.
LEMMA TokensTyped ==
  ASSUME ChoosesTokens, TypeInv, NEW q \in Active
  PROVE  /\ Tokens(q) \in Seq(Token) /\ Len(Tokens(q)) = Len(slot[q].spec)
         /\ \A i \in 1 .. Len(slot[q].spec) : Tokens(q)[i] = Sample(q, slot[q].spec[i])
<1>1. slot[q].spec \in Seq(Nat) /\ q \in Seqs
  BY ActiveSlot DEF Slots
<1>2. \A i \in 1 .. Len(slot[q].spec) : slot[q].spec[i] \in Nat
  BY <1>1
<1>3. \A i \in 1 .. Len(slot[q].spec) : Sample(q, slot[q].spec[i]) \in Token
  BY <1>1, <1>2, SampleTyped
<1>4. Tokens(q) = [i \in 1 .. Len(slot[q].spec) |-> Sample(q, slot[q].spec[i])]
  BY <1>1 DEF Tokens
<1>5. Len(slot[q].spec) \in Nat
  BY <1>1
<1> QED
  BY <1>3, <1>4, <1>5

\* A slot that verify has been at: the last token it emitted, and how many it did not keep.
VerifiedSlot(s, next, left) == [s EXCEPT !.next = next, !.pos = s.pos - left]

\* The slot behind a verification.
LEMMA VerifiedSlotIs ==
  ASSUME NEW s \in Slots, NEW next \in Token, NEW left \in 0 .. s.pos
  PROVE  /\ VerifiedSlot(s, next, left) \in Slots
         /\ VerifiedSlot(s, next, left).req = s.req
         /\ VerifiedSlot(s, next, left).pending = s.pending
         /\ VerifiedSlot(s, next, left).pos = s.pos - left
         /\ VerifiedSlot(s, next, left).next = next
         /\ VerifiedSlot(s, next, left).primed = s.primed
         /\ VerifiedSlot(s, next, left).hasLogits = s.hasLogits
         /\ VerifiedSlot(s, next, left).draft = s.draft /\ VerifiedSlot(s, next, left).spec = s.spec
         /\ VerifiedSlot(s, next, left).committed = s.committed
         /\ VerifiedSlot(s, next, left).replay = s.replay
         /\ VerifiedSlot(s, next, left).replayFrom = s.replayFrom
<1> DEFINE pos == s.pos - left
           new == VerifiedSlot(s, next, left)
<1>1. pos \in Nat /\ next \in Vocabulary \cup {Garbage}
  BY DEF Slots, Token
<1>2. new = [s EXCEPT !.next = next, !.pos = pos]
  BY DEF VerifiedSlot
<1> HIDE DEF pos, new
<1>3. new \in Slots
  BY <1>1, <1>2 DEF Slots
<1>4. /\ new.req = s.req /\ new.pending = s.pending /\ new.pos = pos /\ new.next = next
      /\ new.draft = s.draft /\ new.spec = s.spec /\ new.committed = s.committed
      /\ new.replay = s.replay /\ new.replayFrom = s.replayFrom
  BY <1>2 DEF Slots
<1>5. new.hasLogits = s.hasLogits
  BY <1>2 DEF Slots
<1>6. new.primed = s.primed
  BY <1>2 DEF Slots
<1> QED
  BY <1>3, <1>4, <1>5, <1>6 DEF pos, new

\* What a verification does.
LEMMA VerifyDoes ==
  ASSUME ChoosesTokens, Inv, TypeInv, NEW q \in Seqs, HarvestVerify(q)
  PROVE  LET left == Len(slot[q].spec) - Kept(q)
             next == IF Emitted(q) = <<>> THEN slot[q].next ELSE Last(Emitted(q)) IN
         /\ q \in Active /\ q \in todo /\ pc = "harvest" /\ todo' = todo \ {q}
         /\ left \in 0 .. slot[q].pos /\ next \in Token /\ Emitted(q) \in Seq(Token)
         /\ slot' = [slot EXCEPT ![q] = VerifiedSlot(slot[q], next, left)]
         /\ answer' = [answer EXCEPT ![slot[q].req] = answer[slot[q].req] \o Emitted(q)]
         /\ window' \in [Seqs -> Seq(Token)]
         /\ turn' = [seq |-> q, kept |-> Kept(q),
                     reason |-> IF Stopped(q) THEN "stop"
                                ELSE IF Kept(q) > 0 /\ LimitAt(q, Kept(q)) THEN "length" ELSE "none"]
         /\ pc' = IF left > 0 THEN "rewind" ELSE "judge"
         /\ UNCHANGED <<drafting, batch, cells, state, snapshot, ended, cancelled>>
<1> DEFINE left == Len(slot[q].spec) - Kept(q)
           next == IF Emitted(q) = <<>> THEN slot[q].next ELSE Last(Emitted(q))
<1>1. q \in Active /\ q \in todo
  BY DEF HarvestVerify, Inv, Ranged
<1>2. slot[q] \in Slots /\ slot[q].spec \in Seq(Nat) /\ slot[q].pos \in Nat /\ slot[q].next \in Token
  BY <1>1, ActiveSlot DEF Slots, Token
<1>3. Kept(q) \in 0 .. Len(slot[q].spec) /\ Len(slot[q].spec) <= slot[q].pos /\ Len(slot[q].spec) \in Nat
  BY <1>1, <1>2, KeptRange DEF TypeInv, Bounded
<1>4. left \in 0 .. slot[q].pos
  BY <1>2, <1>3
<1>5. Emitted(q) \in Seq(Token) /\ SubSeq(Tokens(q), 1, Kept(q)) \in Seq(Token)
  <2>1. Tokens(q) \in Seq(Token) /\ Len(Tokens(q)) = Len(slot[q].spec)
    BY <1>1, TokensTyped
  <2> DEFINE k == IF Stopped(q) THEN Kept(q) - 1 ELSE Kept(q)
  <2>2. k \in Int /\ k <= Len(Tokens(q))
    BY <1>3, <2>1
  <2> HIDE DEF k
  <2>3. SubSeq(Tokens(q), 1, k) \in Seq(Token)
    BY <2>1, <2>2
  <2>4. Emitted(q) = SubSeq(Tokens(q), 1, k)
    BY DEF Emitted, k
  <2> QED
    BY <1>3, <2>1, <2>3, <2>4
<1>6. next \in Token
  BY <1>2, <1>5 DEF Last
<1>7. slot' = [slot EXCEPT ![q] = VerifiedSlot(slot[q], next, left)]
  BY DEF HarvestVerify, VerifiedSlot
<1>8. window' \in [Seqs -> Seq(Token)]
  <2>1. window \in [Seqs -> Seq(Token)]
    BY DEF TypeInv, TypeOK, Token
  <2> DEFINE w == window[q] \o SubSeq(Tokens(q), 1, Kept(q))
  <2>2. w \in Seq(Token)
    BY <1>5, <2>1, ConcatProperties
  <2>3. window' = [window EXCEPT ![q] = w]
    BY DEF HarvestVerify
  <2> HIDE DEF w
  <2> QED
    BY <2>1, <2>2, <2>3
<1> QED
  BY <1>1, <1>4, <1>5, <1>6, <1>7, <1>8 DEF HarvestVerify

\* A slot that is back at the start of its step, with the tokens it keeps to replay.
RolledSlot(s, kept) == [s EXCEPT !.replay = SubSeq(s.committed, 1, kept), !.pos = s.replayFrom]

\* The slot that was rolled back.
LEMMA RolledSlotIs ==
  ASSUME NEW s \in Slots, NEW kept \in 0 .. Len(s.committed)
  PROVE  /\ RolledSlot(s, kept) \in Slots
         /\ RolledSlot(s, kept).req = s.req
         /\ RolledSlot(s, kept).pending = s.pending
         /\ RolledSlot(s, kept).pos = s.replayFrom /\ RolledSlot(s, kept).next = s.next
         /\ RolledSlot(s, kept).primed = s.primed
         /\ RolledSlot(s, kept).hasLogits = s.hasLogits /\ RolledSlot(s, kept).draft = s.draft
         /\ RolledSlot(s, kept).spec = s.spec /\ RolledSlot(s, kept).committed = s.committed
         /\ RolledSlot(s, kept).replay = SubSeq(s.committed, 1, kept)
         /\ RolledSlot(s, kept).replayFrom = s.replayFrom
<1> DEFINE replay == SubSeq(s.committed, 1, kept)
           new == RolledSlot(s, kept)
<1>1. s.committed \in Seq(Vocabulary \cup {Garbage}) /\ s.replayFrom \in Nat
  BY DEF Slots
<1>2. replay \in Seq(Vocabulary \cup {Garbage})
  BY <1>1
<1>3. new = [s EXCEPT !.replay = replay, !.pos = s.replayFrom]
  BY DEF RolledSlot
<1> HIDE DEF replay, new
<1>4. new \in Slots
  BY <1>1, <1>2, <1>3 DEF Slots
<1>5. /\ new.req = s.req /\ new.pending = s.pending /\ new.pos = s.replayFrom /\ new.next = s.next
      /\ new.replay = replay /\ new.draft = s.draft /\ new.spec = s.spec
      /\ new.committed = s.committed /\ new.replayFrom = s.replayFrom
  BY <1>3 DEF Slots
<1>6. new.primed = s.primed /\ new.hasLogits = s.hasLogits
  BY <1>3 DEF Slots
<1> QED
  BY <1>4, <1>5, <1>6 DEF replay, new

---------------------------------------------------------------------------

\* A step that stages one sequence.
LEMMA TypeStaged ==
  ASSUME TypeInv, Inv', NEW q \in Active, NEW new \in Slots, slot' = [slot EXCEPT ![q] = new],
         NEW toks \in Seq(Token), batch' = [batch EXCEPT ![q] = toks], Len(toks) <= Room,
         snapshot' \in [Seqs -> Seq(Token)],
         UNCHANGED <<drafting, turn, cells, state, window, callers>>,
         pc \in {"pass1", "pass2"}, pc' = pc, Len(new.spec) <= new.pos,
         Len(new.spec) > 1 => Len(new.committed) = Len(new.spec), Len(toks) <= new.pos
  PROVE  TypeInv'
<1>1. /\ slot' \in [Seqs -> Slots \cup {NoSlot}] /\ Active' = Active
      /\ slot'[q] = new /\ \A p \in Seqs : p # q => slot'[p] = slot[p]
  BY SlotWritten
<1>2. q \in Seqs /\ batch \in [Seqs -> Seq(Token)] /\ Active \subseteq Seqs
  BY ActiveSlot DEF TypeInv, TypeOK, Token, Active
<1>3. IsFiniteSet(Entries)' /\ (BatchLen <= BatchCap)'
  BY <1>2, EntriesMore DEF TypeInv
<1>4. batch' \in [Seqs -> Seq(Token)] /\ batch'[q] = toks /\ \A p \in Seqs : p # q => batch'[p] = batch[p]
  BY <1>2
<1>5. Bounded'
  <2>1. Staging /\ pc' # "rewind"
    BY DEF Staging
  <2>2. \A p \in Active : /\ Len(slot[p].spec) <= slot[p].pos
                          /\ Len(slot[p].spec) > 1 => Len(slot[p].committed) = Len(slot[p].spec)
                          /\ Len(batch[p]) <= slot[p].pos
    BY <2>1 DEF TypeInv, Bounded
  <2>3. ASSUME NEW p \in Active
        PROVE  /\ Len(slot'[p].spec) <= slot'[p].pos
               /\ Len(slot'[p].spec) > 1 => Len(slot'[p].committed) = Len(slot'[p].spec)
               /\ Len(batch'[p]) <= slot'[p].pos
    <3>1. CASE p = q
      BY <3>1, <1>1, <1>4
    <3>2. CASE p # q
      <4>1. slot'[p] = slot[p] /\ batch'[p] = batch[p]
        BY <3>2, <1>1, <1>2, <1>4
      <4> QED
        BY <2>2, <4>1
    <3> QED
      BY <3>1, <3>2
  <2> QED
    BY <2>1, <2>3, <1>1 DEF Bounded
<1>6. TypeOK'
  BY <1>1, <1>3, <1>4 DEF TypeInv, TypeOK, Inv, Shape, Ranged, Active, Token, callers
<1> QED
  BY <1>3, <1>5, <1>6 DEF TypeInv

\* Pass 1 keeps the types.
LEMMA TypeStage == ASSUME Inv, Inv', TypeInv, NEW q \in Seqs,
                          StageNext(q) \/ StageReplay(q) \/ WaitReplay(q)
                   PROVE  TypeInv'
<1>1. CASE StageNext(q)
  <2>1. PICK draft \in Seq(Vocabulary) :
              /\ Len(draft) <= MaxDraft /\ Len(draft) + 1 <= Room
              /\ batch' = [batch EXCEPT ![q] = <<slot[q].next>> \o draft]
              /\ slot' = [slot EXCEPT ![q] = NextSlot(slot[q], draft)]
    BY <1>1, StageNextDoes
  <2>2. /\ q \in Active /\ pc = "pass1" /\ pc' = pc /\ snapshot' \in [Seqs -> Seq(Token)]
        /\ UNCHANGED <<drafting, turn, cells, state, window, callers>>
    BY <1>1, StageNextDoes DEF Running
  <2> DEFINE s == slot[q]
             new == NextSlot(s, draft)
             toks == <<s.next>> \o draft
  <2>3. s \in Slots /\ s.pos \in Nat /\ s.next \in Token /\ Len(draft) \in Nat
    <3>1. slot[q] \in Slots
      BY <2>2, ActiveSlot
    <3>2. \A x \in Slots : x.pos \in Nat /\ x.next \in Token
      BY DEF Slots, Token
    <3>3. Len(draft) \in Nat
      BY ONLY draft \in Seq(Vocabulary), LenProperties
    <3> QED
      BY ONLY <3>1, <3>2, <3>3
  <2>4. toks \in Seq(Token) /\ Len(toks) = Len(draft) + 1
    <3>1. <<s.next>> \in Seq(Token) /\ draft \in Seq(Token) /\ Len(<<s.next>>) = 1
      BY <2>3 DEF Token
    <3> HIDE DEF s
    <3> QED
      BY <2>3, <3>1, ConcatProperties
  <2>5. /\ new \in Slots /\ new.pos = s.pos + Len(draft) + 1 /\ new.committed = toks
        /\ new.spec = [i \in 1 .. Len(draft) + 1 |-> s.pos + i - 1]
    BY <2>3, NextSlotIs
  <2>6. Len(new.spec) = Len(draft) + 1
    BY <2>3, <2>5
  <2>7. slot' = [slot EXCEPT ![q] = new] /\ batch' = [batch EXCEPT ![q] = toks]
    BY <2>1
  <2> HIDE DEF new, toks, s
  <2>8. /\ Len(new.spec) <= new.pos /\ Len(new.committed) = Len(new.spec)
        /\ Len(toks) <= new.pos /\ Len(toks) <= Room
    BY <2>1, <2>3, <2>4, <2>5, <2>6
  <2> QED
    BY <2>2, <2>4, <2>5, <2>7, <2>8, TypeStaged
<1>2. CASE StageReplay(q)
  <2>1. PICK fits \in BOOLEAN :
              /\ slot' = [slot EXCEPT ![q] = ReplaySlot(slot[q], fits)]
              /\ batch' = [batch EXCEPT ![q] = IF fits THEN Append(slot[q].replay, slot[q].next)
                                               ELSE slot[q].replay]
              /\ Len(slot[q].replay) + (IF fits THEN 1 ELSE 0) <= Room
    BY <1>2, StageReplayDoes
  <2>2. /\ q \in Active /\ pc = "pass1" /\ pc' = pc
        /\ UNCHANGED <<drafting, turn, cells, state, snapshot, window, callers>>
    BY <1>2, StageReplayDoes DEF Running
  <2> DEFINE s == slot[q]
             new == ReplaySlot(s, fits)
             toks == IF fits THEN Append(s.replay, s.next) ELSE s.replay
  <2>3. s \in Slots /\ s.pos \in Nat /\ s.next \in Token /\ s.replay \in Seq(Token) /\ Len(s.replay) \in Nat
    BY <2>2, ActiveSlot DEF Slots, Token
  <2>4. toks \in Seq(Token) /\ Len(toks) = Len(s.replay) + (IF fits THEN 1 ELSE 0)
    <3> HIDE DEF s
    <3>1. Append(s.replay, s.next) \in Seq(Token) /\ Len(Append(s.replay, s.next)) = Len(s.replay) + 1
      BY <2>3, AppendProperties
    <3>2. CASE fits
      BY <2>3, <3>1, <3>2
    <3>3. CASE ~fits
      BY <2>3, <3>3
    <3> QED
      BY <3>2, <3>3
  <2>5. /\ new \in Slots /\ new.pos = s.pos + Len(s.replay) + (IF fits THEN 1 ELSE 0)
        /\ new.spec = IF fits THEN <<s.pos + Len(s.replay)>> ELSE <<>>
    BY <2>3, ReplaySlotIs
  <2>6. Len(new.spec) = IF fits THEN 1 ELSE 0
    BY <2>5
  <2>7. slot' = [slot EXCEPT ![q] = new] /\ batch' = [batch EXCEPT ![q] = toks]
    BY <2>1
  <2>8. Len(toks) <= Room
    BY <2>1, <2>4
  <2>9. snapshot' \in [Seqs -> Seq(Token)]
    BY <2>2 DEF TypeInv, TypeOK, Token
  <2> HIDE DEF new, toks, s
  <2>10. Len(new.spec) <= new.pos /\ ~(Len(new.spec) > 1) /\ Len(toks) <= new.pos
    <3>1. CASE fits
      BY <2>3, <2>4, <2>5, <2>6, <3>1
    <3>2. CASE ~fits
      BY <2>3, <2>4, <2>5, <2>6, <3>2
    <3> QED
      BY <3>1, <3>2
  <2> QED
    BY <2>2, <2>4, <2>5, <2>7, <2>8, <2>9, <2>10, TypeStaged
<1>3. CASE WaitReplay(q)
  <2>1. q \in Active /\ pc = "pass1" /\ pc' = pc /\ slot' = [slot EXCEPT ![q] = slot'[q]] /\ slot'[q] \in Slots
        /\ slot'[q].pos = slot[q].pos /\ slot'[q].spec = slot[q].spec
        /\ slot'[q].committed = slot[q].committed /\ UNCHANGED <<drafting, turn, backend, callers>>
    BY <1>3, WaitReplayDoes DEF Running
  <2> DEFINE new == slot'[q]
  <2>2. slot' = [slot EXCEPT ![q] = new] /\ new \in Slots
    BY <2>1
  <2>3. /\ slot' \in [Seqs -> Slots \cup {NoSlot}] /\ Active' = Active
        /\ \A p \in Seqs : p # q => slot'[p] = slot[p]
    <3> HIDE DEF new
    <3> QED
      BY <2>1, <2>2, SlotWritten
  <2>4. Entries' = Entries /\ BatchLen' = BatchLen
    BY <2>1 DEF Entries, BatchLen, backend
  <2>5. Staging /\ pc' # "rewind" /\ Active \subseteq Seqs
    BY <2>1 DEF Staging, Active
  <2>6. Bounded'
    BY <2>1, <2>3, <2>5 DEF TypeInv, Bounded, backend
  <2>7. TypeOK'
    BY <2>1, <2>3, <2>4 DEF TypeInv, TypeOK, Inv, Shape, Ranged, Active, backend, callers
  <2> QED
    BY <2>4, <2>6, <2>7 DEF TypeInv
<1> QED
  BY <1>1, <1>2, <1>3

\* A slot whose prompt was read outside the batch.
MediaSlot(s, n) == [s EXCEPT !.pos = n, !.pending = <<>>, !.primed = TRUE, !.hasLogits = TRUE]

\* The slot behind a piece of media.
LEMMA MediaSlotIs ==
  ASSUME NEW s \in Slots, NEW n \in Nat
  PROVE  MediaSlot(s, n) \in Slots /\ MediaSlot(s, n).spec = s.spec /\ MediaSlot(s, n).pos = n
<1> DEFINE none == <<>>
           yes == TRUE
           new == MediaSlot(s, n)
<1>1. none \in Seq(Vocabulary) /\ yes \in BOOLEAN
  OBVIOUS
<1>2. new = [s EXCEPT !.pos = n, !.pending = none, !.primed = yes, !.hasLogits = yes]
  BY DEF MediaSlot
<1> HIDE DEF none, yes, new
<1>3. new \in Slots /\ new.spec = s.spec /\ new.pos = n
  BY <1>1, <1>2 DEF Slots
<1> QED
  BY <1>3 DEF new

\* Media keeps the types.
LEMMA TypeMedia == ASSUME MediaFits, Inv, Inv', TypeInv, NEW q \in Seqs, PrefillMedia(q)
                   PROVE  TypeInv'
<1> DEFINE toks == Prompt[slot[q].req]
<1>1. /\ pc = "media" /\ pc' = pc /\ q \in Active /\ slot[q].req \in Media
      /\ UNCHANGED <<drafting, turn, batch, answer, cancelled>>
  BY DEF PrefillMedia, Unread, Inv, Ranged
<1>2. CASE Finish(q, "error")
  <2>1. drafting' \in BOOLEAN
    BY <1>1 DEF TypeInv, TypeOK
  <2>2. turn' = turn /\ pc' # "rewind" /\ Staging
    BY <1>1 DEF Staging
  <2> QED
    BY <1>1, <1>2, <2>1, <2>2, TypeFinish
<1>3. CASE /\ cells' = [cells EXCEPT ![q] = @ \cup CellsFrom(0, toks)]
           /\ state' = [state EXCEPT ![q] = @ \o toks]
           /\ slot' = [slot EXCEPT ![q] = [@ EXCEPT !.pos = Len(toks), !.pending = <<>>,
                                                 !.primed = TRUE, !.hasLogits = TRUE]]
           /\ UNCHANGED <<snapshot, window, ended>>
  <2>1. slot[q] \in Slots /\ slot[q].req \in Requests /\ q \in Seqs
    BY <1>1, ActiveSlot
  <2>2. toks \in Seq(Token) /\ Len(toks) \in Nat /\ Len(toks) <= NCtxSeq
    BY <1>1, <2>1, PromptIs DEF MediaFits
  <2> HIDE DEF toks
  <2> DEFINE new == MediaSlot(slot[q], Len(toks))
  <2>3. slot' = [slot EXCEPT ![q] = new]
    BY <1>3 DEF MediaSlot
  <2>4. new \in Slots /\ new.spec = slot[q].spec /\ new.pos = Len(toks)
    BY <2>1, <2>2, MediaSlotIs
  <2> HIDE DEF new
  <2>5. /\ slot' \in [Seqs -> Slots \cup {NoSlot}] /\ Active' = Active
        /\ slot'[q] = new /\ \A p \in Seqs : p # q => slot'[p] = slot[p]
    BY <1>1, <2>3, <2>4, SlotWritten
  <2>6. Entries' = Entries /\ BatchLen' = BatchLen
    BY <1>1 DEF Entries, BatchLen
  <2>7. CellsFrom(0, toks) \subseteq (0 .. NCtxSeq - 1) \X Token
    <3>1. NCtxSeq \in Nat
      BY DecodeAssumption
    <3>2. \A i \in DOMAIN toks : 0 + i - 1 \in 0 .. NCtxSeq - 1 /\ toks[i] \in Token
      BY <2>2, <3>1
    <3> QED
      BY <3>2 DEF CellsFrom
  <2>8. cells' \in [Seqs -> SUBSET ((0 .. NCtxSeq - 1) \X Token)]
    BY <1>3, <2>7 DEF TypeInv, TypeOK, Token
  <2>9. state' \in [Seqs -> Seq(Token)]
    <3>1. state \in [Seqs -> Seq(Token)]
      BY DEF TypeInv, TypeOK, Token
    <3> DEFINE u == state[q] \o toks
    <3>2. u \in Seq(Token) /\ state' = [state EXCEPT ![q] = u]
      BY <1>3, <2>2, <3>1, ConcatProperties
    <3> HIDE DEF u
    <3> QED
      BY <3>1, <3>2
  <2>10. Bounded'
    <3>1. \A p \in Active : slot'[p].spec = <<>> /\ batch'[p] = <<>> /\ slot'[p].pos \in Nat
      <4>1. \A p \in Active : slot[p].spec = <<>> /\ batch[p] = <<>> /\ slot[p].pos \in Nat /\ p \in Seqs
        BY <1>1, ActiveSlot DEF TypeInv, Bounded, Slots
      <4> QED
        BY <1>1, <2>2, <2>4, <2>5, <4>1
    <3> QED
      BY <1>1, <2>5, <3>1 DEF Bounded
  <2>11. TypeOK'
    BY <1>1, <1>3, <2>5, <2>6, <2>8, <2>9 DEF TypeInv, TypeOK, Inv, Shape, Ranged, Active, Token
  <2> QED
    BY <2>6, <2>10, <2>11 DEF TypeInv
<1> QED
  BY <1>2, <1>3 DEF PrefillMedia

\* Sharing keeps the types.
LEMMA TypeShare == ASSUME Inv, Inv', TypeInv, NEW q \in Seqs, Share(q) PROVE TypeInv'
<1>1. /\ q \in Active /\ pc = "share" /\ pc' = pc
      /\ UNCHANGED <<drafting, turn, batch, state, snapshot, window, callers>>
  BY ShareDoes
<1>2. Entries' = Entries /\ BatchLen' = BatchLen
  BY <1>1 DEF Entries, BatchLen
<1>3. CASE UNCHANGED <<cells, slot>>
  <2>1. UNCHANGED <<slot, backend, answer, ended>> /\ drafting' \in BOOLEAN /\ cancelled' \subseteq Requests
    BY <1>1, <1>3 DEF backend, callers, TypeInv, TypeOK
  <2> QED
    BY <1>1, <2>1, TypeQuiet DEF Staging
<1>4. ASSUME NEW d \in Active \ {q}, NEW n \in Nat, n = Offer(d, q),
             cells' = [cells EXCEPT ![q] = cells[q] \cup CellsBefore(cells[d], n)],
             \/ slot' = slot
             \/ slot' = [slot EXCEPT ![q] = SharedSlot(slot[q], n)]
      PROVE  TypeInv'
  <2>1. cells' \in [Seqs -> SUBSET ((0 .. NCtxSeq - 1) \X Token)]
    <3>1. cells \in [Seqs -> SUBSET ((0 .. NCtxSeq - 1) \X Token)] /\ d \in Seqs
      BY DEF TypeInv, TypeOK, Token, Active
    <3> QED
      BY <1>4, <3>1 DEF CellsBefore
  <2>2. slot[q] \in Slots
    BY <1>1, ActiveSlot
  <2>3. slot' \in [Seqs -> Slots \cup {NoSlot}] /\ Bounded'
    <3>1. CASE slot' = slot
      BY <3>1, <1>1 DEF TypeInv, TypeOK, Bounded, Staging, Active
    <3>2. CASE slot' = [slot EXCEPT ![q] = SharedSlot(slot[q], n)]
      <4> DEFINE new == SharedSlot(slot[q], n)
      <4>1. new \in Slots /\ new.spec = slot[q].spec /\ new.committed = slot[q].committed /\ new.pos = n
        BY <2>2, SharedSlotIs
      <4> HIDE DEF new
      <4>2. slot' = [slot EXCEPT ![q] = new]
        BY <3>2 DEF new
      <4>3. /\ slot' \in [Seqs -> Slots \cup {NoSlot}] /\ Active' = Active
            /\ slot'[q] = new /\ \A p \in Seqs : p # q => slot'[p] = slot[p]
        BY <1>1, <4>1, <4>2, SlotWritten
      <4>4. slot[q].pos = 0
        BY ShareDoes DEF Unstarted
      <4>5. Staging /\ Active \subseteq Seqs
        BY <1>1 DEF Staging, Active
      <4>6. Len(slot[q].spec) <= 0 /\ Len(batch[q]) <= 0
            /\ (Len(slot[q].spec) > 1 => Len(slot[q].committed) = Len(slot[q].spec))
        BY <1>1, <4>4, <4>5 DEF TypeInv, Bounded
      <4>7. slot[q].spec \in Seq(Nat) /\ batch[q] \in Seq(Token)
        BY <2>2 DEF Slots, TypeInv, TypeOK, Token
      <4>8. /\ Len(new.spec) <= new.pos /\ Len(batch[q]) <= new.pos
            /\ Len(new.spec) > 1 => Len(new.committed) = Len(new.spec)
        BY <4>1, <4>6, <4>7
      <4>9. ASSUME NEW p \in Active
            PROVE /\ Len(slot'[p].spec) <= slot'[p].pos
                  /\ Len(slot'[p].spec) > 1 => Len(slot'[p].committed) = Len(slot'[p].spec)
                  /\ Len(batch'[p]) <= slot'[p].pos
        <5>1. CASE p = q
          BY <1>1, <4>3, <4>8, <5>1
        <5>2. CASE p # q
          BY <1>1, <4>3, <4>5, <5>2 DEF TypeInv, Bounded
        <5> QED
          BY <5>1, <5>2
      <4> QED
        BY <1>1, <4>3, <4>9 DEF Bounded
    <3> QED
      BY <1>4, <3>1, <3>2
  <2>4. TypeOK'
    BY <1>1, <1>2, <2>1, <2>3 DEF TypeInv, TypeOK, Inv, Shape, Ranged, Active, Token, callers
  <2> QED
    BY <1>2, <2>3, <2>4 DEF TypeInv
<1> QED
  BY <1>3, <1>4, ShareDoes

\* Pass 2 keeps the types.
LEMMA TypePrompt == ASSUME Inv, Inv', TypeInv, NEW q \in Seqs, StagePrompt(q) PROVE TypeInv'
<1>1. PICK n \in 1 .. Len(slot[q].pending) :
              /\ n <= Room
              /\ slot' = [slot EXCEPT ![q] = PromptSlot(slot[q], n)]
              /\ batch' = [batch EXCEPT ![q] = SubSeq(slot[q].pending, 1, n)]
  BY StagePromptDoes
<1>2. /\ q \in Active /\ pc = "pass2" /\ pc' = pc
      /\ UNCHANGED <<drafting, turn, cells, state, snapshot, window, callers>>
  BY StagePromptDoes
<1> DEFINE s == slot[q]
           new == PromptSlot(s, n)
           toks == SubSeq(s.pending, 1, n)
<1>3. s \in Slots /\ s.pos \in Nat /\ s.pending \in Seq(Token)
  <2>1. s \in Slots
    BY <1>2, ActiveSlot
  <2> QED
    BY <2>1 DEF Slots, Token
<1>4. toks \in Seq(Token) /\ Len(toks) = n
  BY <1>3
<1>5. /\ new \in Slots /\ new.pos = s.pos + n
      /\ new.spec = IF n = Len(s.pending) THEN <<s.pos + n - 1>> ELSE <<>>
  BY <1>3, PromptSlotIs
<1>6. Len(new.spec) \in {0, 1}
  BY <1>5
<1>7. slot' = [slot EXCEPT ![q] = new] /\ batch' = [batch EXCEPT ![q] = toks]
  BY <1>1
<1>8. n \in Nat /\ n >= 1
  BY <1>3
<1>9. snapshot' \in [Seqs -> Seq(Token)]
  BY <1>2 DEF TypeInv, TypeOK, Token
<1> HIDE DEF new, toks, s
<1>10. Len(new.spec) <= new.pos /\ ~(Len(new.spec) > 1) /\ Len(toks) <= new.pos /\ Len(toks) <= Room
  BY <1>1, <1>3, <1>4, <1>5, <1>6, <1>8
<1> QED
  BY <1>2, <1>4, <1>5, <1>7, <1>9, <1>10, TypeStaged

\* A decode that succeeds types the cells.
LEMMA TypeDecodeOk == ASSUME Inv, Inv', TypeInv, DecodeOk PROVE TypeInv'
<1>1. /\ pc = "decode" /\ pc' = "harvest" /\ Active' = Active /\ Active \subseteq Seqs
      /\ UNCHANGED <<drafting, slot, turn, batch, snapshot, window, callers>>
  BY DEF DecodeOk, Active
<1>2. Entries' = Entries /\ BatchLen' = BatchLen
  BY <1>1 DEF Entries, BatchLen
<1>3. ASSUME NEW q \in Active
      PROVE  CellsFrom(First(q), batch[q]) \subseteq (0 .. NCtxSeq - 1) \X Token
  <2> DEFINE p == First(q)
             n == Len(batch[q])
  <2>1. batch[q] \in Seq(Token) /\ slot[q].pos \in Nat /\ NCtxSeq \in Nat
    BY <1>1, ActiveSlot, DecodeAssumption DEF TypeInv, TypeOK, Token, Slots
  <2>2. n <= slot[q].pos /\ p = slot[q].pos - n /\ n \in Nat
    BY <1>1, <2>1 DEF TypeInv, Bounded, Staging, First
  <2>3. ~(p + n > NCtxSeq)
    BY <1>1 DEF DecodeOk, Overfull
  <2> HIDE DEF p, n
  <2>4. p \in Nat /\ p + n <= NCtxSeq
    BY <2>1, <2>2, <2>3
  <2>5. \A i \in 1 .. n : p + i - 1 \in 0 .. NCtxSeq - 1
    BY <2>1, <2>2, <2>4, SMTT(60)
  <2>6. DOMAIN batch[q] = 1 .. n /\ \A i \in 1 .. n : batch[q][i] \in Token
    BY <2>1 DEF n
  <2> QED
    BY <2>5, <2>6 DEF CellsFrom, p
<1>4. cells' \in [Seqs -> SUBSET ((0 .. NCtxSeq - 1) \X Token)]
  <2>1. cells \in [Seqs -> SUBSET ((0 .. NCtxSeq - 1) \X Token)]
    BY DEF TypeInv, TypeOK, Token
  <2> QED
    BY <1>3, <2>1 DEF DecodeOk
<1>5. state' \in [Seqs -> Seq(Token)]
  <2>1. state \in [Seqs -> Seq(Token)] /\ batch \in [Seqs -> Seq(Token)]
    BY DEF TypeInv, TypeOK, Token
  <2>2. state' = [q \in Seqs |-> state[q] \o batch[q]]
    BY DEF DecodeOk
  <2>3. \A q \in Seqs : state[q] \o batch[q] \in Seq(Token)
    BY <2>1, ConcatProperties
  <2> QED
    BY <2>2, <2>3
<1>6. Bounded'
  BY <1>1 DEF TypeInv, Bounded, Staging
<1>7. TypeOK'
  BY <1>1, <1>2, <1>4, <1>5 DEF TypeInv, TypeOK, Inv, Shape, Ranged, Active, Token, callers
<1> QED
  BY <1>2, <1>6, <1>7 DEF TypeInv

\* Decode keeps the types, also when it fails.
LEMMA TypeDecode == ASSUME Inv, Inv', TypeInv, Decode PROVE TypeInv'
<1>1. CASE DecodeOk
  BY <1>1, TypeDecodeOk
<1>2. ASSUME NEW q \in Seqs, DecodeNoKV(q) PROVE TypeInv'
  <2>1. /\ q \in Active /\ Finish(q, "context") /\ pc' = "top" /\ drafting' \in BOOLEAN
        /\ UNCHANGED <<batch, answer, cancelled, turn>>
    BY <1>2 DEF DecodeNoKV, TypeInv, TypeOK
  <2>2. pc' # "rewind" /\ pc' # "media" /\ ~Staging' /\ Staging
    BY <1>2, <2>1 DEF Staging, DecodeNoKV
  <2> QED
    BY <2>1, <2>2, TypeFinish
<1>3. CASE DecodeRefused
  <2>1. /\ pc' = "dead" /\ \A q \in Seqs : slot'[q] = NoSlot
        /\ slot' = [q \in Seqs |-> NoSlot] /\ cells' = [q \in Seqs |-> {}]
        /\ state' = [q \in Seqs |-> <<>>] /\ snapshot' = [q \in Seqs |-> <<>>] /\ window' = [q \in Seqs |-> <<>>]
        /\ UNCHANGED <<todo, drafting, turn, batch, answer, cancelled>>
    BY <1>3 DEF DecodeRefused
  <2>2. Entries' = Entries /\ BatchLen' = BatchLen
    BY <2>1 DEF Entries, BatchLen
  <2>3. Active' = {}
    BY <2>1 DEF Active
  <2>4. Bounded'
    BY <2>1, <2>3 DEF Bounded
  <2>5. ended' \in [Requests -> {"none", "stop", "length", "context", "cancel", "error"}]
    BY <1>3 DEF DecodeRefused, TypeInv, TypeOK
  <2>6. <<>> \in Seq(Token)
    OBVIOUS
  <2>7. /\ slot' \in [Seqs -> Slots \cup {NoSlot}]
        /\ cells' \in [Seqs -> SUBSET ((0 .. NCtxSeq - 1) \X Token)]
        /\ state' \in [Seqs -> Seq(Token)] /\ snapshot' \in [Seqs -> Seq(Token)] /\ window' \in [Seqs -> Seq(Token)]
    BY <2>1, <2>6
  <2>8. TypeOK'
    BY <2>1, <2>2, <2>5, <2>7 DEF TypeInv, TypeOK, Inv, Shape, Ranged, Active, Token
  <2> QED
    BY <2>2, <2>4, <2>8 DEF TypeInv
<1> QED
  BY <1>1, <1>2, <1>3 DEF Decode

\* Verification keeps the types.
LEMMA TypeVerify == ASSUME ChoosesTokens, Inv, Inv', TypeInv, NEW q \in Seqs, HarvestVerify(q) PROVE TypeInv'
<1> DEFINE left == Len(slot[q].spec) - Kept(q)
           next == IF Emitted(q) = <<>> THEN slot[q].next ELSE Last(Emitted(q))
           new == VerifiedSlot(slot[q], next, left)
<1>1. /\ q \in Active /\ pc = "harvest" /\ left \in 0 .. slot[q].pos /\ next \in Token
      /\ Emitted(q) \in Seq(Token) /\ window' \in [Seqs -> Seq(Token)]
      /\ slot' = [slot EXCEPT ![q] = new]
      /\ answer' = [answer EXCEPT ![slot[q].req] = answer[slot[q].req] \o Emitted(q)]
      /\ pc' = IF left > 0 THEN "rewind" ELSE "judge"
      /\ UNCHANGED <<drafting, batch, cells, state, snapshot, ended, cancelled>>
  BY VerifyDoes
<1>2. turn' = [seq |-> q, kept |-> Kept(q),
                     reason |-> IF Stopped(q) THEN "stop"
                                ELSE IF Kept(q) > 0 /\ LimitAt(q, Kept(q)) THEN "length" ELSE "none"]
  BY VerifyDoes
<1>3. slot[q] \in Slots /\ slot[q].req \in Requests /\ slot[q].spec \in Seq(Nat) /\ slot[q].pos \in Nat
  BY <1>1, ActiveSlot DEF Slots
<1>4. Kept(q) \in 0 .. Len(slot[q].spec) /\ Len(slot[q].spec) \in Nat
      /\ (Kept(q) = 0 <=> slot[q].spec = <<>>)
  BY <1>3, KeptRange
<1>5. /\ new \in Slots /\ new.spec = slot[q].spec /\ new.pos = slot[q].pos - left
      /\ new.committed = slot[q].committed
  <2> HIDE DEF left, next
  <2> QED
    BY <1>1, <1>3, VerifiedSlotIs
<1>6. turn' \in [seq : Seqs, kept : Nat, reason : {"none", "stop", "length"}]
  BY <1>2, <1>4
<1>7. answer' \in [Requests -> Seq(Token)]
  <2>1. answer \in [Requests -> Seq(Token)]
    BY DEF TypeInv, TypeOK, Token
  <2> DEFINE a == answer[slot[q].req] \o Emitted(q)
  <2>2. a \in Seq(Token) /\ answer' = [answer EXCEPT ![slot[q].req] = a]
    BY <1>1, <1>3, <2>1, ConcatProperties
  <2> HIDE DEF a
  <2> QED
    BY <2>1, <2>2
<1> HIDE DEF new
<1>8. /\ slot' \in [Seqs -> Slots \cup {NoSlot}] /\ Active' = Active
      /\ slot'[q] = new /\ \A p \in Seqs : p # q => slot'[p] = slot[p]
  BY <1>1, <1>5, SlotWritten
<1>9. Entries' = Entries /\ BatchLen' = BatchLen
  BY <1>1 DEF Entries, BatchLen
<1>10. Bounded'
  <2>1. ~Staging' /\ pc' # "media" /\ todo' = todo \ {q} /\ Active \subseteq Seqs
    BY <1>1, VerifyDoes DEF Staging, Active
  <2>2. pc' = "rewind" => turn'.kept < Len(slot'[turn'.seq].spec)
    <3>1. turn'.kept = Kept(q) /\ turn'.seq = q
      BY <1>2
    <3>2. pc' = "rewind" => Len(slot[q].spec) - Kept(q) > 0
      BY <1>1
    <3> QED
      BY <1>4, <1>5, <1>8, <3>1, <3>2
  <2>3. ASSUME NEW p \in Active
        PROVE  /\ p \in todo' => Len(slot'[p].spec) <= slot'[p].pos
               /\ Len(slot'[p].spec) > 1 => Len(slot'[p].committed) = Len(slot'[p].spec)
    <3>1. /\ p \in todo => Len(slot[p].spec) <= slot[p].pos
          /\ Len(slot[p].spec) > 1 => Len(slot[p].committed) = Len(slot[p].spec)
      BY DEF TypeInv, Bounded
    <3>2. CASE p = q
      BY <1>5, <1>8, <2>1, <3>1, <3>2
    <3>3. CASE p # q
      BY <1>8, <2>1, <3>1, <3>3
    <3> QED
      BY <3>2, <3>3
  <2> QED
    BY <1>8, <2>1, <2>2, <2>3 DEF Bounded
<1>11. TypeOK'
  BY <1>1, <1>6, <1>7, <1>8, <1>9 DEF TypeInv, TypeOK, Inv, Shape, Ranged, Active, Token
<1> QED
  BY <1>9, <1>10, <1>11 DEF TypeInv

\* Trimming and rolling back keep the types.
LEMMA TypeRewind == ASSUME Inv, Inv', TypeInv, Trim \/ Rollback PROVE TypeInv'
<1> DEFINE q == turn.seq
<1>1. /\ pc = "rewind" /\ pc' = "judge" /\ q \in Active /\ q \in Seqs
      /\ UNCHANGED <<todo, drafting, turn, batch, snapshot, window, callers>>
  BY DEF Trim, Rollback, Inv, Ranged, Active
<1>2. Entries' = Entries /\ BatchLen' = BatchLen
  BY <1>1 DEF Entries, BatchLen
<1>3. cells' \in [Seqs -> SUBSET ((0 .. NCtxSeq - 1) \X Token)]
  <2>1. cells \in [Seqs -> SUBSET ((0 .. NCtxSeq - 1) \X Token)]
    BY DEF TypeInv, TypeOK, Token
  <2>2. \E p : cells' = [cells EXCEPT ![q] = CellsBefore(cells[q], p)]
    BY DEF Trim, Rollback
  <2> QED
    BY <1>1, <2>1, <2>2 DEF CellsBefore
<1>4. state' \in [Seqs -> Seq(Token)]
  <2>1. state \in [Seqs -> Seq(Token)] /\ snapshot \in [Seqs -> Seq(Token)]
    BY DEF TypeInv, TypeOK, Token
  <2> QED
    BY <1>1, <2>1 DEF Trim, Rollback
<1>5. slot[q] \in Slots
  BY <1>1, ActiveSlot
<1>6. /\ slot' \in [Seqs -> Slots \cup {NoSlot}] /\ Active' = Active
      /\ \A p \in Seqs : p # q => slot'[p] = slot[p]
      /\ Len(slot'[q].spec) > 1 => Len(slot'[q].committed) = Len(slot'[q].spec)
  <2>1. Len(slot[q].spec) > 1 => Len(slot[q].committed) = Len(slot[q].spec)
    BY <1>1 DEF TypeInv, Bounded
  <2>2. CASE Trim
    <3>1. slot' = slot
      BY <2>2 DEF Trim
    <3> QED
      BY <2>1, <3>1 DEF TypeInv, TypeOK, Active
  <2>3. CASE Rollback
    <3> DEFINE new == RolledSlot(slot[q], turn.kept)
    <3>1. turn.kept \in Nat /\ turn.kept < Len(slot[q].spec)
      BY <1>1 DEF TypeInv, TypeOK, Bounded
    <3>2. slot[q].spec \in Seq(Nat) /\ slot[q].committed \in Seq(Token)
      BY <1>5 DEF Slots, Token
    <3>3. turn.kept \in 0 .. Len(slot[q].committed)
      <4>1. CASE Len(slot[q].spec) > 1
        BY <2>1, <3>1, <3>2, <4>1
      <4>2. CASE ~(Len(slot[q].spec) > 1)
        BY <3>1, <3>2, <4>2
      <4> QED
        BY <4>1, <4>2
    <3>4. /\ new \in Slots /\ new.spec = slot[q].spec /\ new.committed = slot[q].committed
      BY <1>5, <3>3, RolledSlotIs
    <3>5. slot' = [slot EXCEPT ![q] = new]
      BY <2>3 DEF Rollback, RolledSlot
    <3> HIDE DEF new, q
    <3>6. /\ slot' \in [Seqs -> Slots \cup {NoSlot}] /\ Active' = Active
          /\ slot'[q] = new /\ \A p \in Seqs : p # q => slot'[p] = slot[p]
      BY <1>1, <3>4, <3>5, SlotWritten
    <3> QED
      BY <2>1, <3>4, <3>6
  <2> QED
    BY <2>2, <2>3
<1> HIDE DEF q
<1>7. Bounded'
  <2>1. ~Staging' /\ pc' # "media" /\ pc' # "rewind" /\ Active \subseteq Seqs /\ q \notin todo
    BY <1>1 DEF Staging, Active, Inv, Ranged, q
  <2>2. ASSUME NEW p \in Active
        PROVE  /\ p \in todo' => Len(slot'[p].spec) <= slot'[p].pos
               /\ Len(slot'[p].spec) > 1 => Len(slot'[p].committed) = Len(slot'[p].spec)
    <3>1. CASE p = q
      BY <1>1, <1>6, <2>1, <3>1
    <3>2. CASE p # q
      BY <1>1, <1>6, <2>1, <3>2 DEF TypeInv, Bounded
    <3> QED
      BY <3>1, <3>2
  <2> QED
    BY <1>1, <1>6, <2>1, <2>2 DEF Bounded
<1>8. TypeOK'
  BY <1>1, <1>2, <1>3, <1>4, <1>6 DEF TypeInv, TypeOK, Inv, Shape, Ranged, Active, Token, callers
<1> QED
  BY <1>2, <1>7, <1>8 DEF TypeInv

\* The ends of harvest keep the types.
LEMMA TypeHarvest == ASSUME ChoosesTokens, Inv, Inv', TypeInv, Harvest PROVE TypeInv'
<1>1. ASSUME NEW q \in Seqs, HarvestCancelled(q) PROVE TypeInv'
  <2>1. /\ q \in Active /\ Finish(q, "cancel") /\ pc' = "harvest" /\ drafting' \in BOOLEAN
        /\ UNCHANGED <<batch, answer, cancelled, turn>> /\ todo' \subseteq todo
    BY <1>1 DEF HarvestCancelled, TypeInv, TypeOK, Inv, Ranged
  <2>2. pc' # "rewind" /\ pc' # "media" /\ ~Staging'
    BY <2>1 DEF Staging
  <2> QED
    BY <2>1, <2>2, TypeFinish
<1>2. ASSUME NEW q \in Seqs, HarvestVerify(q) PROVE TypeInv'
  BY <1>2, TypeVerify
<1>3. CASE Trim \/ Rollback
  BY <1>3, TypeRewind
<1>4. CASE RewindFail
  <2>1. /\ turn.seq \in Active /\ Finish(turn.seq, "error") /\ pc' = "harvest" /\ drafting' \in BOOLEAN
        /\ UNCHANGED <<batch, answer, cancelled, turn>> /\ todo' \subseteq todo
    BY <1>4 DEF RewindFail, Inv, Ranged
  <2>2. pc' # "rewind" /\ pc' # "media" /\ ~Staging'
    BY <2>1 DEF Staging
  <2> QED
    BY <2>1, <2>2, TypeFinish
<1>5. CASE JudgeEnd
  <2> DEFINE reason == IF turn.reason # "none" THEN turn.reason ELSE "context"
  <2>1. /\ turn.seq \in Active /\ Finish(turn.seq, reason) /\ pc' = "harvest" /\ drafting' \in BOOLEAN
        /\ UNCHANGED <<batch, answer, cancelled, turn>> /\ todo' \subseteq todo
    BY <1>5 DEF JudgeEnd, Inv, Ranged, TypeInv, TypeOK
  <2>2. reason \in {"stop", "length", "context", "cancel", "error"}
    BY DEF TypeInv, TypeOK
  <2> HIDE DEF reason
  <2>3. pc' # "rewind" /\ pc' # "media" /\ ~Staging'
    BY <2>1 DEF Staging
  <2> QED
    BY <2>1, <2>2, <2>3, TypeFinish
<1>6. CASE JudgeOn \/ HarvestEnd
  <2>1. /\ UNCHANGED <<slot, backend, answer, ended>> /\ todo' = todo
        /\ drafting' \in BOOLEAN /\ cancelled' \subseteq Requests /\ pc' # "rewind" /\ pc' # "media"
    BY <1>6 DEF JudgeOn, HarvestEnd, callers, TypeInv, TypeOK
  <2>2. turn' = turn \/ turn' = NoTurn
    BY <1>6 DEF JudgeOn, HarvestEnd
  <2>3. ~Staging'
    BY <1>6 DEF JudgeOn, HarvestEnd, Staging
  <2> QED
    BY <2>1, <2>2, <2>3, TypeQuiet
<1> QED
  BY <1>1, <1>2, <1>3, <1>4, <1>5, <1>6 DEF Harvest

\* and every step keeps them.
LEMMA TypeNext == ASSUME ChoosesTokens, MediaFits, Inv, Inv', TypeInv, [Next]_vars PROVE TypeInv'
<1>1. ASSUME UNCHANGED <<slot, backend, answer, ended, drafting>>, turn' = turn, cancelled' \subseteq Requests,
             \/ UNCHANGED <<pc, todo>>
             \/ Staging /\ pc' # "rewind" /\ pc' # "media"
             \/ Staging /\ pc' = pc
      PROVE  TypeInv'
  <2>1. drafting' \in BOOLEAN /\ (pc' = "rewind" => pc = "rewind") /\ (Staging' => Staging)
        /\ (pc' = "media" => pc = "media") /\ (Staging \/ todo' \subseteq todo)
    BY <1>1 DEF TypeInv, TypeOK, Staging
  <2> QED
    BY <1>1, <2>1, TypeQuiet
<1>2. cancelled \subseteq Requests
  BY DEF TypeInv, TypeOK
<1>3. CASE UNCHANGED vars
  BY <1>1, <1>2, <1>3 DEF vars, backend, callers
<1>4. CASE TickStart
  BY <1>4, TypeTickStart
<1>5. CASE ReadMedia
  <2>1. CASE MediaEnd
    BY <1>1, <1>2, <2>1 DEF MediaEnd, Staging, callers
  <2> QED
    BY <1>5, <2>1, TypeMedia DEF ReadMedia
<1>6. CASE Stage
  <2>1. ASSUME NEW q \in Seqs, SkipNext(q) PROVE TypeInv'
    BY <1>1, <1>2, <2>1 DEF SkipNext, Staging, callers
  <2>2. CASE Pass1End
    BY <1>1, <1>2, <2>2 DEF Pass1End, Staging, callers
  <2> QED
    BY <1>6, <2>1, <2>2, TypeStage DEF Stage
<1>7. CASE Prefill
  <2>1. CASE ShareEnd
    BY <1>1, <1>2, <2>1 DEF ShareEnd, Staging, callers
  <2>2. CASE Pass2End
    BY <1>1, <1>2, <2>2 DEF Pass2End, Staging, callers
  <2> QED
    BY <1>7, <2>1, <2>2, TypeShare, TypePrompt DEF Prefill
<1>8. CASE Decode
  BY <1>8, TypeDecode
<1>9. CASE Harvest
  BY <1>9, TypeHarvest
<1>10. CASE Terminated
  BY <1>1, <1>2, <1>10 DEF Terminated, vars, backend, callers
<1>11. ASSUME NEW r \in Requests, Cancel(r) PROVE TypeInv'
  BY <1>1, <1>2, <1>11 DEF Cancel
<1>12. ASSUME NEW r \in Requests, NEW q \in Seqs, Admit(r, q) PROVE TypeInv'
  BY <1>12, TypeAdmit
<1> QED
  BY <1>3, <1>4, <1>5, <1>6, <1>7, <1>8, <1>9, <1>10, <1>11, <1>12 DEF Next, Tick

\* tick and harvest (engine.go): whatever the drafter proposes and the backend
\* refuses, every token, position and cell of the engine stays in its range, no
\* batch is longer than its capacity, and no sequence holds a cell past its context.
THEOREM Types ==
  ASSUME ChoosesTokens, MediaFits
  PROVE  Spec => []TypeOK
<1>1. Init => Inv /\ TypeInv
  BY InvInit, TypeInit
<1>2. Inv /\ TypeInv /\ [Next]_vars => Inv' /\ TypeInv'
  BY InvNext, TypeNext
<1>3. TypeInv => TypeOK
  BY DEF TypeInv
<1> QED
  BY <1>1, <1>2, <1>3, PTL DEF Spec

---------------------------------------------------------------------------
(* What a cache, a slot and a batch say of the text of a request.            *)

Told(q) == History(slot[q].req)
Line(q) == Told(q) \o slot[q].draft

\* The cache of a sequence holds the first m tokens of its text.
Has(q, m) ==
  /\ m \in 0 .. Len(Told(q))
  /\ cells[q] = Held(Told(q), m)
  /\ cache = "rewind" => state[q] = SubSeq(Told(q), 1, m)

\* A prompt is still to read from pos on; a stream goes on with its last token
\* once pos and what is to replay are behind it.
Waiting(q) ==
  LET s == slot[q]
      p == Prompt[s.req] IN
  /\ s.replay = <<>> /\ answer[s.req] = <<>>
  /\ s.pos < Len(p) /\ s.pending = SubSeq(p, s.pos + 1, Len(p))
Going(q) ==
  LET s == slot[q]
      h == Told(q) IN
  /\ answer[s.req] # <<>> /\ s.next = Last(h)
  /\ s.pos + Len(s.replay) = Len(h) - 1
  /\ s.replay = SubSeq(h, s.pos + 1, Len(h) - 1)
  /\ cache = "trim" => s.replay = <<>>

\* What verify is to read: the position of the last token, and those of the draft.
Ready(q) ==
  LET s == slot[q]
      h == Told(q) IN
  /\ s.primed /\ s.replay = <<>>
  /\ s.pos = Len(h) + Len(s.draft)
  /\ Len(s.spec) = Len(s.draft) + 1
  /\ \A i \in DOMAIN s.spec : s.spec[i] = Len(h) - 2 + i
  /\ s.draft # <<>> => /\ s.committed = <<Last(h)>> \o s.draft
                       /\ s.replayFrom = Len(h) - 1
                       /\ answer[s.req] # <<>>

\* Between ticks.
Idle(q) ==
  /\ ~slot[q].primed => Waiting(q)
  /\ slot[q].primed /\ Has(q, slot[q].pos) => Going(q)
  /\ \E m \in 0 .. Len(Told(q)) : Has(q, m)

\* While a tick stages.  A cache may end elsewhere than the batch begins: then
\* the backend refuses the batch.
Untouched(q) ==
  \/ pc = "media" \/ (pc = "pass1" /\ q \in todo)
  \/ ~slot[q].primed /\ (pc \in {"pass1", "share"} \/ (pc = "pass2" /\ q \in todo))
Aimed(q) ==
  LET s == slot[q]
      h == Told(q) IN
  /\ batch[q] = SubSeq(Line(q), First(q) + 1, s.pos)
  /\ s.hasLogits => Ready(q)
  /\ s.primed /\ ~s.hasLogits => Going(q)
  /\ s.draft # <<>> /\ cache = "rewind" => snapshot[q] = state[q]
  /\ s.draft # <<>> \/ (cache = "trim" /\ answer[s.req] # <<>>) => First(q) = Len(h) - 1
  /\ pc \in {"pass1", "share"} /\ s.hasLogits => answer[s.req] # <<>>
Staged(q) ==
  LET s == slot[q] IN
  /\ ~s.primed => Waiting(q) /\ ~s.hasLogits
  /\ IF s.hasLogits THEN batch[q] # <<>> ELSE s.draft = <<>>
  /\ Untouched(q) => batch[q] = <<>>
  /\ \E m \in 0 .. Len(Told(q)) : Has(q, m)
  /\ Has(q, First(q)) => Aimed(q)

\* Once the batch is decoded, and before harvest reaches the sequence.
Read(q) ==
  LET s == slot[q]
      h == Told(q) IN
  /\ Ready(q)
  /\ cells[q] = Held(Line(q), Len(Line(q)))
  /\ cache = "rewind" => state[q] = Line(q)
  /\ cache = "rewind" /\ s.draft # <<>> => snapshot[q] = SubSeq(h, 1, Len(h) - 1)

\* What verify did not keep is still cached.
Undo(q) ==
  LET s == slot[q]
      h == Told(q) IN
  /\ s.primed /\ answer[s.req] # <<>> /\ s.next = Last(h) /\ s.pos = Len(h) - 1 /\ s.replay = <<>>
  /\ cache = "trim" => CellsBefore(cells[q], s.pos) = Held(h, s.pos)
  /\ cache = "rewind" =>
       /\ s.replayFrom \in 1 .. s.pos
       /\ s.replayFrom + turn.kept = s.pos
       /\ CellsBefore(cells[q], s.replayFrom) = Held(h, s.replayFrom)
       /\ snapshot[q] = SubSeq(h, 1, s.replayFrom)
       /\ SubSeq(s.committed, 1, turn.kept) = SubSeq(h, s.replayFrom + 1, s.pos)
Judged(q) ==
  /\ turn.reason = "stop" => Target(Told(q)) = EOS
  /\ turn.reason # "stop" /\ pc = "rewind" => Undo(q)
  /\ turn.reason # "stop" /\ pc = "judge" => slot[q].primed /\ Has(q, slot[q].pos) /\ Going(q)

Queued(q) == pc \in {"harvest", "rewind", "judge"} /\ q \in todo
Turned(q) == pc \in {"rewind", "judge"} /\ turn.seq = q
Resting(q) == ~Staging /\ ~Queued(q) /\ ~Turned(q)

Right(q) ==
  /\ q \notin Active => /\ cells[q] = {} /\ state[q] = <<>> /\ snapshot[q] = <<>>
                        /\ Staging => batch[q] = <<>>
  /\ q \in Active => /\ ended[slot[q].req] = "none"
                     /\ Staging => Staged(q)
                     /\ Queued(q) => Read(q)
                     /\ Turned(q) => Judged(q)
                     /\ Resting(q) => Idle(q)

\* No decode runs out of cells: none of the backend's making, no media, and room
\* for every prompt, answer and draft.
Sure ==
  /\ "nokv" \notin Faults /\ Media = {}
  /\ \A r \in Requests : MaxTokens[r] > 0 /\ Len(Prompt[r]) + MaxTokens[r] + MaxDraft <= NCtxSeq

\* Then a cache never ends elsewhere than its slot says.
Exact(q) ==
  q \in Active =>
    /\ Staging => Has(q, First(q)) /\ Len(slot[q].draft) <= MaxDraft
    /\ Resting(q) => Has(q, slot[q].pos)
    /\ ~(Turned(q) /\ turn.reason # "none") =>
         Len(answer[slot[q].req]) < MaxTokens[slot[q].req]

Good(q) == Right(q) /\ (Sure => Exact(q))

\* Only a cache that can be cut is shared.
SharesTrimmed == pc = "share" /\ cache # "trim" => todo = {}

CacheInv ==
  /\ \A q \in Seqs : Good(q)
  /\ SharesTrimmed
  /\ Sure => pc # "dead"
  /\ Transparent

---------------------------------------------------------------------------
(* Texts.                                                                    *)

\* A step of length none reads nothing.
LEMMA NoneOf ==
  ASSUME NEW S, NEW t \in Seq(S), NEW m \in 0 .. Len(t)
  PROVE  SubSeq(t, m + 1, m) = <<>> /\ SubSeq(t, 1, Len(t)) = t
<1>1. SubSeq(t, m + 1, m) = <<>>
  OBVIOUS
<1>2. SubSeq(t, 1, Len(t)) = t
  BY SubSeqFull
<1> QED
  BY <1>1, <1>2

\* A piece of a text.
LEMMA PieceIs ==
  ASSUME NEW S, NEW t \in Seq(S), NEW m \in 0 .. Len(t), NEW n \in m .. Len(t)
  PROVE  /\ SubSeq(t, m + 1, n) \in Seq(S) /\ Len(SubSeq(t, m + 1, n)) = n - m
         /\ \A i \in 1 .. n - m : SubSeq(t, m + 1, n)[i] = t[m + i]
<1>1. /\ Len(SubSeq(t, m + 1, n)) = n - m
      /\ \A i \in 1 .. n - m : SubSeq(t, m + 1, n)[i] = t[m + i]
  OBVIOUS
<1>2. SubSeq(t, m + 1, n) \in Seq(S)
  BY SubSeqProperties
<1> QED
  BY <1>1, <1>2

\* The last token of a text and a draft behind it, as they are staged.
LEMMA LastAndDraft ==
  ASSUME NEW S, NEW h \in Seq(S), h # <<>>, NEW d \in Seq(S)
  PROVE  <<Last(h)>> \o d = SubSeq(h \o d, Len(h), Len(h) + Len(d))
<1> DEFINE u == <<Last(h)>> \o d
           v == SubSeq(h \o d, Len(h), Len(h) + Len(d))
<1>1. Last(h) = h[Len(h)] /\ Len(h) \in Nat /\ Len(h) >= 1 /\ h[Len(h)] \in S
  BY DEF Last
<1>2. h \o d \in Seq(S) /\ Len(h \o d) = Len(h) + Len(d)
  OBVIOUS
<1>3. u \in Seq(S) /\ Len(u) = 1 + Len(d)
  BY <1>1
<1>4. v \in Seq(S) /\ Len(v) = 1 + Len(d)
  BY <1>1, <1>2
<1>5. ASSUME NEW i \in 1 .. Len(d) + 1 PROVE u[i] = v[i]
  <2>1. v[i] = (h \o d)[Len(h) + i - 1]
    BY <1>1, <1>2
  <2>2. CASE i = 1
    BY <1>1, <2>1, <2>2
  <2>3. CASE i # 1
    BY <1>1, <2>1, <2>3
  <2> QED
    BY <2>2, <2>3
<1> HIDE DEF u, v
<1>6. u = v
  BY <1>3, <1>4, <1>5, SeqEqual
<1> QED
  BY <1>6 DEF u, v

\* A replay and the last token behind it, as they are staged.
LEMMA ReplayAndLast ==
  ASSUME NEW S, NEW h \in Seq(S), h # <<>>, NEW m \in 0 .. Len(h) - 1
  PROVE  Append(SubSeq(h, m + 1, Len(h) - 1), Last(h)) = SubSeq(h, m + 1, Len(h))
<1> DEFINE u == Append(SubSeq(h, m + 1, Len(h) - 1), Last(h))
           v == SubSeq(h, m + 1, Len(h))
           w == SubSeq(h, m + 1, Len(h) - 1)
<1>1. Last(h) = h[Len(h)] /\ Len(h) \in Nat /\ Len(h) >= 1 /\ h[Len(h)] \in S
  BY DEF Last
<1>2. w \in Seq(S) /\ Len(w) = Len(h) - 1 - m /\ \A i \in 1 .. Len(h) - 1 - m : w[i] = h[m + i]
  BY <1>1
<1>3. v \in Seq(S) /\ Len(v) = Len(h) - m /\ \A i \in 1 .. Len(h) - m : v[i] = h[m + i]
  BY <1>1
<1>4. u = Append(w, Last(h))
  OBVIOUS
<1> HIDE DEF u, v, w
<1>5. u \in Seq(S) /\ Len(u) = Len(h) - m
  BY <1>1, <1>2, <1>4
<1>6. \A i \in 1 .. Len(h) - m : u[i] = h[m + i]
  <2>0. u = Append(w, h[Len(h)]) /\ w \in Seq(S) /\ h[Len(h)] \in S
    BY <1>1, <1>2, <1>4
  <2>1. /\ \A i \in 1 .. Len(w) : u[i] = w[i]
        /\ u[Len(w) + 1] = h[Len(h)]
    BY <2>0, AppendProperties
  <2>2. ASSUME NEW i \in 1 .. Len(h) - m PROVE u[i] = h[m + i]
    <3>1. CASE i = Len(h) - m
      <4>1. i = Len(w) + 1 /\ m + i = Len(h)
        BY <1>1, <1>2, <3>1
      <4> QED
        BY <2>1, <4>1
    <3>2. CASE i # Len(h) - m
      <4>1. i \in 1 .. Len(h) - 1 - m /\ i \in 1 .. Len(w)
        BY <1>1, <1>2, <3>2
      <4> QED
        BY <1>2, <2>1, <4>1
    <3> QED
      BY <3>1, <3>2
  <2> QED
    BY <2>2
<1>7. u = v
  BY <1>3, <1>5, <1>6, SeqEqual
<1> QED
  BY <1>7 DEF u, v

\* A part of what is pending.
LEMMA PartOf ==
  ASSUME NEW S, NEW p \in Seq(S), NEW i \in 0 .. Len(p), NEW n \in 0 .. Len(p) - i
  PROVE  LET rest == SubSeq(p, i + 1, Len(p)) IN
         /\ rest \in Seq(S) /\ Len(rest) = Len(p) - i
         /\ SubSeq(rest, 1, n) = SubSeq(p, i + 1, i + n)
         /\ SubSeq(rest, n + 1, Len(rest)) = SubSeq(p, i + n + 1, Len(p))
<1> DEFINE rest == SubSeq(p, i + 1, Len(p))
           a == SubSeq(rest, 1, n)
           b == SubSeq(p, i + 1, i + n)
           c == SubSeq(rest, n + 1, Len(rest))
           d == SubSeq(p, i + n + 1, Len(p))
<1>1. rest \in Seq(S) /\ Len(rest) = Len(p) - i /\ \A j \in 1 .. Len(p) - i : rest[j] = p[i + j]
  OBVIOUS
<1>2. b \in Seq(S) /\ Len(b) = n /\ \A j \in 1 .. n : b[j] = p[i + j]
  OBVIOUS
<1>3. d \in Seq(S) /\ Len(d) = Len(p) - i - n /\ \A j \in 1 .. Len(p) - i - n : d[j] = p[i + n + j]
  OBVIOUS
<1> HIDE DEF rest
<1>4. a \in Seq(S) /\ Len(a) = n /\ \A j \in 1 .. n : a[j] = p[i + j]
  <2>1. 0 \in 0 .. Len(rest) /\ n \in 0 .. Len(rest) /\ a = SubSeq(rest, 0 + 1, n)
    BY <1>1
  <2>2. a \in Seq(S) /\ Len(a) = n /\ \A j \in 1 .. n : a[j] = rest[j]
    BY <1>1, <2>1, PieceIs
  <2> QED
    BY <1>1, <2>2
<1>5. c \in Seq(S) /\ Len(c) = Len(p) - i - n /\ \A j \in 1 .. Len(p) - i - n : c[j] = p[i + n + j]
  <2>1. n \in 0 .. Len(rest) /\ Len(rest) \in n .. Len(rest)
    BY <1>1
  <2>2. /\ c \in Seq(S) /\ Len(c) = Len(rest) - n
        /\ \A j \in 1 .. Len(rest) - n : c[j] = rest[n + j]
    BY <1>1, <2>1, PieceIs
  <2> QED
    BY <1>1, <2>2
<1> HIDE DEF a, b, c, d
<1>6. a = b
  BY <1>2, <1>4, SeqEqual
<1>7. c = d
  BY <1>3, <1>5, SeqEqual
<1> QED
  BY <1>1, <1>6, <1>7 DEF rest, a, b, c, d

---------------------------------------------------------------------------
(* What a step leaves alone.                                                 *)

\* The fields of an active slot.
LEMMA Facts ==
  ASSUME TypeInv, NEW q \in Active
  PROVE  /\ q \in Seqs /\ slot[q] \in Slots /\ slot[q] # NoSlot /\ slot[q].req \in Requests
         /\ slot[q].pos \in Nat /\ slot[q].draft \in Seq(Token) /\ slot[q].replay \in Seq(Token)
         /\ slot[q].pending \in Seq(Token) /\ slot[q].spec \in Seq(Nat) /\ slot[q].next \in Token
         /\ slot[q].committed \in Seq(Token) /\ slot[q].replayFrom \in Nat
         /\ Prompt[slot[q].req] \in Seq(Token) /\ Len(Prompt[slot[q].req]) >= 1
         /\ answer[slot[q].req] \in Seq(Token)
         /\ Told(q) = Prompt[slot[q].req] \o answer[slot[q].req]
         /\ Told(q) \in Seq(Token) /\ Told(q) # <<>> /\ Len(Told(q)) >= 1
         /\ Len(Told(q)) = Len(Prompt[slot[q].req]) + Len(answer[slot[q].req])
         /\ Line(q) \in Seq(Token) /\ Len(Line(q)) = Len(Told(q)) + Len(slot[q].draft)
         /\ batch[q] \in Seq(Token) /\ state[q] \in Seq(Token) /\ snapshot[q] \in Seq(Token)
         /\ First(q) \in Int /\ First(q) = slot[q].pos - Len(batch[q])
         /\ Len(batch[q]) \in Nat /\ Len(Told(q)) \in Nat /\ Len(slot[q].draft) \in Nat
         /\ Len(slot[q].replay) \in Nat /\ Len(slot[q].pending) \in Nat
<1> DEFINE r == slot[q].req
<1>1. q \in Seqs /\ slot[q] \in Slots /\ slot[q] # NoSlot /\ slot[q].req \in Requests
  BY ActiveSlot
<1>2. /\ slot[q].pos \in Nat /\ slot[q].draft \in Seq(Vocabulary) /\ slot[q].replay \in Seq(Token)
      /\ slot[q].pending \in Seq(Vocabulary) /\ slot[q].spec \in Seq(Nat) /\ slot[q].next \in Token
      /\ slot[q].committed \in Seq(Token) /\ slot[q].replayFrom \in Nat
  BY <1>1 DEF Slots, Token
<1>3. slot[q].draft \in Seq(Token) /\ slot[q].pending \in Seq(Token)
  <2>1. \A u \in Seq(Vocabulary) : u \in Seq(Token)
    BY SeqMonotonic DEF Token
  <2> QED
    BY <1>2, <2>1
<1>4. Prompt[r] \in Seq(Token) /\ Prompt[r] # <<>> /\ Len(Prompt[r]) >= 1
  <2>1. Prompt[r] \in Seq(Token) /\ Prompt[r] # <<>>
    BY <1>1, PromptIs
  <2> QED
    BY <2>1, EmptySeq, LenProperties
<1>5. answer[r] \in Seq(Token) /\ batch[q] \in Seq(Token) /\ state[q] \in Seq(Token) /\ snapshot[q] \in Seq(Token)
  BY <1>1 DEF TypeInv, TypeOK, Token
<1>6. Told(q) = Prompt[r] \o answer[r]
  BY DEF Told, History
<1> HIDE DEF r
<1>7. /\ Told(q) \in Seq(Token) /\ Len(Told(q)) = Len(Prompt[r]) + Len(answer[r])
      /\ Len(Told(q)) >= 1 /\ Told(q) # <<>>
  <2>1. Told(q) \in Seq(Token) /\ Len(Told(q)) = Len(Prompt[r]) + Len(answer[r])
    BY <1>4, <1>5, <1>6, ConcatProperties
  <2>2. Len(Prompt[r]) \in Nat /\ Len(answer[r]) \in Nat
    BY <1>4, <1>5, LenProperties
  <2> DEFINE a == Len(Prompt[r])
             b == Len(answer[r])
  <2>3. Len(Told(q)) >= 1
    <3>1. Len(Told(q)) = a + b /\ a \in Nat /\ b \in Nat /\ a >= 1
      BY <1>4, <2>1, <2>2
    <3> HIDE DEF a, b
    <3> QED
      BY <3>1
  <2>4. Told(q) # <<>>
    BY <2>3
  <2> QED
    BY <2>1, <2>3, <2>4
<1>8. Line(q) \in Seq(Token) /\ Len(Line(q)) = Len(Told(q)) + Len(slot[q].draft)
  BY <1>3, <1>7, ConcatProperties DEF Line
<1>9. First(q) \in Int /\ First(q) = slot[q].pos - Len(batch[q])
  BY <1>2, <1>5, LenProperties DEF First
<1>10. /\ Len(batch[q]) \in Nat /\ Len(Told(q)) \in Nat /\ Len(slot[q].draft) \in Nat
       /\ Len(slot[q].replay) \in Nat /\ Len(slot[q].pending) \in Nat
  BY <1>2, <1>3, <1>5, <1>7, LenProperties
<1> QED
  BY <1>1, <1>2, <1>3, <1>4, <1>5, <1>6, <1>7, <1>8, <1>9, <1>10 DEF r

\* A step that writes neither the slot nor the cache of a sequence.
Same(q) ==
  /\ UNCHANGED cache
  /\ slot'[q] = slot[q] /\ cells'[q] = cells[q] /\ state'[q] = state[q] /\ snapshot'[q] = snapshot[q]
  /\ slot[q] # NoSlot => /\ answer'[slot[q].req] = answer[slot[q].req]
                         /\ ended'[slot[q].req] = ended[slot[q].req]

\* What a step leaves alone of a sequence, its parts of the invariant are left alone, too.
LEMMA SameIs ==
  ASSUME NEW q \in Active, Same(q)
  PROVE  /\ Told(q)' = Told(q) /\ Line(q)' = Line(q)
         /\ \A m : Has(q, m)' <=> Has(q, m)
         /\ Waiting(q)' <=> Waiting(q)
         /\ Going(q)' <=> Going(q)
         /\ Ready(q)' <=> Ready(q)
         /\ Idle(q)' <=> Idle(q)
         /\ Read(q)' <=> Read(q)
<1>1. /\ slot'[q] = slot[q] /\ cells'[q] = cells[q] /\ state'[q] = state[q] /\ snapshot'[q] = snapshot[q]
      /\ cache' = cache
      /\ answer'[slot[q].req] = answer[slot[q].req]
  BY DEF Same, Active
<1>2. Told(q)' = Told(q)
  BY <1>1 DEF Told, History
<1>3. Line(q)' = Line(q)
  BY <1>1, <1>2 DEF Line
<1>4. ASSUME NEW m PROVE Has(q, m)' <=> Has(q, m)
  BY <1>1, <1>2 DEF Has
<1>5. Waiting(q)' <=> Waiting(q)
  BY <1>1 DEF Waiting
<1>6. Going(q)' <=> Going(q)
  BY <1>1, <1>2 DEF Going
<1>7. Ready(q)' <=> Ready(q)
  BY <1>1, <1>2 DEF Ready
<1>8. Idle(q)' <=> Idle(q)
  BY <1>1, <1>2, <1>4, <1>5, <1>6 DEF Idle
<1>9. Read(q)' <=> Read(q)
  BY <1>1, <1>2, <1>3, <1>7 DEF Read
<1> QED
  BY <1>2, <1>3, <1>4, <1>5, <1>6, <1>7, <1>8, <1>9

\* A sequence another one's staging leaves alone.
LEMMA StaysStaged ==
  ASSUME NEW q \in Seqs, Good(q), Same(q), batch'[q] = batch[q], Staging, Staging',
         Untouched(q)' => Untouched(q), pc' \in {"pass1", "share"} => pc \in {"pass1", "share"}
  PROVE  Good(q)'
<1>1. CASE q \notin Active
  BY <1>1 DEF Good, Right, Exact, Same, Active
<1>2. CASE q \in Active
  <2>1. /\ slot'[q] = slot[q] /\ slot[q] # NoSlot /\ snapshot'[q] = snapshot[q] /\ state'[q] = state[q]
        /\ cache' = cache
        /\ answer'[slot[q].req] = answer[slot[q].req] /\ ended'[slot[q].req] = ended[slot[q].req]
    BY <1>2 DEF Same, Active
  <2>2. /\ Told(q)' = Told(q) /\ Line(q)' = Line(q)
        /\ \A m : Has(q, m)' <=> Has(q, m)
        /\ Waiting(q)' <=> Waiting(q)
        /\ Going(q)' <=> Going(q)
        /\ Ready(q)' <=> Ready(q)
    BY <1>2, SameIs
  <2>3. /\ First(q)' = First(q)
        /\ Has(q, First(q))' <=> Has(q, First(q))
    <3>1. First(q)' = First(q)
      BY <2>1 DEF First
    <3>2. Has(q, First(q))' <=> Has(q, First(q))
      BY <2>1, <2>2, <3>1 DEF Has, Same
    <3> QED
      BY <3>1, <3>2
  <2>4. Aimed(q) => Aimed(q)'
    BY <2>1, <2>2, <2>3 DEF Aimed
  <2>5. Staged(q) => Staged(q)'
    BY <2>1, <2>2, <2>3, <2>4 DEF Staged
  <2>6. q \in Active' /\ ~Queued(q)' /\ ~Turned(q)' /\ ~Resting(q)' /\ ~Turned(q)
    BY <1>2, <2>1 DEF Active, Queued, Turned, Resting, Staging
  <2>7. Right(q)'
    BY <1>2, <2>1, <2>5, <2>6 DEF Good, Right
  <2>8. Sure => Exact(q)'
    BY <1>2, <2>1, <2>3, <2>6 DEF Good, Exact
  <2> QED
    BY <2>7, <2>8 DEF Good, Sure
<1> QED
  BY <1>1, <1>2

\* A sequence another one's verdict leaves alone.
LEMMA StaysPut ==
  ASSUME NEW q \in Seqs, Good(q), Same(q), ~Staging, ~Staging', Queued(q)' <=> Queued(q),
         ~Turned(q), ~Turned(q)'
  PROVE  Good(q)'
<1>1. CASE q \notin Active
  BY <1>1 DEF Good, Right, Exact, Same, Active
<1>2. CASE q \in Active
  <2>1. /\ slot'[q] = slot[q] /\ slot[q] # NoSlot /\ cache' = cache
        /\ answer'[slot[q].req] = answer[slot[q].req] /\ ended'[slot[q].req] = ended[slot[q].req]
    BY <1>2 DEF Same, Active
  <2>2. /\ \A m : Has(q, m)' <=> Has(q, m)
        /\ Idle(q)' <=> Idle(q)
        /\ Read(q)' <=> Read(q)
    BY <1>2, SameIs
  <2>3. /\ q \in Active'
        /\ Resting(q)' <=> Resting(q)
    BY <1>2, <2>1 DEF Active, Resting
  <2>4. Right(q)'
    BY <1>2, <2>1, <2>2, <2>3 DEF Good, Right
  <2>5. Has(q, slot[q].pos)' <=> Has(q, slot[q].pos)
    BY <2>1, <2>2 DEF Has, Same
  <2>6. Sure => Exact(q)'
    BY <1>2, <2>1, <2>3, <2>5 DEF Good, Exact
  <2> QED
    BY <2>4, <2>6 DEF Good, Sure
<1> QED
  BY <1>1, <1>2

---------------------------------------------------------------------------
(* Staging.                                                                  *)

\* A sequence that was staged is good where it was not staged before.
LEMMA GoodStaged ==
  ASSUME NEW q \in Active, q \in Active', Good(q), ~Turned(q), Staging', slot'[q].req = slot[q].req,
         UNCHANGED <<answer, ended>>, Staged(q)',
         Sure => Has(q, First(q))' /\ Len(slot'[q].draft) <= MaxDraft
  PROVE  Good(q)'
<1>1. ~Queued(q)' /\ ~Turned(q)' /\ ~Resting(q)'
  BY DEF Queued, Turned, Resting, Staging
<1>2. ended[slot[q].req] = "none" /\ (Sure => Len(answer[slot[q].req]) < MaxTokens[slot[q].req])
  BY DEF Good, Right, Exact
<1>3. ended'[slot'[q].req] = "none"
  BY <1>2
<1>4. Right(q)'
  BY <1>1, <1>3 DEF Right
<1>5. Sure => Exact(q)'
  BY <1>1, <1>2 DEF Exact
<1> QED
  BY <1>4, <1>5 DEF Good, Sure

\* tick begins: nothing is staged.
LEMMA GoodStart ==
  ASSUME TypeInv, TypeInv', NEW q \in Seqs, Good(q), UNCHANGED cache, TickStart
  PROVE  Good(q)'
<1>1. /\ pc = "top" /\ pc' = "media" /\ todo' = Active
      /\ batch'[q] = <<>>
      /\ q \in Active => slot'[q] = Cleared(slot[q]) /\ slot'[q] \in Slots
      /\ Active' = Active
      /\ cells' = cells /\ state' = state /\ snapshot' = snapshot /\ answer' = answer /\ ended' = ended
  BY TickStartDoes DEF callers
<1>2. Staging' /\ ~Turned(q) /\ ~Queued(q) /\ Resting(q)
  BY <1>1 DEF Staging, Turned, Queued, Resting
<1>3. CASE q \notin Active
  BY <1>1, <1>3 DEF Good, Right, Exact
<1>4. CASE q \in Active
  <2> DEFINE s == slot[q]
             new == slot'[q]
  <2>1. /\ new.req = s.req /\ new.pending = s.pending /\ new.pos = s.pos
        /\ new.next = s.next /\ (new.primed <=> s.primed) /\ new.replay = s.replay
        /\ new.draft = <<>> /\ new.spec = <<>> /\ ~new.hasLogits
    <3>1. new = Cleared(s) /\ s \in Slots
      BY <1>1, <1>4, Facts
    <3> HIDE DEF s, new
    <3>2. ~Cleared(s).hasLogits /\ (Cleared(s).primed <=> s.primed)
      BY <3>1, ClearedIs
    <3> QED
      BY <3>1, <3>2, ClearedIs
  <2>2. Idle(q)
    BY <1>2, <1>4 DEF Good, Right
  <2>3. Told(q)' = Told(q) /\ Told(q) \in Seq(Token) /\ Len(Told(q)) >= 1 /\ s.pos \in Nat
    BY <1>1, <1>4, <2>1, Facts DEF Told, History
  <2>4. Line(q)' = Told(q)
    <3>1. Line(q)' = Told(q) \o <<>>
      BY <2>1, <2>3 DEF Line
    <3> QED
      BY <2>3, <3>1, ConcatEmptySeq
  <2>5. First(q)' = s.pos
    BY <1>1, <2>1, <2>3, EmptySeq DEF First
  <2>6. \A m : Has(q, m)' <=> Has(q, m)
    BY <1>1, <2>3 DEF Has
  <2>7. Has(q, First(q))' <=> Has(q, s.pos)
    BY <1>1, <2>3, <2>5 DEF Has
  <2>8. Waiting(q)' <=> Waiting(q)
    BY <1>1, <2>1 DEF Waiting
  <2>9. Going(q)' <=> Going(q)
    BY <1>1, <2>1, <2>3 DEF Going
  <2>10. ASSUME Has(q, s.pos) PROVE Aimed(q)'
    <3>1. s.pos \in 0 .. Len(Told(q))
      BY <2>10 DEF Has
    <3>2. batch'[q] = SubSeq(Line(q)', First(q)' + 1, new.pos)
      BY <1>1, <2>1, <2>3, <2>4, <2>5, <3>1, NoneOf
    <3>3. s.primed => Going(q)
      BY <2>2, <2>10 DEF Idle
    <3>4. cache = "trim" /\ answer[s.req] # <<>> => s.pos = Len(Told(q)) - 1
      <4>1. HAVE cache = "trim" /\ answer[s.req] # <<>>
      <4>2. s.primed
        BY <2>2, <4>1 DEF Idle, Waiting
      <4>3. s.pos + Len(s.replay) = Len(Told(q)) - 1 /\ s.replay = <<>>
        BY <3>3, <4>1, <4>2 DEF Going
      <4> QED
        BY <2>3, <4>3, EmptySeq
    <3> QED
      BY <1>1, <2>1, <2>3, <2>5, <2>9, <3>2, <3>3, <3>4 DEF Aimed
  <2>11. Staged(q)'
    BY <1>1, <2>1, <2>2, <2>3, <2>6, <2>7, <2>8, <2>10 DEF Staged, Idle
  <2>12. Sure => Has(q, First(q))' /\ Len(new.draft) <= MaxDraft
    <3>1. Sure => Has(q, s.pos)
      BY <1>2, <1>4 DEF Good, Exact
    <3>2. Len(new.draft) = 0 /\ MaxDraft \in Nat
      BY <2>1, EmptySeq, DecodeAssumption
    <3> QED
      BY <2>7, <3>1, <3>2
  <2> QED
    BY <1>1, <1>2, <1>4, <2>1, <2>11, <2>12, GoodStaged
<1> QED
  BY <1>3, <1>4

\* Of a sequence this tick has not staged, nothing is.
LEMMA UntouchedIs ==
  ASSUME TypeInv, NEW q \in Active, Good(q), Staging, Untouched(q)
  PROVE  /\ Staged(q) /\ batch[q] = <<>> /\ ~slot[q].hasLogits /\ slot[q].draft = <<>>
         /\ First(q) = slot[q].pos /\ Line(q) = Told(q) /\ ~Turned(q)
         /\ slot[q].pos \in Nat /\ (Has(q, slot[q].pos) => slot[q].pos \in 0 .. Len(Told(q)))
         /\ Has(q, slot[q].pos) /\ slot[q].primed => Going(q)
         /\ ~slot[q].primed => Waiting(q)
         /\ \E m \in 0 .. Len(Told(q)) : Has(q, m)
<1>1. Staged(q)
  BY DEF Good, Right
<1>2. batch[q] = <<>> /\ ~slot[q].hasLogits /\ slot[q].draft = <<>> /\ (~slot[q].primed => Waiting(q))
      /\ \E m \in 0 .. Len(Told(q)) : Has(q, m)
  BY <1>1 DEF Staged
<1>3. First(q) = slot[q].pos /\ slot[q].pos \in Nat
  <2>1. First(q) = slot[q].pos - Len(batch[q]) /\ slot[q].pos \in Nat
    BY Facts
  <2>2. Len(batch[q]) = 0
    BY <1>2
  <2> QED
    BY <2>1, <2>2
<1>4. Line(q) = Told(q)
  BY <1>2, Facts, ConcatEmptySeq DEF Line
<1>5. Has(q, slot[q].pos) /\ slot[q].primed => Going(q)
  BY <1>1, <1>2, <1>3 DEF Staged, Aimed
<1>6. ~Turned(q)
  BY DEF Staging, Turned
<1> QED
  BY <1>1, <1>2, <1>3, <1>4, <1>5, <1>6 DEF Has

\* The sampled token and its drafts are staged.
LEMMA GoodNext ==
  ASSUME Inv, TypeInv, TypeInv', NEW q \in Seqs, Good(q), UNCHANGED cache, StageNext(q)
  PROVE  Good(q)'
<1> DEFINE s == slot[q]
           new == slot'[q]
           h == Told(q)
<1>1. /\ q \in Active /\ Running(q) /\ pc' = pc /\ todo' = todo \ {q} /\ s.replay = <<>>
      /\ UNCHANGED <<drafting, turn, cells, state, window, callers>>
  BY StageNextDoes
<1>2. PICK draft \in Seq(Vocabulary) :
        /\ Len(draft) <= MaxDraft
        /\ batch' = [batch EXCEPT ![q] = <<s.next>> \o draft]
        /\ slot' = [slot EXCEPT ![q] = NextSlot(s, draft)]
        /\ cache = "rewind" /\ draft # <<>> => snapshot'[q] = state[q]
  BY StageNextDoes
<1> DEFINE toks == <<s.next>> \o draft
<1>3. pc = "pass1" /\ q \in todo /\ s.primed /\ Staging /\ Untouched(q) /\ q \notin todo' /\ pc' = "pass1"
  BY <1>1 DEF Running, Staging, Untouched
<1>4. /\ Staged(q) /\ batch[q] = <<>> /\ s.draft = <<>> /\ First(q) = s.pos /\ ~Turned(q)
      /\ s.pos \in Nat /\ (Has(q, s.pos) => s.pos \in 0 .. Len(h))
      /\ Has(q, s.pos) => Going(q)
      /\ \E m \in 0 .. Len(h) : Has(q, m)
  BY <1>1, <1>3, UntouchedIs
<1>5. /\ q \in Seqs /\ s \in Slots /\ s # NoSlot /\ h \in Seq(Token) /\ h # <<>> /\ Len(h) >= 1
      /\ s.next \in Token /\ draft \in Seq(Token) /\ Len(draft) \in Nat /\ Len(h) \in Nat
  <2>1. draft \in Seq(Token)
    BY <1>2, SeqMonotonic DEF Token
  <2>2. /\ q \in Seqs /\ s \in Slots /\ s # NoSlot /\ h \in Seq(Token) /\ h # <<>> /\ Len(h) >= 1
        /\ s.next \in Token /\ Len(h) \in Nat
    BY <1>1, Facts
  <2> QED
    BY <2>1, <2>2, LenProperties
<1>6. /\ new = NextSlot(s, draft) /\ new \in Slots /\ Active' = Active
  <2>1. NextSlot(s, draft) \in Slots
    BY <1>5, NextSlotIs
  <2> QED
    BY <1>1, <1>2, <2>1, SlotWritten
<1>7. /\ new.req = s.req /\ new.pos = s.pos + Len(draft) + 1
      /\ new.draft = draft /\ new.replay = <<>> /\ new.replayFrom = s.pos /\ new.committed = toks
      /\ new.spec = [i \in 1 .. Len(draft) + 1 |-> s.pos + i - 1]
      /\ new.primed /\ new.hasLogits
  <2>1. NextSlot(s, draft).primed /\ NextSlot(s, draft).hasLogits
    BY <1>3, <1>5, NextSlotIs
  <2>2. s.replay = <<>> /\ new = NextSlot(s, draft) /\ s \in Slots
    BY <1>1, <1>5, <1>6
  <2> HIDE DEF s, new, h
  <2> QED
    BY <2>1, <2>2, NextSlotIs
<1>8. batch'[q] = toks /\ toks # <<>> /\ Len(toks) = Len(draft) + 1
  <2>1. batch \in [Seqs -> Seq(Token)]
    BY DEF TypeInv, TypeOK, Token
  <2>2. Len(toks) = 1 + Len(draft)
    BY <1>5
  <2>3. toks # <<>>
    BY <1>5, <2>2
  <2> HIDE DEF toks
  <2> QED
    BY <1>2, <1>5, <2>1, <2>2, <2>3 DEF toks
<1> HIDE DEF toks
<1>9. Told(q)' = h /\ First(q)' = s.pos /\ Line(q)' = h \o draft
  <2>1. Told(q)' = h
    BY <1>1, <1>7 DEF Told, History, callers
  <2>2. First(q)' = s.pos
    <3>1. First(q)' = new.pos - Len(batch'[q])
      BY DEF First
    <3> HIDE DEF s, new, h
    <3>2. s.pos \in Nat /\ Len(draft) \in Nat
      BY <1>4, <1>5
    <3>3. (s.pos + Len(draft) + 1) - (Len(draft) + 1) = s.pos
      BY <3>2
    <3>4. new.pos = s.pos + Len(draft) + 1 /\ Len(batch'[q]) = Len(draft) + 1
      BY <1>7, <1>8
    <3> QED
      BY <3>1, <3>3, <3>4
  <2> QED
    BY <1>7, <2>1, <2>2 DEF Line
<1>10. /\ \A m : Has(q, m)' <=> Has(q, m)
       /\ Has(q, First(q))' <=> Has(q, s.pos)
  BY <1>1, <1>9 DEF Has
<1> HIDE DEF h, s, new
<1>11. ASSUME Has(q, s.pos) PROVE Aimed(q)'
  <2>1. answer[s.req] # <<>> /\ s.next = Last(h) /\ s.pos = Len(h) - 1
    <3>1. answer[s.req] # <<>> /\ s.next = Last(h) /\ s.pos + Len(s.replay) = Len(h) - 1
      BY <1>4, <1>11 DEF Going, s, h
    <3> QED
      BY <1>1, <1>4, <3>1, EmptySeq
  <2>2. batch'[q] = SubSeq(Line(q)', First(q)' + 1, new.pos)
    <3>1. toks = SubSeq(h \o draft, Len(h), Len(h) + Len(draft))
      BY <1>5, <2>1, LastAndDraft DEF toks
    <3>2. s.pos + 1 = Len(h) /\ new.pos = Len(h) + Len(draft)
      BY <1>5, <1>7, <2>1
    <3> QED
      BY <1>8, <1>9, <3>1, <3>2
  <2>3. Ready(q)'
    <3>1. new.pos = Len(h) + Len(draft) /\ Len(new.spec) = Len(draft) + 1
      BY <1>5, <1>7, <2>1
    <3>2. \A i \in DOMAIN new.spec : new.spec[i] = Len(h) - 2 + i
      BY <1>5, <1>7, <2>1
    <3>3. new.committed = <<Last(h)>> \o draft
      BY <1>7, <2>1 DEF toks
    <3> QED
      BY <1>1, <1>7, <1>9, <2>1, <3>1, <3>2, <3>3 DEF Ready, callers, new
  <2>4. answer'[new.req] # <<>>
    BY <1>1, <1>7, <2>1 DEF callers
  <2> QED
    BY <1>1, <1>2, <1>7, <1>9, <2>1, <2>2, <2>3, <2>4 DEF Aimed, new
<1>12. Staged(q)'
  <2>1. ~Untouched(q)'
    BY <1>3, <1>7 DEF Untouched, new
  <2> QED
    BY <1>4, <1>7, <1>8, <1>9, <1>10, <1>11, <2>1 DEF Staged, new
<1>13. Sure => Has(q, First(q))' /\ Len(new.draft) <= MaxDraft
  <2>1. Sure => Has(q, s.pos)
    BY <1>1, <1>3, <1>4 DEF Good, Exact
  <2> QED
    BY <1>2, <1>7, <1>10, <2>1
<1>14. q \in Active' /\ Staging' /\ UNCHANGED <<answer, ended>>
  BY <1>1, <1>3, <1>6 DEF Staging, callers
<1> QED
  BY <1>1, <1>4, <1>7, <1>12, <1>13, <1>14, GoodStaged DEF s, new

\* What a rollback left to replay is staged, and the sampled token if it fits.
LEMMA GoodReplay ==
  ASSUME Inv, TypeInv, TypeInv', NEW q \in Seqs, Good(q), UNCHANGED cache, StageReplay(q)
  PROVE  Good(q)'
<1> DEFINE s == slot[q]
           new == slot'[q]
           h == Told(q)
           k == Len(s.replay)
<1>1. /\ q \in Active /\ Running(q) /\ pc' = pc /\ todo' = todo \ {q} /\ s.replay # <<>>
      /\ UNCHANGED <<drafting, turn, cells, state, snapshot, window, callers>>
  BY StageReplayDoes
<1>2. PICK fits \in BOOLEAN :
        /\ slot' = [slot EXCEPT ![q] = ReplaySlot(s, fits)]
        /\ batch' = [batch EXCEPT ![q] = IF fits THEN Append(s.replay, s.next) ELSE s.replay]
  BY StageReplayDoes
<1> DEFINE toks == IF fits THEN Append(s.replay, s.next) ELSE s.replay
<1>3. pc = "pass1" /\ q \in todo /\ s.primed /\ Staging /\ Untouched(q) /\ q \notin todo' /\ pc' = "pass1"
  BY <1>1 DEF Running, Staging, Untouched
<1>4. /\ Staged(q) /\ batch[q] = <<>> /\ s.draft = <<>> /\ First(q) = s.pos /\ ~Turned(q)
      /\ s.pos \in Nat /\ (Has(q, s.pos) => s.pos \in 0 .. Len(h))
      /\ Has(q, s.pos) => Going(q)
      /\ \E m \in 0 .. Len(h) : Has(q, m)
      /\ Line(q) = h
  BY <1>1, <1>3, UntouchedIs
<1>5. /\ q \in Seqs /\ s \in Slots /\ s # NoSlot /\ h \in Seq(Token) /\ h # <<>> /\ Len(h) >= 1
      /\ s.next \in Token /\ s.replay \in Seq(Token) /\ k \in Nat /\ Len(h) \in Nat
  BY <1>1, Facts
<1>6. /\ new = ReplaySlot(s, fits) /\ new \in Slots /\ Active' = Active
  <2>1. ReplaySlot(s, fits) \in Slots
    BY <1>5, ReplaySlotIs
  <2> QED
    BY <1>1, <1>2, <2>1, SlotWritten
<1>7. /\ new.req = s.req /\ new.pos = s.pos + k + (IF fits THEN 1 ELSE 0) /\ new.next = s.next
      /\ new.draft = <<>> /\ new.replay = <<>>
      /\ new.spec = IF fits THEN <<s.pos + k>> ELSE <<>>
      /\ new.primed
      /\ new.hasLogits <=> fits
  <2>1. ReplaySlot(s, fits).primed /\ (ReplaySlot(s, fits).hasLogits <=> fits)
    BY <1>3, <1>5, ReplaySlotIs
  <2>2. new = ReplaySlot(s, fits) /\ s \in Slots /\ s.draft = <<>>
    BY <1>4, <1>5, <1>6
  <2> HIDE DEF s, new, h
  <2> QED
    BY <2>1, <2>2, ReplaySlotIs
<1>8. batch'[q] = toks /\ (fits => toks # <<>>) /\ Len(toks) = k + (IF fits THEN 1 ELSE 0)
  <2>1. batch \in [Seqs -> Seq(Token)]
    BY DEF TypeInv, TypeOK, Token
  <2>2. CASE fits
    <3>1. Len(toks) = k + 1 /\ toks # <<>>
      BY <1>5, <2>2, AppendProperties
    <3> QED
      BY <1>2, <1>5, <2>1, <2>2, <3>1
  <2>3. CASE ~fits
    BY <1>2, <1>5, <2>1, <2>3
  <2> QED
    BY <2>2, <2>3
<1> HIDE DEF toks
<1>9. Told(q)' = h /\ First(q)' = s.pos /\ Line(q)' = h
  <2>1. Told(q)' = h
    BY <1>1, <1>7 DEF Told, History, callers
  <2>2. First(q)' = s.pos
    <3>1. First(q)' = new.pos - Len(batch'[q])
      BY DEF First
    <3>2. s.pos \in Nat /\ k \in Nat /\ new.pos = s.pos + k + (IF fits THEN 1 ELSE 0)
          /\ Len(batch'[q]) = k + (IF fits THEN 1 ELSE 0)
      BY <1>4, <1>5, <1>7, <1>8
    <3> HIDE DEF s, new, h, k
    <3>3. CASE fits
      BY <3>1, <3>2, <3>3
    <3>4. CASE ~fits
      BY <3>1, <3>2, <3>4
    <3> QED
      BY <3>3, <3>4
  <2>3. Line(q)' = h \o <<>>
    BY <1>7, <2>1 DEF Line
  <2> QED
    BY <1>5, <2>1, <2>2, <2>3, ConcatEmptySeq
<1>10. /\ \A m : Has(q, m)' <=> Has(q, m)
       /\ Has(q, First(q))' <=> Has(q, s.pos)
  BY <1>1, <1>9 DEF Has
<1> HIDE DEF h, s, new, k
<1>11. ASSUME Has(q, s.pos) PROVE Aimed(q)'
  <2>1. /\ answer[s.req] # <<>> /\ s.next = Last(h) /\ s.pos + k = Len(h) - 1
        /\ s.replay = SubSeq(h, s.pos + 1, Len(h) - 1)
    BY <1>4, <1>11 DEF Going, s, h, k
  <2>2. cache # "trim" /\ cache' # "trim"
    <3>1. cache = "trim" => s.replay = <<>>
      BY <1>4, <1>11 DEF Going, s
    <3> QED
      BY <1>1, <3>1
  <2>3. s.pos \in 0 .. Len(h) - 1 /\ new.pos = Len(h) - 1 + (IF fits THEN 1 ELSE 0)
    <3>1. new.pos = s.pos + k + (IF fits THEN 1 ELSE 0)
      BY <1>7
    <3> QED
      BY <1>4, <1>5, <2>1, <3>1
  <2>4. batch'[q] = SubSeq(Line(q)', First(q)' + 1, new.pos)
    <3>1. CASE fits
      <4>1. new.pos = Len(h)
        BY <1>5, <2>3, <3>1
      <4>2. toks = Append(SubSeq(h, s.pos + 1, Len(h) - 1), Last(h))
        BY <2>1, <3>1 DEF toks
      <4>3. toks = SubSeq(h, s.pos + 1, Len(h))
        BY <1>5, <2>3, <4>2, ReplayAndLast
      <4> QED
        BY <1>8, <1>9, <4>1, <4>3
    <3>2. CASE ~fits
      <4>1. new.pos = Len(h) - 1
        BY <1>5, <2>3, <3>2
      <4>2. toks = SubSeq(h, s.pos + 1, Len(h) - 1)
        BY <2>1, <3>2 DEF toks
      <4> QED
        BY <1>8, <1>9, <4>1, <4>2
    <3> QED
      BY <3>1, <3>2
  <2>5. ASSUME fits PROVE Ready(q)'
    <3>1. new.pos = Len(h) + Len(new.draft) /\ Len(new.spec) = Len(new.draft) + 1
      BY <1>5, <1>7, <2>3, <2>5
    <3>2. \A i \in DOMAIN new.spec : new.spec[i] = Len(h) - 2 + i
      BY <1>5, <1>7, <2>1, <2>5
    <3> QED
      BY <1>7, <1>9, <3>1, <3>2 DEF Ready, new
  <2>6. ASSUME ~fits PROVE Going(q)'
    <3>1. new.pos + Len(new.replay) = Len(h) - 1
      BY <1>5, <1>7, <2>3, <2>6
    <3>2. new.replay = SubSeq(h, new.pos + 1, Len(h) - 1)
      <4>1. new.pos \in 0 .. Len(h) /\ new.pos = Len(h) - 1
        BY <1>5, <2>3, <2>6
      <4>2. SubSeq(h, new.pos + 1, new.pos) = <<>>
        BY <1>5, <4>1, NoneOf
      <4> QED
        BY <1>7, <4>1, <4>2
    <3> QED
      BY <1>1, <1>7, <1>9, <2>1, <2>2, <3>1, <3>2 DEF Going, new, callers
  <2>7. answer'[new.req] # <<>>
    BY <1>1, <1>7, <2>1 DEF callers
  <2> QED
    BY <1>7, <1>9, <2>2, <2>4, <2>5, <2>6, <2>7 DEF Aimed, new
<1>12. Staged(q)'
  <2>1. ~Untouched(q)'
    BY <1>3, <1>7 DEF Untouched, new
  <2>2. new.primed /\ (IF new.hasLogits THEN batch'[q] # <<>> ELSE new.draft = <<>>)
    BY <1>7, <1>8
  <2>3. \E m \in 0 .. Len(Told(q)') : Has(q, m)'
    BY <1>4, <1>9, <1>10
  <2>4. Has(q, First(q))' => Aimed(q)'
    BY <1>10, <1>11
  <2> QED
    BY <2>1, <2>2, <2>3, <2>4 DEF Staged, new
<1>13. Sure => Has(q, First(q))' /\ Len(new.draft) <= MaxDraft
  <2>1. Sure => Has(q, s.pos)
    BY <1>1, <1>3, <1>4 DEF Good, Exact
  <2>2. Len(new.draft) = 0 /\ MaxDraft \in Nat
    BY <1>7, DecodeAssumption
  <2> QED
    BY <1>10, <2>1, <2>2
<1>14. q \in Active' /\ Staging' /\ UNCHANGED <<answer, ended>>
  BY <1>1, <1>3, <1>6 DEF Staging, callers
<1> QED
  BY <1>1, <1>4, <1>7, <1>12, <1>13, <1>14, GoodStaged DEF s, new

\* A replay that does not fit the batch waits: nothing changes.
LEMMA WaitIsNothing ==
  ASSUME Inv, TypeInv, NEW q \in Seqs, Good(q), WaitReplay(q)
  PROVE  slot' = slot
<1>1. q \in Active /\ Running(q)
  BY WaitReplayDoes
<1>2. Staging /\ Untouched(q)
  BY <1>1 DEF Running, Staging, Untouched
<1>3. ~slot[q].hasLogits /\ slot[q] \in Slots
  BY <1>1, <1>2, UntouchedIs, Facts
<1>4. slot[q].hasLogits = FALSE
  BY <1>3 DEF Slots
<1>5. slot' = [slot EXCEPT ![q] = [slot[q] EXCEPT !.hasLogits = FALSE]]
  BY DEF WaitReplay
<1>6. [slot[q] EXCEPT !.hasLogits = FALSE] = slot[q]
  BY <1>3, <1>4 DEF Slots
<1>7. slot \in [Seqs -> Slots \cup {NoSlot}]
  BY DEF TypeInv, TypeOK
<1> QED
  BY <1>5, <1>6, <1>7

\* A piece of a prompt is staged, or the last of it, whose last position is read.
LEMMA GoodPrompt ==
  ASSUME Inv, TypeInv, TypeInv', NEW q \in Seqs, Good(q), UNCHANGED cache, StagePrompt(q)
  PROVE  Good(q)'
<1> DEFINE s == slot[q]
           new == slot'[q]
           h == Told(q)
           p == Prompt[s.req]
<1>1. /\ q \in Active /\ pc = "pass2" /\ q \in todo /\ Prefilling(q) /\ pc' = pc /\ todo' = todo \ {q}
      /\ UNCHANGED <<drafting, turn, cells, state, snapshot, window, callers>>
  BY StagePromptDoes
<1>2. PICK n \in 1 .. Len(s.pending) :
        /\ slot' = [slot EXCEPT ![q] = PromptSlot(s, n)]
        /\ batch' = [batch EXCEPT ![q] = SubSeq(s.pending, 1, n)]
  BY StagePromptDoes
<1>3. ~s.primed /\ Staging /\ Untouched(q) /\ q \notin todo' /\ pc' = "pass2"
  BY <1>1 DEF Prefilling, Staging, Untouched
<1>4. /\ Staged(q) /\ batch[q] = <<>> /\ ~s.hasLogits /\ s.draft = <<>> /\ First(q) = s.pos /\ ~Turned(q)
      /\ s.pos \in Nat /\ Waiting(q)
      /\ \E m \in 0 .. Len(h) : Has(q, m)
      /\ Line(q) = h
  BY <1>1, <1>3, UntouchedIs
<1>5. /\ q \in Seqs /\ s \in Slots /\ s # NoSlot /\ h \in Seq(Token) /\ h # <<>> /\ Len(h) >= 1
      /\ s.pending \in Seq(Token) /\ Len(s.pending) \in Nat /\ Len(h) \in Nat
      /\ p \in Seq(Token) /\ h = p \o answer[s.req]
  BY <1>1, Facts
<1>6. /\ h = p /\ s.replay = <<>> /\ answer[s.req] = <<>> /\ s.pos < Len(p)
      /\ s.pending = SubSeq(p, s.pos + 1, Len(p))
  <2>1. /\ s.replay = <<>> /\ answer[s.req] = <<>> /\ s.pos < Len(p)
        /\ s.pending = SubSeq(p, s.pos + 1, Len(p))
    BY <1>4 DEF Waiting
  <2> QED
    BY <1>5, <2>1, ConcatEmptySeq
<1>7. /\ new = PromptSlot(s, n) /\ new \in Slots /\ Active' = Active
  <2>1. PromptSlot(s, n) \in Slots
    BY <1>5, PromptSlotIs
  <2> QED
    BY <1>1, <1>2, <2>1, SlotWritten
<1> DEFINE last == n = Len(s.pending)
<1>8. /\ new.req = s.req /\ new.pos = s.pos + n
      /\ new.pending = SubSeq(s.pending, n + 1, Len(s.pending))
      /\ new.draft = <<>> /\ new.replay = <<>>
      /\ new.spec = IF last THEN <<s.pos + n - 1>> ELSE <<>>
      /\ new.primed <=> last
      /\ new.hasLogits <=> last
  <2>1. (PromptSlot(s, n).primed <=> last) /\ (PromptSlot(s, n).hasLogits <=> last)
    BY <1>5, PromptSlotIs
  <2>2. new = PromptSlot(s, n) /\ s \in Slots /\ s.draft = <<>> /\ s.replay = <<>>
    BY <1>4, <1>5, <1>6, <1>7
  <2> HIDE DEF s, new, h, p
  <2> QED
    BY <2>1, <2>2, PromptSlotIs
<1> HIDE DEF h, s, new, p
<1>9. /\ s.pos \in Nat /\ Len(p) \in Nat /\ s.pos < Len(p) /\ Len(s.pending) = Len(p) - s.pos
      /\ n \in Nat /\ n >= 1 /\ n <= Len(p) - s.pos
  <2>1. s.pos \in Nat /\ Len(p) \in Nat /\ s.pos < Len(p)
    BY <1>4, <1>5, <1>6, LenProperties DEF s
  <2>2. s.pos \in 0 .. Len(p) /\ 0 \in 0 .. Len(p) - s.pos
    BY <2>1
  <2>3. Len(s.pending) = Len(p) - s.pos
    BY <1>5, <1>6, <2>2, PartOf
  <2>4. Len(s.pending) \in Nat /\ n \in 1 .. Len(s.pending)
    BY <1>2, <1>5 DEF s
  <2>5. n \in Nat /\ n >= 1 /\ n <= Len(s.pending)
    BY <2>4
  <2> QED
    BY <2>1, <2>3, <2>5
<1>10. /\ batch'[q] = SubSeq(p, s.pos + 1, s.pos + n) /\ Len(batch'[q]) = n
       /\ SubSeq(s.pending, n + 1, Len(s.pending)) = SubSeq(p, s.pos + n + 1, Len(p))
  <2>1. batch \in [Seqs -> Seq(Token)]
    BY DEF TypeInv, TypeOK, Token
  <2>2. s.pos \in 0 .. Len(p) /\ n \in 0 .. Len(p) - s.pos /\ s.pos + n \in s.pos .. Len(p)
    BY <1>9
  <2>3. /\ SubSeq(s.pending, 1, n) = SubSeq(p, s.pos + 1, s.pos + n)
        /\ SubSeq(s.pending, n + 1, Len(s.pending)) = SubSeq(p, s.pos + n + 1, Len(p))
    BY <1>5, <1>6, <2>2, PartOf
  <2>4. Len(SubSeq(p, s.pos + 1, s.pos + n)) = s.pos + n - s.pos
    BY <1>5, <2>2, PieceIs
  <2>5. s.pos + n - s.pos = n
    BY <1>9
  <2> QED
    BY <1>2, <1>5, <2>1, <2>3, <2>4, <2>5
<1>11. Told(q)' = h /\ First(q)' = s.pos /\ Line(q)' = h
  <2>1. Told(q)' = h
    BY <1>1, <1>8 DEF Told, History, callers, s, new, h
  <2>2. First(q)' = new.pos - Len(batch'[q])
    BY DEF First, new
  <2>3. First(q)' = s.pos
    BY <1>4, <1>8, <1>9, <1>10, <2>2
  <2>4. Line(q)' = h \o <<>>
    BY <1>8, <2>1 DEF Line, new
  <2> QED
    BY <1>5, <2>1, <2>3, <2>4, ConcatEmptySeq
<1>12. /\ \A m : Has(q, m)' <=> Has(q, m)
       /\ Has(q, First(q))' <=> Has(q, s.pos)
  BY <1>1, <1>11 DEF Has, s, h
<1>13. ~last => Waiting(q)'
  <2>1. HAVE ~last
  <2>2. new.pos < Len(p) /\ new.pending = SubSeq(p, new.pos + 1, Len(p))
    <3>1. new.pos = s.pos + n /\ new.pos < Len(p)
      BY <1>5, <1>8, <1>9, <2>1
    <3>2. s.pos + n + 1 = new.pos + 1
      BY <3>1
    <3> QED
      BY <1>8, <1>10, <3>1, <3>2
  <2>3. answer'[new.req] = <<>> /\ Prompt[new.req] = p
    BY <1>1, <1>6, <1>8 DEF callers, p, s
  <2> QED
    BY <1>8, <2>2, <2>3 DEF Waiting, new
<1>14. last => Ready(q)'
  <2>1. HAVE last
  <2>2. new.pos = Len(h) /\ s.pos + n = Len(h)
    <3>1. new.pos = s.pos + n /\ n = Len(s.pending) /\ h = p
      BY <1>6, <1>8, <2>1
    <3> QED
      BY <1>9, <3>1
  <2>3. new.pos = Len(h) + Len(new.draft) /\ Len(new.spec) = Len(new.draft) + 1
    BY <1>5, <1>8, <2>1, <2>2
  <2>4. \A i \in DOMAIN new.spec : new.spec[i] = Len(h) - 2 + i
    <3>1. new.spec = <<s.pos + n - 1>>
      BY <1>8, <2>1
    <3>2. s.pos + n - 1 = Len(h) - 2 + 1
      BY <1>9, <2>2
    <3> QED
      BY <3>1, <3>2
  <2> QED
    BY <1>8, <1>11, <2>1, <2>3, <2>4 DEF Ready, new
<1>15. Aimed(q)'
  <2>1. batch'[q] = SubSeq(Line(q)', First(q)' + 1, new.pos)
    BY <1>6, <1>8, <1>10, <1>11
  <2>2. answer'[new.req] = <<>> /\ pc' \notin {"pass1", "share"} /\ (new.primed => new.hasLogits)
    BY <1>1, <1>3, <1>6, <1>8 DEF callers
  <2> QED
    BY <1>8, <1>11, <1>14, <2>1, <2>2 DEF Aimed, new
<1>16. Staged(q)'
  <2>1. ~Untouched(q)'
    BY <1>3 DEF Untouched, new
  <2>2. batch'[q] # <<>> /\ new.draft = <<>>
    <3>1. Len(batch'[q]) # 0
      BY <1>9, <1>10, SMTT(60)
    <3> QED
      BY <1>8, <3>1
  <2>3. \E m \in 0 .. Len(Told(q)') : Has(q, m)'
    BY <1>4, <1>11, <1>12 DEF h
  <2> QED
    BY <1>8, <1>13, <1>15, <2>1, <2>2, <2>3 DEF Staged, new
<1>17. Sure => Has(q, First(q))' /\ Len(new.draft) <= MaxDraft
  <2>1. Sure => Has(q, s.pos)
    BY <1>1, <1>3, <1>4 DEF Good, Exact, s
  <2>2. Len(new.draft) = 0 /\ MaxDraft \in Nat
    BY <1>8, DecodeAssumption
  <2> QED
    BY <1>12, <2>1, <2>2
<1>18. q \in Active' /\ Staging' /\ UNCHANGED <<answer, ended>>
  BY <1>1, <1>3, <1>7 DEF Staging, callers
<1> QED
  BY <1>1, <1>4, <1>8, <1>16, <1>17, <1>18, GoodStaged DEF s, new

\* What a donor holds before this tick's tokens are decoded: its whole prompt, or
\* all it has read of it.
LEMMA DonorHolds ==
  ASSUME TypeInv, NEW d \in Active, Good(d), pc = "share", cache = "trim", Sure
  PROVE  /\ Has(d, First(d))
         /\ First(d) = slot[d].pos \/ First(d) >= Len(Prompt[slot[d].req])
<1> DEFINE s == slot[d]
           h == Told(d)
<1>1. Staging /\ d \in Seqs
  BY Facts DEF Staging
<1>2. Has(d, First(d)) /\ Staged(d)
  BY <1>1 DEF Good, Exact, Right
<1>3. CASE ~s.primed
  <2>1. Untouched(d)
    BY <1>3 DEF Untouched
  <2> QED
    BY <1>1, <1>2, <2>1, UntouchedIs
<1>4. CASE s.primed
  <2>1. Aimed(d)
    BY <1>2 DEF Staged
  <2>2. answer[s.req] # <<>>
    BY <1>4, <2>1 DEF Aimed, Going
  <2>3. First(d) = Len(h) - 1
    BY <2>1, <2>2 DEF Aimed
  <2>4. /\ Len(h) = Len(Prompt[s.req]) + Len(answer[s.req])
        /\ answer[s.req] \in Seq(Token) /\ Prompt[s.req] \in Seq(Token)
    BY Facts
  <2>5. Len(answer[s.req]) \in Nat /\ Len(answer[s.req]) # 0 /\ Len(Prompt[s.req]) \in Nat
    BY <2>2, <2>4
  <2> HIDE DEF s, h
  <2>6. First(d) >= Len(Prompt[s.req])
    BY <2>3, <2>4, <2>5
  <2> QED
    BY <1>2, <2>6 DEF s
<1> QED
  BY <1>3, <1>4

\* sharePrefixes: the cells of a donor are those of the prompt, as far as they go.
LEMMA GoodShare ==
  ASSUME Inv, TypeInv, TypeInv', SharesTrimmed, \A p \in Seqs : Good(p), UNCHANGED cache,
         NEW q \in Seqs, Share(q)
  PROVE  Good(q)'
<1> DEFINE s == slot[q]
           new == slot'[q]
           t == Prompt[s.req]
<1>1. /\ q \in Active /\ pc = "share" /\ q \in todo /\ Unstarted(q) /\ pc' = pc /\ todo' = todo \ {q}
      /\ UNCHANGED <<drafting, turn, batch, state, snapshot, window, callers>>
  BY ShareDoes
<1>2. /\ ~s.primed /\ s.pos = 0 /\ Staging /\ Staging' /\ Untouched(q) /\ cache = "trim" /\ Good(q)
  BY <1>1 DEF Unstarted, Staging, Untouched, SharesTrimmed
<1>3. CASE UNCHANGED <<cells, slot>>
  <2>1. Same(q)
    BY <1>1, <1>3 DEF Same, callers
  <2>2. Untouched(q)' => Untouched(q)
    BY <1>2
  <2> QED
    BY <1>1, <1>2, <2>1, <2>2, StaysStaged
<1>4. ASSUME NEW d \in Active \ {q}, NEW n \in Nat, n = Offer(d, q),
             cells' = [cells EXCEPT ![q] = cells[q] \cup CellsBefore(cells[d], n)],
             \/ PosMax(cells'[q]) # n - 1 /\ slot' = slot
             \/ PosMax(cells'[q]) = n - 1 /\ slot' = [slot EXCEPT ![q] = SharedSlot(slot[q], n)]
      PROVE  Good(q)'
  <2> DEFINE td == Prompt[slot[d].req]
             hd == Told(d)
  <2>1. /\ batch[q] = <<>> /\ ~s.hasLogits /\ s.draft = <<>> /\ ~Turned(q) /\ Waiting(q)
        /\ First(q) = s.pos
        /\ \E m \in 0 .. Len(Told(q)) : Has(q, m)
    BY <1>1, <1>2, UntouchedIs
  <2>2. /\ s \in Slots /\ s # NoSlot /\ t \in Seq(Token) /\ Len(t) \in Nat
        /\ s.pending \in Seq(Token) /\ Told(q) = t \o answer[s.req]
    <3>1. /\ s \in Slots /\ s # NoSlot /\ t \in Seq(Token)
          /\ s.pending \in Seq(Token) /\ Told(q) = t \o answer[s.req]
      BY <1>1, Facts
    <3> QED
      BY <3>1, LenProperties
  <2>3. Told(q) = t /\ answer[s.req] = <<>> /\ s.replay = <<>> /\ 0 < Len(t) /\ s.pending = SubSeq(t, 1, Len(t))
    <3>1. /\ s.replay = <<>> /\ answer[s.req] = <<>> /\ s.pos < Len(t)
          /\ s.pending = SubSeq(t, s.pos + 1, Len(t))
      BY <2>1 DEF Waiting
    <3> QED
      BY <1>2, <2>2, <3>1, ConcatEmptySeq
  <2>4. PICK m0 \in 0 .. Len(t) : Has(q, m0) /\ cells[q] = Held(t, m0)
    BY <2>1, <2>3 DEF Has
  <2>5. d \in Seqs /\ d \in Active /\ d # q /\ Good(d)
    BY <1>4 DEF Active
  <2>6. /\ td \in Seq(Token) /\ Len(td) \in Nat /\ hd = td \o answer[slot[d].req] /\ hd \in Seq(Token)
        /\ Len(hd) \in Nat /\ Len(hd) >= Len(td) /\ (\A i \in 1 .. Len(td) : hd[i] = td[i])
        /\ slot[d].pos \in Nat
    <3>1. /\ td \in Seq(Token) /\ hd = td \o answer[slot[d].req] /\ hd \in Seq(Token)
          /\ answer[slot[d].req] \in Seq(Token) /\ slot[d].pos \in Nat
      BY <2>5, Facts
    <3> HIDE DEF td, hd
    <3>2. Len(td) \in Nat /\ Len(answer[slot[d].req]) \in Nat /\ Len(hd) = Len(td) + Len(answer[slot[d].req])
      BY <3>1, LenProperties, ConcatProperties
    <3>3. \A i \in 1 .. Len(td) : hd[i] = td[i]
      BY <3>1, <3>2, ConcatProperties
    <3> QED
      BY <3>1, <3>2, <3>3
  <2>7. PICK md \in 0 .. Len(hd) : Has(d, md) /\ cells[d] = Held(hd, md)
    <3>1. Staged(d)
      BY <1>2, <2>5 DEF Good, Right
    <3> QED
      BY <3>1 DEF Staged, Has
  <2>8. /\ n <= Len(t) - 1 /\ n <= Len(td) /\ n <= slot[d].pos
        /\ \A i \in 1 .. n : t[i] = td[i]
    <3>1. /\ n <= slot[d].pos /\ n <= CommonPrefix(t, td) /\ n <= Len(t) - 1
      BY <1>1, <1>4, <2>5, OfferIs
    <3> HIDE DEF t, td, hd
    <3>2. /\ CommonPrefix(t, td) \in Nat /\ CommonPrefix(t, td) <= Len(td)
          /\ \A i \in 1 .. CommonPrefix(t, td) : t[i] = td[i]
      BY <2>2, <2>6, CommonPrefixIs
    <3> QED
      BY <2>6, <3>1, <3>2, SMTT(60)
  <2> HIDE DEF s, new, t, td, hd
  <2> DEFINE j == Least(md, n)
             m1 == IF j <= m0 THEN m0 ELSE j
  <2>9. j \in Nat /\ j <= md /\ j <= n /\ (n <= md => j = n)
    BY <2>6 DEF Least
  <2>10. m0 \in Nat /\ m1 \in 0 .. Len(t) /\ (m0 = 0 /\ n <= md => m1 = n)
    BY <2>2, <2>8, <2>9
  <2> HIDE DEF j
  <2>11. CellsBefore(cells[d], n) = Held(t, j)
    <3>1. CellsBefore(cells[d], n) = Held(hd, j)
      BY <2>6, <2>7, HeldBefore DEF j
    <3>2. /\ j <= Len(hd) /\ j <= Len(t)
          /\ \A i \in 1 .. j : hd[i] = t[i]
      <4>1. PICK x, y, z : x = Len(td) /\ y = Len(hd) /\ z = Len(t)
        OBVIOUS
      <4>2. /\ x \in Nat /\ y \in Nat /\ z \in Nat /\ n \in Nat /\ j \in Nat
            /\ x <= y /\ n <= z - 1 /\ n <= x /\ j <= n
        BY <2>2, <2>6, <2>8, <2>9, <4>1
      <4>3. j <= y /\ j <= z /\ \A i \in 1 .. j : i \in 1 .. n /\ i \in 1 .. x
        BY ONLY <4>2
      <4> QED
        BY ONLY <2>6, <2>8, <4>1, <4>3, Zenon
    <3>3. Held(hd, j) = Held(t, j)
      <4>1. hd \in Seq(Token) /\ t \in Seq(Token) /\ j \in Nat
        BY ONLY <2>2, <2>6, <2>9, Zenon
      <4> QED
        BY ONLY <3>2, <4>1, HeldAlike
    <3> QED
      BY <3>1, <3>3
  <2>12. cells'[q] = Held(t, m1)
    <3>1. cells \in [Seqs -> SUBSET ((0 .. NCtxSeq - 1) \X Token)]
      BY DEF TypeInv, TypeOK, Token
    <3>2. cells'[q] = Held(t, m0) \cup Held(t, j)
      BY <1>4, <2>4, <2>11, <3>1
    <3>3. CASE j <= m0
      <4>1. j \in 0 .. m0 /\ m1 = m0
        BY <2>9, <2>10, <3>3
      <4> QED
        BY <2>2, <3>2, <4>1, HeldJoin
    <3>4. CASE ~(j <= m0)
      <4>1. m0 \in 0 .. j /\ m1 = j /\ j \in 0 .. Len(t)
        BY <2>9, <2>10, <3>4
      <4> QED
        BY <2>2, <3>2, <4>1, HeldJoin
    <3> QED
      BY <3>3, <3>4
  <2>13. PosMax(cells'[q]) = m1 - 1
    BY <2>2, <2>10, <2>12, HeldEnd
  <2> HIDE DEF m1
  <2>14. /\ new.req = s.req /\ new.draft = <<>> /\ new.replay = <<>> /\ ~new.primed /\ ~new.hasLogits
         /\ new.pos \in Nat /\ new.pos < Len(t) /\ new.pending = SubSeq(t, new.pos + 1, Len(t))
         /\ Active' = Active /\ (m1 = n => new.pos = n)
    <3>1. CASE PosMax(cells'[q]) # n - 1 /\ slot' = slot
      <4>1. new = s /\ s.pos = 0 /\ m1 # n /\ 0 + 1 = 1
        BY <1>2, <2>10, <2>13, <3>1 DEF new, s
      <4> QED
        BY <1>2, <2>1, <2>3, <3>1, <4>1, SMTT(60) DEF Active, s
    <3>2. CASE PosMax(cells'[q]) = n - 1 /\ slot' = [slot EXCEPT ![q] = SharedSlot(s, n)]
      <4>1. SharedSlot(s, n) \in Slots
        BY <2>2, SharedSlotIs
      <4>2. new = SharedSlot(s, n) /\ Active' = Active
        BY <1>1, <3>2, <4>1, SlotWritten DEF new
      <4>3. /\ new.req = s.req /\ new.draft = s.draft /\ new.replay = s.replay
            /\ new.pos = n /\ new.pending = SubSeq(s.pending, n + 1, Len(s.pending))
        BY <2>2, <4>2, SharedSlotIs
      <4>4. (new.primed <=> s.primed) /\ (new.hasLogits <=> s.hasLogits)
        <5>1. s \in Slots /\ n \in Nat
          BY <2>2
        <5>2. SharedSlot(s, n).primed = s.primed
          BY <5>1, SharedSlotIs
        <5>3. SharedSlot(s, n).hasLogits = s.hasLogits
          BY <5>1, SharedSlotIs
        <5> QED
          BY <4>2, <5>2, <5>3
      <4>5. SubSeq(s.pending, n + 1, Len(s.pending)) = SubSeq(t, n + 1, Len(t))
        BY <2>2, <2>3, SubSeqFull
      <4>6. n < Len(t)
        BY <2>2, <2>8
      <4> QED
        BY <1>2, <2>1, <2>3, <4>2, <4>3, <4>4, <4>5, <4>6 DEF s
    <3> QED
      BY <1>4, <3>1, <3>2 DEF s
  <2>15. Told(q)' = t /\ Line(q)' = t /\ First(q)' = new.pos /\ batch'[q] = <<>>
    <3>1. answer'[s.req] = <<>> /\ batch'[q] = <<>>
      BY <1>1, <2>1, <2>3 DEF callers
    <3>2. Told(q)' = t
      <4>1. Told(q)' = Prompt[new.req] \o answer'[new.req]
        BY DEF Told, History, new
      <4> QED
        BY <2>2, <2>14, <3>1, <4>1, ConcatEmptySeq DEF t
    <3>3. Line(q)' = Told(q)' \o <<>>
      BY <2>14 DEF Line, new
    <3>4. First(q)' = new.pos - 0
      BY <3>1 DEF First, new
    <3> QED
      BY <2>2, <2>14, <3>1, <3>2, <3>3, <3>4, ConcatEmptySeq
  <2>16. Has(q, m1)' /\ m1 \in 0 .. Len(Told(q)')
    BY <1>1, <1>2, <2>10, <2>12, <2>15 DEF Has
  <2>17. Waiting(q)'
    <3>1. Prompt[new.req] = t /\ answer'[new.req] = <<>>
      BY <1>1, <2>3, <2>14 DEF t, callers
    <3> QED
      BY <2>14, <3>1 DEF Waiting, new
  <2>18. Aimed(q)'
    <3>1. SubSeq(t, new.pos + 1, new.pos) = <<>>
      BY <2>2, <2>14, NoneOf
    <3>2. answer'[new.req] = <<>>
      BY <1>1, <2>3, <2>14 DEF callers
    <3> QED
      BY <2>14, <2>15, <3>1, <3>2 DEF Aimed, new
  <2>19. Staged(q)'
    BY <2>14, <2>15, <2>16, <2>17, <2>18 DEF Staged, new
  <2>20. ASSUME Sure PROVE Has(q, First(q))' /\ Len(new.draft) <= MaxDraft
    <3>1. Has(q, 0)
      <4>1. Has(q, First(q))
        BY <1>1, <1>2, <2>20 DEF Good, Exact
      <4> QED
        BY <1>2, <2>1, <4>1 DEF s
    <3>2. m0 = 0
      <4>1. Held(t, m0) = Held(t, 0)
        BY <2>3, <2>4, <3>1 DEF Has
      <4>2. 0 \in 0 .. Len(t)
        BY <2>2
      <4> QED
        BY <2>2, <2>4, <4>1, <4>2, HeldOnce
    <3>3. n <= md
      <4>1. /\ Has(d, First(d))
            /\ First(d) = slot[d].pos \/ First(d) >= Len(td)
        BY <1>1, <1>2, <2>5, <2>20, DonorHolds DEF td
      <4>2. First(d) \in 0 .. Len(hd) /\ Held(hd, First(d)) = Held(hd, md)
        BY <2>7, <4>1 DEF Has, hd
      <4>3. md = First(d)
        BY <2>6, <2>7, <4>2, HeldOnce
      <4>4. md \in Nat
        BY <2>6
      <4> QED
        BY <2>6, <2>8, <4>1, <4>3, <4>4
    <3>4. m1 = n /\ new.pos = m1
      BY <2>10, <2>14, <3>2, <3>3
    <3>5. Len(new.draft) = 0 /\ MaxDraft \in Nat
      BY <2>14, DecodeAssumption
    <3>6. Has(q, First(q))'
      BY <2>15, <2>16, <3>4 DEF Has
    <3> QED
      BY <3>5, <3>6
  <2>21. UNCHANGED <<answer, ended>>
    BY <1>1 DEF callers
  <2> QED
    BY <1>1, <1>2, <2>1, <2>14, <2>19, <2>20, <2>21, GoodStaged DEF new, s
<1> QED
  BY <1>3, <1>4, ShareDoes

\* A step that stages nothing for a sequence, and does not go back.
LEMMA OtherStaged ==
  ASSUME NEW p \in Seqs, Good(p), Staging, UNCHANGED <<cache, answer, ended>>,
         slot'[p] = slot[p], cells'[p] = cells[p], state'[p] = state[p], snapshot'[p] = snapshot[p],
         batch'[p] = batch[p],
         \/ pc' = pc /\ todo' \subseteq todo
         \/ pc = "pass1" /\ pc' = "share"
         \/ pc = "share" /\ pc' = "pass2"
         \/ pc = "pass2" /\ pc' = "decode"
  PROVE  Good(p)'
<1>1. Same(p)
  BY DEF Same
<1>2. Staging' /\ (pc' \in {"pass1", "share"} => pc \in {"pass1", "share"})
  BY DEF Staging
<1>3. Untouched(p)' => Untouched(p)
  BY DEF Untouched
<1> QED
  BY <1>1, <1>2, <1>3, StaysStaged

\* Staging and sharing keep the invariant.
LEMMA StepStaging ==
  ASSUME Inv, TypeInv, TypeInv', SharesTrimmed, \A p \in Seqs : Good(p), UNCHANGED cache,
         NEW q \in Seqs,
         StageNext(q) \/ StageReplay(q) \/ WaitReplay(q) \/ SkipNext(q) \/ Share(q) \/ StagePrompt(q)
  PROVE  /\ \A p \in Seqs : Good(p)'
         /\ SharesTrimmed' /\ pc' # "dead" /\ UNCHANGED <<answer, ended>>
<1> DEFINE Others == /\ UNCHANGED <<answer, ended>> /\ Staging /\ pc' = pc /\ todo' \subseteq todo
                     /\ \A p \in Seqs : p # q =>
                          /\ slot'[p] = slot[p] /\ cells'[p] = cells[p] /\ state'[p] = state[p]
                          /\ snapshot'[p] = snapshot[p] /\ batch'[p] = batch[p]
<1>1. ASSUME Others, Good(q)' PROVE /\ \A p \in Seqs : Good(p)'
                                    /\ SharesTrimmed' /\ pc' # "dead" /\ UNCHANGED <<answer, ended>>
  <2>1. ASSUME NEW p \in Seqs PROVE Good(p)'
    <3>1. CASE p = q
      BY <1>1, <3>1
    <3>2. CASE p # q
      BY <1>1, <3>2, OtherStaged
    <3> QED
      BY <3>1, <3>2
  <2>2. SharesTrimmed' /\ pc' # "dead"
    BY <1>1 DEF SharesTrimmed, Staging
  <2> QED
    BY <1>1, <2>1, <2>2
<1>2. /\ slot \in [Seqs -> Slots \cup {NoSlot}] /\ batch \in [Seqs -> Seq(Token)]
      /\ cells \in [Seqs -> SUBSET ((0 .. NCtxSeq - 1) \X Token)]
  BY DEF TypeInv, TypeOK, Token
<1>3. CASE StageNext(q)
  <2>1. /\ Running(q) /\ pc' = pc /\ todo' = todo \ {q}
        /\ UNCHANGED <<cells, state, callers>>
        /\ \A p \in Seqs : p # q => snapshot'[p] = snapshot[p]
        /\ \E toks, new : batch' = [batch EXCEPT ![q] = toks] /\ slot' = [slot EXCEPT ![q] = new]
    BY <1>3, StageNextDoes
  <2>2. Others
    BY <1>2, <2>1 DEF Running, Staging, callers
  <2> QED
    BY <1>1, <1>3, <2>2, GoodNext
<1>4. CASE StageReplay(q)
  <2>1. /\ Running(q) /\ pc' = pc /\ todo' = todo \ {q}
        /\ UNCHANGED <<cells, state, snapshot, callers>>
        /\ \E toks, new : batch' = [batch EXCEPT ![q] = toks] /\ slot' = [slot EXCEPT ![q] = new]
    BY <1>4, StageReplayDoes
  <2>2. Others
    BY <1>2, <2>1 DEF Running, Staging, callers
  <2> QED
    BY <1>1, <1>4, <2>2, GoodReplay
<1>5. CASE WaitReplay(q) \/ SkipNext(q)
  <2>1. /\ pc = "pass1" /\ pc' = pc /\ todo' = todo \ {q} /\ slot' = slot
        /\ UNCHANGED <<backend, callers>>
    BY <1>5, WaitIsNothing DEF WaitReplay, SkipNext, Running
  <2>2. Others
    BY <2>1 DEF Staging, callers, backend
  <2>3. Good(q)'
    BY <2>1, <2>2, OtherStaged DEF backend
  <2> QED
    BY <1>1, <2>2, <2>3
<1>6. CASE Share(q)
  <2>1. /\ pc = "share" /\ pc' = pc /\ todo' = todo \ {q}
        /\ UNCHANGED <<batch, state, snapshot, callers>>
        /\ \A p \in Seqs : p # q => slot'[p] = slot[p] /\ cells'[p] = cells[p]
    BY <1>2, <1>6, ShareDoes
  <2>2. Others
    BY <2>1 DEF Staging, callers
  <2> QED
    BY <1>1, <1>6, <2>2, GoodShare
<1>7. CASE StagePrompt(q)
  <2>1. /\ pc = "pass2" /\ pc' = pc /\ todo' = todo \ {q}
        /\ UNCHANGED <<cells, state, snapshot, callers>>
        /\ \E toks, new : batch' = [batch EXCEPT ![q] = toks] /\ slot' = [slot EXCEPT ![q] = new]
    BY <1>7, StagePromptDoes
  <2>2. Others
    BY <1>2, <2>1 DEF Staging, callers
  <2> QED
    BY <1>1, <1>7, <2>2, GoodPrompt
<1> QED
  BY <1>3, <1>4, <1>5, <1>6, <1>7

\* So do the steps from one pass to the next.
LEMMA StepPasses ==
  ASSUME Inv, TypeInv, TypeInv', \A p \in Seqs : Good(p), UNCHANGED cache,
         TickStart \/ MediaEnd \/ Pass1End \/ ShareEnd \/ Pass2End
  PROVE  /\ \A p \in Seqs : Good(p)'
         /\ SharesTrimmed' /\ pc' # "dead" /\ UNCHANGED <<answer, ended>>
<1>1. CASE TickStart
  <2>1. pc' = "media" /\ UNCHANGED <<answer, ended>>
    BY <1>1 DEF TickStart, callers
  <2> QED
    BY <1>1, <2>1, GoodStart DEF SharesTrimmed
<1>2. CASE MediaEnd
  <2>1. /\ pc = "media" /\ pc' = "pass1" /\ todo' = Active
        /\ UNCHANGED <<slot, backend, callers>>
    BY <1>2 DEF MediaEnd
  <2>2. ASSUME NEW p \in Seqs PROVE Good(p)'
    <3>1. Staging /\ Staging' /\ Untouched(p)
      BY <2>1 DEF Staging, Untouched
    <3>2. CASE p \notin Active
      BY <2>1, <3>1, <3>2 DEF Good, Right, Exact, Active, backend
    <3>3. CASE p \in Active
      <4>1. /\ Staged(p) /\ batch[p] = <<>> /\ ~slot[p].hasLogits /\ ~Turned(p)
        BY <3>1, <3>3, UntouchedIs
      <4>2. /\ Told(p)' = Told(p) /\ Line(p)' = Line(p)
            /\ \A m : Has(p, m)' <=> Has(p, m)
            /\ Waiting(p)' <=> Waiting(p)
            /\ Going(p)' <=> Going(p)
            /\ Ready(p)' <=> Ready(p)
        <5>1. Same(p)
          BY <2>1 DEF Same, backend, callers
        <5> QED
          BY <3>3, <5>1, SameIs
      <4>3. First(p)' = First(p)
        BY <2>1 DEF First, backend
      <4>4. Has(p, First(p))' <=> Has(p, First(p))
        BY <2>1, <4>2, <4>3 DEF Has, backend
      <4>5. Aimed(p) => Aimed(p)'
        BY <2>1, <4>1, <4>2, <4>3 DEF Aimed, backend, callers
      <4>6. Staged(p)'
        BY <2>1, <4>1, <4>2, <4>4, <4>5 DEF Staged, backend
      <4>7. Sure => Has(p, First(p))' /\ Len(slot'[p].draft) <= MaxDraft
        BY <2>1, <3>1, <3>3, <4>4 DEF Good, Exact
      <4>8. p \in Active' /\ slot'[p].req = slot[p].req /\ UNCHANGED <<answer, ended>>
        BY <2>1, <3>3 DEF Active, callers
      <4> QED
        BY <3>1, <3>3, <4>1, <4>6, <4>7, <4>8, GoodStaged
    <3> QED
      BY <3>2, <3>3
  <2> QED
    BY <2>1, <2>2 DEF SharesTrimmed, callers
<1>3. CASE Pass1End \/ ShareEnd \/ (Pass2End /\ BatchLen # 0)
  <2>1. /\ UNCHANGED <<slot, backend, callers>>
        /\ \/ pc = "pass1" /\ pc' = "share"
           \/ pc = "share" /\ pc' = "pass2"
           \/ pc = "pass2" /\ pc' = "decode"
    BY <1>3 DEF Pass1End, ShareEnd, Pass2End
  <2>2. Staging /\ pc' # "dead"
    BY <2>1 DEF Staging
  <2>3. ASSUME NEW p \in Seqs PROVE Good(p)'
    BY <2>1, <2>2, OtherStaged DEF backend, callers
  <2>4. SharesTrimmed'
    BY <1>3, <2>1 DEF Pass1End, ShareEnd, Pass2End, SharesTrimmed
  <2> QED
    BY <2>1, <2>2, <2>3, <2>4 DEF callers
<1>4. CASE Pass2End /\ BatchLen = 0
  <2>1. /\ pc = "pass2" /\ pc' = "harvest" /\ todo' = {q \in Active : slot[q].hasLogits}
        /\ UNCHANGED <<slot, backend, callers>>
    BY <1>4 DEF Pass2End
  <2>2. \A p \in Seqs : batch[p] = <<>>
    BY <1>4, EntriesEmpty DEF TypeInv, TypeOK, Token
  <2>3. Staging /\ ~Staging' /\ \A p \in Seqs : ~Turned(p) /\ ~Turned(p)'
    BY <2>1 DEF Staging, Turned
  <2>4. ASSUME NEW p \in Seqs PROVE Good(p)'
    <3>1. Same(p)
      BY <2>1 DEF Same, backend, callers
    <3>2. CASE p \notin Active
      BY <2>1, <2>3, <3>2 DEF Good, Right, Exact, Active, backend
    <3>3. CASE p \in Active
      <4>1. Staged(p) /\ batch[p] = <<>>
        BY <2>2, <2>3, <3>3 DEF Good, Right
      <4>2. ~slot[p].hasLogits /\ (~slot[p].primed => Waiting(p))
        BY <4>1 DEF Staged
      <4>3. First(p) = slot[p].pos
        <5>1. First(p) = slot[p].pos - Len(batch[p]) /\ slot[p].pos \in Nat
          BY <3>3, Facts
        <5>2. Len(batch[p]) = 0
          BY <4>1
        <5> QED
          BY <5>1, <5>2
      <4>4. Idle(p)
        <5>1. slot[p].primed /\ Has(p, slot[p].pos) => Going(p)
          BY <4>1, <4>2, <4>3 DEF Staged, Aimed
        <5>2. \E m \in 0 .. Len(Told(p)) : Has(p, m)
          BY <4>1 DEF Staged
        <5> QED
          BY <4>2, <5>1, <5>2 DEF Idle
      <4>5. Idle(p)' /\ \A m : Has(p, m)' <=> Has(p, m)
        BY <3>1, <3>3, <4>4, SameIs
      <4>6. p \in Active' /\ ~Queued(p)' /\ Resting(p)'
        BY <2>1, <2>3, <3>3, <4>2 DEF Active, Queued, Resting
      <4>7. Right(p)'
        BY <2>1, <2>3, <3>3, <4>5, <4>6 DEF Good, Right, callers
      <4>8. Sure => Exact(p)'
        <5>1. Sure => Has(p, slot[p].pos)
          BY <2>3, <3>3, <4>3 DEF Good, Exact
        <5>2. Has(p, slot[p].pos) => Has(p, slot[p].pos)'
          BY <2>1, <4>5 DEF Has, backend
        <5> QED
          BY <2>1, <2>3, <3>3, <5>1, <5>2 DEF Good, Exact, callers
      <4> QED
        BY <4>7, <4>8 DEF Good, Sure
    <3> QED
      BY <3>2, <3>3
  <2> QED
    BY <2>1, <2>4 DEF SharesTrimmed, callers
<1> QED
  BY <1>1, <1>2, <1>3, <1>4

---------------------------------------------------------------------------
(* Decode.                                                                   *)

\* A batch the backend takes begins where the cache ends.
LEMMA BatchStarts ==
  ASSUME TypeInv, NEW q \in Active, Staged(q), ~Refused, batch[q] # <<>>
  PROVE  Has(q, First(q)) /\ Aimed(q)
<1>1. First(q) = PosMax(cells[q]) + 1
  BY DEF Refused
<1>2. PICK m \in 0 .. Len(Told(q)) : Has(q, m)
  BY DEF Staged
<1>3. Told(q) \in Seq(Token) /\ Len(Told(q)) \in Nat /\ cells[q] = Held(Told(q), m)
  BY <1>2, Facts DEF Has
<1>4. PosMax(cells[q]) = m - 1
  BY <1>3, HeldEnd
<1>5. First(q) = m
  BY <1>1, <1>3, <1>4
<1> QED
  BY <1>2, <1>5 DEF Staged

\* Where a staged slot ends, within its text.
LEMMA StagedEnds ==
  ASSUME TypeInv, NEW q \in Active, Staged(q), Aimed(q)
  PROVE  /\ slot[q].pos \in 0 .. Len(Line(q))
         /\ slot[q].hasLogits => slot[q].pos = Len(Line(q))
         /\ ~slot[q].hasLogits => Line(q) = Told(q) /\ slot[q].pos \in 0 .. Len(Told(q))
<1> DEFINE s == slot[q]
           h == Told(q)
           pos == s.pos
           lenh == Len(h)
           lend == Len(s.draft)
           lenu == Len(Line(q))
           lenr == Len(s.replay)
           lenp == Len(Prompt[s.req])
           lena == Len(answer[s.req])
<1>1. /\ h \in Seq(Token) /\ pos \in Nat /\ lenh \in Nat /\ lend \in Nat /\ lenu = lenh + lend /\ lenr \in Nat
      /\ lenp \in Nat /\ lena \in Nat /\ lenh = lenp + lena
  <2>1. answer[s.req] \in Seq(Token) /\ Prompt[s.req] \in Seq(Token)
    BY Facts
  <2>2. lenp \in Nat /\ lena \in Nat
    BY <2>1, LenProperties
  <2> QED
    BY <2>2, Facts
<1>2. pos \in Nat /\ lenh \in Nat /\ lend \in Nat /\ lenu = lenh + lend /\ lenr \in Nat
      /\ lenp \in Nat /\ lena \in Nat /\ lenh = lenp + lena
  BY <1>1
<1>3. CASE s.hasLogits
  <2>1. pos = lenh + lend
    BY <1>3 DEF Aimed, Ready
  <2> HIDE DEF pos, lenh, lend, lenu, lenr, lenp, lena
  <2>2. pos \in 0 .. lenu /\ pos = lenu
    BY <1>2, <2>1
  <2> QED
    BY <1>3, <2>2 DEF pos, lenu
<1>4. CASE ~s.hasLogits
  <2>1. s.draft = <<>>
    BY <1>4 DEF Staged
  <2>2. Line(q) = h
    BY <1>1, <2>1, ConcatEmptySeq DEF Line
  <2>3. pos + lenr = lenh - 1 \/ pos < lenp
    BY <1>4 DEF Aimed, Going, Staged, Waiting
  <2> HIDE DEF pos, lenh, lend, lenu, lenr, lenp, lena
  <2>4. pos \in 0 .. lenh /\ pos \in 0 .. lenu
    BY <1>2, <2>3
  <2> QED
    BY <1>4, <2>2, <2>4 DEF pos, lenu, lenh
<1> QED
  BY <1>3, <1>4

\* Decode puts the batch of a sequence behind what its cache holds.
LEMMA GoodDecoded ==
  ASSUME Inv, TypeInv, TypeInv', NEW q \in Seqs, Good(q), UNCHANGED cache, DecodeOk
  PROVE  Good(q)'
<1> DEFINE s == slot[q]
           h == Told(q)
           u == Line(q)
           m == First(q)
<1>1. /\ pc = "decode" /\ ~Refused /\ pc' = "harvest" /\ todo' = {p \in Active : slot[p].hasLogits}
      /\ slot' = slot /\ snapshot' = snapshot /\ answer' = answer /\ ended' = ended
      /\ cells'[q] = IF q \in Active THEN cells[q] \cup CellsFrom(First(q), batch[q]) ELSE cells[q]
      /\ state'[q] = state[q] \o batch[q]
  BY DEF DecodeOk, callers
<1>2. Staging /\ ~Staging' /\ ~Turned(q) /\ ~Turned(q)'
  BY <1>1 DEF Staging, Turned
<1>3. CASE q \notin Active
  <2>1. q \notin Active' /\ state'[q] = <<>> \o <<>> /\ cells'[q] = {} /\ snapshot'[q] = <<>>
    BY <1>1, <1>2, <1>3 DEF Good, Right, Active
  <2>2. state'[q] = <<>>
    BY <2>1
  <2> QED
    BY <1>2, <2>1, <2>2 DEF Good, Right, Exact
<1>4. CASE q \in Active
  <2>1. /\ s.pos \in Nat /\ s.draft \in Seq(Token) /\ h \in Seq(Token) /\ Len(h) \in Nat /\ Len(h) >= 1
        /\ u \in Seq(Token) /\ Len(u) = Len(h) + Len(s.draft) /\ Len(s.draft) \in Nat
        /\ batch[q] \in Seq(Token) /\ state[q] \in Seq(Token)
        /\ m \in Int /\ m = s.pos - Len(batch[q]) /\ Len(batch[q]) \in Nat /\ u = h \o s.draft
    BY <1>4, Facts DEF Line
  <2>2. Staged(q) /\ ended[s.req] = "none"
    BY <1>2, <1>4 DEF Good, Right
  <2>3. Told(q)' = h /\ u = Line(q)' /\ q \in Active'
    BY <1>1, <1>4 DEF Told, History, Line, Active
  <2>4. Waiting(q)' <=> Waiting(q)
    BY <1>1 DEF Waiting
  <2>5. Going(q)' <=> Going(q)
    BY <1>1, <2>3 DEF Going
  <2>6. Ready(q)' <=> Ready(q)
    BY <1>1, <2>3 DEF Ready
  <2>7. CASE batch[q] = <<>>
    <3>1. ~s.hasLogits /\ m = s.pos /\ ~Queued(q)' /\ Resting(q)'
      <4>1. ~s.hasLogits
        BY <2>2, <2>7 DEF Staged
      <4>2. Len(batch[q]) = 0
        BY <2>7
      <4>3. m = s.pos
        BY <2>1, <4>2
      <4> QED
        BY <1>1, <1>2, <4>1, <4>3 DEF Queued, Resting
    <3>2. cells'[q] = cells[q] /\ state'[q] = state[q]
      <4>1. CellsFrom(m, batch[q]) = {}
        BY <2>7 DEF CellsFrom
      <4> HIDE DEF m
      <4> QED
        BY <1>1, <1>4, <2>1, <2>7, <4>1, ConcatEmptySeq DEF m
    <3>3. \A k : Has(q, k)' <=> Has(q, k)
      BY <2>3, <3>2 DEF Has
    <3>4. Has(q, s.pos)' <=> Has(q, s.pos)
      BY <1>1, <3>3 DEF Has
    <3>5. s.primed /\ Has(q, s.pos) => Going(q)
      BY <2>2, <3>1 DEF Staged, Aimed
    <3>6. Idle(q)'
      BY <1>1, <2>2, <2>3, <2>4, <2>5, <3>3, <3>4, <3>5 DEF Idle, Staged
    <3>7. Right(q)'
      BY <1>1, <1>2, <2>2, <2>3, <3>1, <3>6 DEF Right
    <3>8. Sure => Exact(q)'
      BY <1>1, <1>2, <1>4, <3>1, <3>4 DEF Good, Exact
    <3> QED
      BY <3>7, <3>8 DEF Good, Sure
  <2>8. CASE batch[q] # <<>>
    <3>1. Has(q, m) /\ Aimed(q)
      BY <1>1, <1>4, <2>2, <2>8, BatchStarts
    <3>2. /\ s.pos \in 0 .. Len(u)
          /\ s.hasLogits => s.pos = Len(u)
          /\ ~s.hasLogits => u = h /\ s.pos \in 0 .. Len(h)
      BY <1>4, <2>2, <3>1, StagedEnds
    <3>3. /\ m \in 0 .. Len(h) /\ cells[q] = Held(h, m) /\ batch[q] = SubSeq(u, m + 1, s.pos)
          /\ (cache = "rewind" => state[q] = SubSeq(h, 1, m))
      BY <3>1 DEF Has, Aimed
    <3> HIDE DEF s, h, u, m
    <3>4. m \in 0 .. Len(u) /\ s.pos \in m .. Len(u)
      <4> DEFINE a == Len(h)
                 b == Len(u)
                 c == Len(batch[q])
                 d == Len(s.draft)
                 pos == s.pos
      <4>1. /\ a \in Nat /\ d \in Nat /\ b = a + d /\ c \in Nat /\ pos \in Nat /\ m = pos - c
            /\ m \in 0 .. a /\ pos \in 0 .. b
        BY <2>1, <3>2, <3>3
      <4> HIDE DEF a, b, c, d, pos
      <4>2. m \in 0 .. b /\ pos \in m .. b
        BY <4>1
      <4> QED
        BY <4>2 DEF b, pos
    <3>5. Held(h, m) = Held(u, m) /\ SubSeq(h, 1, m) = SubSeq(u, 1, m)
      BY <2>1, <3>3, CutLine
    <3>6. cells'[q] = Held(u, s.pos)
      <4>1. cells'[q] = Held(u, m) \cup CellsFrom(m, SubSeq(u, m + 1, s.pos))
        BY <1>1, <1>4, <3>3, <3>5 DEF m
      <4>2. u \in Seq(Token)
        BY <2>1
      <4>3. Held(u, m) \cup CellsFrom(m, SubSeq(u, m + 1, s.pos)) = Held(u, s.pos)
        BY <3>4, <4>2, HeldMore
      <4> QED
        BY <4>1, <4>3
    <3>7. cache = "rewind" => state'[q] = SubSeq(u, 1, s.pos)
      <4>1. u \in Seq(Token)
        BY <2>1
      <4>2. SubSeq(u, 1, m) \o SubSeq(u, m + 1, s.pos) = SubSeq(u, 1, s.pos)
        BY <3>4, <4>1, Cut
      <4> QED
        BY <1>1, <3>3, <3>5, <4>2
    <3>8. CASE s.hasLogits
      <4>1. Queued(q)' /\ ~Resting(q)'
        BY <1>1, <1>4, <3>8 DEF Queued, Resting, s
      <4>2. Ready(q)'
        BY <2>6, <3>1, <3>8 DEF Aimed, s
      <4>3. cells'[q] = Held(u, Len(u))
        BY <3>2, <3>6, <3>8
      <4>4. cache = "rewind" => state'[q] = u
        BY <2>1, <3>2, <3>7, <3>8, SubSeqFull
      <4>5. cache = "rewind" /\ s.draft # <<>> => snapshot'[q] = SubSeq(h, 1, Len(h) - 1)
        BY <1>1, <3>1, <3>3 DEF Aimed, s, h, m
      <4>6. Read(q)'
        BY <1>1, <2>3, <4>2, <4>3, <4>4, <4>5 DEF Read, s, h, u
      <4>7. Right(q)'
        BY <1>1, <1>2, <2>2, <2>3, <4>1, <4>6 DEF Right, s
      <4>8. Sure => Exact(q)'
        BY <1>1, <1>2, <1>4, <4>1 DEF Good, Exact
      <4> QED
        BY <4>7, <4>8 DEF Good, Sure
    <3>9. CASE ~s.hasLogits
      <4>1. ~Queued(q)' /\ Resting(q)'
        BY <1>1, <1>2, <3>9 DEF Queued, Resting, s
      <4>2. Has(q, s.pos)'
        BY <1>1, <2>3, <3>2, <3>6, <3>7, <3>9 DEF Has, h, s
      <4>3. Has(q, slot[q].pos)'
        BY <1>1, <4>2 DEF s, Has
      <4>4. s.primed => Going(q)'
        BY <2>5, <3>1, <3>9 DEF Aimed, s
      <4>5. ~s.primed => Waiting(q)'
        BY <2>2, <2>4 DEF Staged, s
      <4>6. \E k \in 0 .. Len(Told(q)') : Has(q, k)'
        <5>1. slot'[q].pos \in 0 .. Len(Told(q)')
          BY <1>1, <2>3, <3>2, <3>9 DEF s
        <5> QED
          BY <4>3, <5>1
      <4>7. Idle(q)'
        BY <1>1, <4>4, <4>5, <4>6 DEF Idle, s
      <4>8. Right(q)'
        BY <1>1, <1>2, <2>2, <2>3, <4>1, <4>7 DEF Right, s
      <4>9. Sure => Exact(q)'
        BY <1>1, <1>2, <1>4, <4>1, <4>3 DEF Good, Exact
      <4> QED
        BY <4>8, <4>9 DEF Good, Sure
    <3> QED
      BY <3>8, <3>9
  <2> QED
    BY <2>7, <2>8
<1> QED
  BY <1>3, <1>4

\* With room for everything, the backend takes every batch.
LEMMA NoneRefused ==
  ASSUME TypeInv, \A p \in Seqs : Good(p), Sure, pc = "decode"
  PROVE  ~Refused /\ ~Overfull
<1>1. ASSUME NEW q \in Active
      PROVE  First(q) = PosMax(cells[q]) + 1 /\ First(q) + Len(batch[q]) <= NCtxSeq
  <2> DEFINE s == slot[q]
             h == Told(q)
             pos == s.pos
             lenh == Len(h)
             lend == Len(s.draft)
             lenp == Len(Prompt[s.req])
             lena == Len(answer[s.req])
             lenb == Len(batch[q])
             most == MaxTokens[s.req]
  <2>1. q \in Seqs /\ Staging /\ ~Turned(q)
    BY <1>1, Facts DEF Staging, Turned
  <2>2. Staged(q) /\ Has(q, First(q)) /\ lend <= MaxDraft /\ lena < most
    BY <1>1, <2>1 DEF Good, Right, Exact
  <2>3. Aimed(q)
    BY <2>2 DEF Staged
  <2>4. /\ h \in Seq(Token) /\ lenh \in Nat /\ lend \in Nat /\ lenb \in Nat /\ pos \in Nat
        /\ First(q) = pos - lenb /\ First(q) \in Int /\ lenh = lenp + lena /\ Len(Line(q)) = lenh + lend
        /\ s.req \in Requests
    BY <1>1, Facts
  <2>5. lenp \in Nat /\ lena \in Nat
    <3>1. answer[s.req] \in Seq(Token) /\ Prompt[s.req] \in Seq(Token)
      BY <1>1, Facts
    <3> QED
      BY <3>1, LenProperties
  <2>6. pos \in 0 .. lenh + lend
    BY <1>1, <2>2, <2>3, <2>4, StagedEnds
  <2>7. most \in Nat /\ lenp + most + MaxDraft <= NCtxSeq /\ MaxDraft \in Nat /\ NCtxSeq \in Nat
    <3>1. most \in Nat /\ lenp + most + MaxDraft <= NCtxSeq
      BY <2>4, DecodeAssumption DEF Sure
    <3> QED
      BY <3>1, RoomIs
  <2>8. PosMax(cells[q]) = First(q) - 1
    <3>1. First(q) \in 0 .. Len(h) /\ cells[q] = Held(h, First(q))
      BY <2>2 DEF Has
    <3> QED
      BY <2>4, <3>1, HeldEnd
  <2>9. /\ lenh \in Nat /\ lend \in Nat /\ lenb \in Nat /\ pos \in Nat /\ lenh = lenp + lena
        /\ First(q) = pos - lenb
    BY <2>4
  <2> HIDE DEF s, h, pos, lenh, lend, lenp, lena, lenb, most
  <2>10. First(q) + lenb <= NCtxSeq
    BY <2>2, <2>5, <2>6, <2>7, <2>9
  <2>11. First(q) = PosMax(cells[q]) + 1
    BY <2>8, <2>9
  <2> QED
    BY <2>10, <2>11 DEF lenb
<1>2. ~Refused
  BY <1>1 DEF Refused
<1>3. ~Overfull
  <2>1. \A q \in Active : First(q) + Len(batch[q]) \in Int
    <3>1. ASSUME NEW q \in Active PROVE First(q) \in Int /\ Len(batch[q]) \in Nat
      BY <3>1, Facts
    <3> QED
      BY <3>1
  <2>2. NCtxSeq \in Nat
    BY RoomIs
  <2> QED
    BY <1>1, <2>1, <2>2 DEF Overfull
<1> QED
  BY <1>2, <1>3

\* A sequence that is free.
LEMMA GoodFreed ==
  ASSUME NEW q \in Seqs, q \notin Active', cells'[q] = {}, state'[q] = <<>>, snapshot'[q] = <<>>,
         ~Staging'
  PROVE  Good(q)'
BY DEF Good, Right, Exact

\* Another sequence gave way to the batch: what was staged stays uncached.
LEMMA GoodSpared ==
  ASSUME Inv, TypeInv, NEW p \in Seqs, Good(p), Same(p), ~Sure, pc = "decode", pc' = "top", ~Refused
  PROVE  Good(p)'
<1> DEFINE s == slot[p]
           h == Told(p)
<1>1. Staging /\ ~Staging' /\ ~Turned(p)' /\ ~Queued(p)' /\ Resting(p)'
  BY DEF Staging, Turned, Queued, Resting
<1>2. CASE p \notin Active
  BY <1>1, <1>2 DEF Good, Right, Exact, Same, Active
<1>3. CASE p \in Active
  <2>1. Staged(p) /\ ended[s.req] = "none"
    BY <1>1, <1>3 DEF Good, Right
  <2>2. /\ s.pos \in Nat /\ h \in Seq(Token) /\ Len(h) \in Nat /\ Len(batch[p]) \in Nat
        /\ First(p) = s.pos - Len(batch[p]) /\ First(p) \in Int /\ batch[p] \in Seq(Token)
    BY <1>3, Facts
  <2>3. s.primed /\ Has(p, s.pos) => Going(p)
    <3>1. HAVE s.primed /\ Has(p, s.pos)
    <3>2. CASE batch[p] = <<>>
      <4>1. Len(batch[p]) = 0
        BY <3>2
      <4>2. First(p) = s.pos
        BY <2>2, <4>1
      <4>3. ~s.hasLogits
        BY <2>1, <3>2 DEF Staged
      <4> QED
        BY <2>1, <3>1, <4>2, <4>3 DEF Staged, Aimed
    <3>3. CASE batch[p] # <<>>
      <4>1. Has(p, First(p))
        BY <1>3, <2>1, <3>3, BatchStarts
      <4>2. First(p) \in 0 .. Len(h) /\ s.pos \in 0 .. Len(h) /\ Held(h, First(p)) = Held(h, s.pos)
        BY <3>1, <4>1 DEF Has
      <4>3. First(p) = s.pos
        BY <2>2, <4>2, HeldOnce
      <4>4. Len(batch[p]) # 0
        BY <2>2, <3>3, EmptySeq
      <4> DEFINE lenb == Len(batch[p])
                 pos == s.pos
      <4>5. lenb \in Nat /\ pos \in Nat /\ pos = pos - lenb /\ lenb # 0
        BY <2>2, <4>3, <4>4
      <4> HIDE DEF lenb, pos
      <4> QED
        BY <4>5
    <3> QED
      BY <3>2, <3>3
  <2>4. Idle(p)
    BY <2>1, <2>3 DEF Idle, Staged
  <2>5. Idle(p)'
    BY <1>3, <2>4, SameIs
  <2>6. ended'[slot'[p].req] = "none"
    BY <1>3, <2>1 DEF Same, Active
  <2>7. p \in Active'
    BY <1>3 DEF Same, Active
  <2>8. Right(p)'
    BY <1>1, <2>5, <2>6, <2>7 DEF Right
  <2> QED
    BY <2>8 DEF Good, Sure
<1> QED
  BY <1>2, <1>3

\* Finish leaves the other sequences alone.
LEMMA FinishSpares ==
  ASSUME Inv, TypeInv, NEW q \in Active, NEW reason, Finish(q, reason), UNCHANGED <<cache, answer>>,
         NEW p \in Seqs, p # q
  PROVE  Same(p)
<1>1. /\ slot'[p] = slot[p] /\ cells'[p] = cells[p] /\ state'[p] = state[p] /\ snapshot'[p] = snapshot[p]
      /\ \A r \in Requests : r # slot[q].req => ended'[r] = ended[r]
  BY FreedSlot
<1>2. slot[p] # NoSlot => slot[p].req # slot[q].req /\ slot[p].req \in Requests
  BY ActiveSlot DEF Inv, Apart, Active
<1> QED
  BY <1>1, <1>2 DEF Same

\* Decode keeps it; where the cache has room it never ends the process.
LEMMA StepDecoding ==
  ASSUME Inv, TypeInv, TypeInv', \A p \in Seqs : Good(p), UNCHANGED cache, Decode
  PROVE  /\ \A p \in Seqs : Good(p)'
         /\ SharesTrimmed' /\ (Sure => pc' # "dead") /\ UNCHANGED answer
         /\ \A r \in Requests : ended'[r] = ended[r] \/ ended'[r] # "stop"
<1>1. CASE DecodeOk
  <2>1. pc' = "harvest" /\ UNCHANGED <<answer, ended>>
    BY <1>1 DEF DecodeOk, callers
  <2> QED
    BY <1>1, <2>1, GoodDecoded DEF SharesTrimmed
<1>2. ASSUME NEW q \in Seqs, DecodeNoKV(q)
      PROVE  /\ \A p \in Seqs : Good(p)'
             /\ SharesTrimmed' /\ (Sure => pc' # "dead") /\ UNCHANGED answer
             /\ \A r \in Requests : ended'[r] = ended[r] \/ ended'[r] # "stop"
  <2>1. /\ pc = "decode" /\ pc' = "top" /\ ~Refused /\ (Overfull \/ "nokv" \in Faults) /\ q \in Active
        /\ Finish(q, "context") /\ UNCHANGED answer
    BY <1>2 DEF DecodeNoKV
  <2>2. ~Sure
    BY <2>1, NoneRefused DEF Sure
  <2>3. /\ cells'[q] = {} /\ state'[q] = <<>> /\ snapshot'[q] = <<>> /\ q \notin Active'
        /\ ended'[slot[q].req] = "context"
        /\ \A r \in Requests : r # slot[q].req => ended'[r] = ended[r]
    BY <2>1, FreedSlot
  <2>4. ASSUME NEW p \in Seqs PROVE Good(p)'
    <3>1. CASE p = q
      BY <2>1, <2>3, <3>1, GoodFreed DEF Staging
    <3>2. CASE p # q
      <4>1. Same(p)
        BY <2>1, <3>2, FinishSpares
      <4> QED
        BY <2>1, <2>2, <4>1, GoodSpared
    <3> QED
      BY <3>1, <3>2
  <2>5. \A r \in Requests : ended'[r] = ended[r] \/ ended'[r] # "stop"
    BY <2>3
  <2> QED
    BY <2>1, <2>4, <2>5 DEF SharesTrimmed
<1>3. CASE DecodeRefused
  <2>1. /\ pc = "decode" /\ pc' = "dead" /\ Refused /\ UNCHANGED answer
        /\ \A p \in Seqs : cells'[p] = {} /\ state'[p] = <<>> /\ snapshot'[p] = <<>> /\ slot'[p] = NoSlot
        /\ \A r \in Requests : ended'[r] = "cancel" \/ ended'[r] = ended[r]
    BY <1>3 DEF DecodeRefused
  <2>2. ~Sure
    BY <2>1, NoneRefused
  <2>3. \A p \in Seqs : Good(p)'
    BY <2>1, GoodFreed DEF Staging, Active
  <2> QED
    BY <2>1, <2>2, <2>3 DEF SharesTrimmed
<1> QED
  BY <1>1, <1>2, <1>3 DEF Decode

---------------------------------------------------------------------------
(* Verifying.                                                                *)

\* A draft that is what was said continues the text as what was said.
LEMMA Agreed ==
  ASSUME NEW S, NEW h \in Seq(S), NEW d \in Seq(S), NEW t \in Seq(S), NEW n \in Nat,
         n <= Len(d), n <= Len(t), \A j \in 1 .. n : d[j] = t[j]
  PROVE  /\ SubSeq(h \o d, 1, Len(h) + n) = h \o SubSeq(t, 1, n)
         /\ SubSeq(t, 1, n) \in Seq(S) /\ Len(SubSeq(t, 1, n)) = n
         /\ \A j \in 1 .. n : SubSeq(t, 1, n)[j] = t[j]
<1> DEFINE u == SubSeq(t, 1, n)
           l == h \o d
           v == SubSeq(l, 1, Len(h) + n)
           w == h \o u
<1>1. Len(h) \in Nat /\ Len(d) \in Nat /\ Len(t) \in Nat
  BY LenProperties
<1>2. u \in Seq(S) /\ Len(u) = n /\ \A j \in 1 .. n : u[j] = t[j]
  <2>1. 0 \in 0 .. Len(t) /\ n \in 0 .. Len(t) /\ u = SubSeq(t, 0 + 1, n)
    BY <1>1
  <2> HIDE DEF u
  <2>2. u \in Seq(S) /\ Len(u) = n - 0 /\ \A j \in 1 .. n - 0 : u[j] = t[0 + j]
    BY <2>1, PieceIs
  <2> QED
    BY <1>1, <2>2
<1> HIDE DEF u
<1>3. l \in Seq(S) /\ Len(l) = Len(h) + Len(d) /\ \A j \in 1 .. Len(h) + Len(d) : l[j] = IF j <= Len(h) THEN h[j] ELSE d[j - Len(h)]
  BY ConcatProperties
<1>4. w \in Seq(S) /\ Len(w) = Len(h) + n /\ \A j \in 1 .. Len(h) + n : w[j] = IF j <= Len(h) THEN h[j] ELSE u[j - Len(h)]
  BY <1>2, ConcatProperties
<1> HIDE DEF l, w
<1>5. v \in Seq(S) /\ Len(v) = Len(h) + n /\ \A j \in 1 .. Len(h) + n : v[j] = l[j]
  <2>1. 0 \in 0 .. Len(l) /\ Len(h) + n \in 0 .. Len(l) /\ v = SubSeq(l, 0 + 1, Len(h) + n)
    BY <1>1, <1>3
  <2> HIDE DEF v
  <2>2. v \in Seq(S) /\ Len(v) = Len(h) + n - 0 /\ \A j \in 1 .. Len(h) + n - 0 : v[j] = l[0 + j]
    BY <1>3, <2>1, PieceIs
  <2> QED
    BY <1>1, <2>2
<1> HIDE DEF v
<1>6. ASSUME NEW j \in 1 .. Len(v) PROVE v[j] = w[j]
  <2> DEFINE a == Len(h)
             b == Len(d)
  <2>1. j \in 1 .. a + n /\ a \in Nat /\ b \in Nat /\ n <= b
    BY <1>1, <1>5
  <2>2. v[j] = l[j]
    BY <1>5, <2>1
  <2>3. CASE j <= a
    <3>1. l[j] = h[j] /\ w[j] = h[j]
      BY <1>3, <1>4, <2>1, <2>3
    <3> QED
      BY <2>2, <3>1
  <2>4. CASE ~(j <= a)
    <3> HIDE DEF a, b
    <3>1. j - a \in 1 .. n /\ j \in 1 .. a + b
      BY <2>1, <2>4
    <3>2. l[j] = d[j - a] /\ w[j] = u[j - a]
      BY <1>3, <1>4, <2>1, <2>4, <3>1 DEF a, b
    <3> QED
      BY <1>2, <2>2, <3>1, <3>2
  <2> QED
    BY <2>3, <2>4
<1>7. v = w
  BY <1>4, <1>5, <1>6, SeqEqual
<1> QED
  BY <1>2, <1>7 DEF l, v, w, u

\* What verify reads: the model's choice after the text and the draft so far.
LEMMA VerifyReads ==
  ASSUME ChoosesTokens, TypeInv, NEW q \in Active, Read(q)
  PROVE  LET d == slot[q].draft
             t == Tokens(q)
             k == Kept(q) IN
         /\ t \in Seq(Token) /\ Len(t) = Len(d) + 1 /\ Len(slot[q].spec) = Len(d) + 1
         /\ k \in 1 .. Len(d) + 1
         /\ \A i \in 1 .. k - 1 : i \in 1 .. Len(d) /\ d[i] = t[i] /\ t[i] # EOS
         /\ \A i \in 1 .. Len(d) + 1 : t[i] = Target(SubSeq(Line(q), 1, Len(Told(q)) + (i - 1)))
<1> DEFINE s == slot[q]
           d == s.draft
           t == Tokens(q)
           k == Kept(q)
           h == Told(q)
           u == Line(q)
<1>1. /\ d \in Seq(Token) /\ Len(d) \in Nat /\ h \in Seq(Token) /\ Len(h) \in Nat /\ Len(h) >= 1
      /\ u \in Seq(Token) /\ Len(u) = Len(h) + Len(d) /\ s.spec \in Seq(Nat) /\ q \in Seqs
  BY Facts
<1>2. /\ Len(s.spec) = Len(d) + 1
      /\ \A i \in DOMAIN s.spec : s.spec[i] = Len(h) - 2 + i
      /\ cells[q] = Held(u, Len(u))
      /\ cache = "rewind" => state[q] = u
  BY DEF Read, Ready
<1>3. /\ t \in Seq(Token) /\ Len(t) = Len(d) + 1
      /\ \A i \in 1 .. Len(d) + 1 : t[i] = Sample(q, s.spec[i])
  BY <1>2, TokensTyped
<1>4. s.spec # <<>> /\ DOMAIN s.spec = 1 .. Len(d) + 1
  BY <1>1, <1>2
<1> HIDE DEF s, d, t, h, u
<1>5. /\ k \in 1 .. Len(d) + 1
      /\ \A i \in 1 .. k - 1 : ~Stops(q, i)
  BY <1>1, <1>2, <1>4, KeptIs DEF s
<1> HIDE DEF k
<1>6. ASSUME NEW i \in 1 .. k - 1 PROVE i \in 1 .. Len(d) /\ d[i] = t[i] /\ t[i] # EOS
  <2>1. i \in 1 .. Len(d) /\ i # Len(d) + 1
    BY <1>1, <1>5
  <2>2. t[i] # EOS /\ ~(i \in DOMAIN d /\ d[i] # t[i])
    BY <1>5 DEF Stops, t, s, d
  <2>3. i \in DOMAIN d
    BY <1>1, <2>1
  <2> QED
    BY <2>1, <2>2, <2>3
<1>7. ASSUME NEW i \in 1 .. Len(d) + 1 PROVE t[i] = Target(SubSeq(u, 1, Len(h) + (i - 1)))
  <2> DEFINE p == Len(h) - 2 + i
  <2>1. t[i] = Sample(q, p)
    BY <1>2, <1>3, <1>4
  <2>2. p \in 0 .. Len(u) - 1 /\ p + 1 = Len(h) + (i - 1)
    <3> DEFINE a == Len(h)
               b == Len(d)
               c == Len(u)
    <3>1. a \in Nat /\ b \in Nat /\ a >= 1 /\ c = a + b /\ i \in 1 .. b + 1 /\ p = a - 2 + i
      BY <1>1
    <3> HIDE DEF a, b, c, p
    <3>2. p \in 0 .. c - 1 /\ p + 1 = a + (i - 1)
      BY <3>1
    <3> QED
      BY <3>2 DEF a, c
  <2> HIDE DEF p
  <2>3. Sample(q, p) = Target(SubSeq(u, 1, p + 1))
    BY <1>1, <1>2, <2>2, SampleIs
  <2> QED
    BY <2>1, <2>2, <2>3
<1> QED
  BY <1>2, <1>3, <1>5, <1>6, <1>7 DEF s, d, t, k, h, u

\* What verify emits is what the model alone would say next, and the kept draft
\* is what it says before the last of it.
LEMMA VerifySays ==
  ASSUME ChoosesTokens, TypeInv, NEW q \in Active, Read(q)
  PROVE  LET h == Told(q)
             e == Emitted(q)
             k == Kept(q) IN
         /\ e \in Seq(Token) /\ k \in 1 .. Len(slot[q].draft) + 1
         /\ \A i \in 1 .. Len(e) : e[i] = Target(h \o SubSeq(e, 1, i - 1))
         /\ Stopped(q) => Target(h \o e) = EOS
         /\ ~Stopped(q) =>
              /\ Len(e) = k /\ e # <<>> /\ Last(h \o e) = Last(e)
              /\ Len(h \o e) = Len(h) + k
              /\ \A i \in 1 .. Len(h) + (k - 1) : (h \o e)[i] = Line(q)[i]
<1> DEFINE h == Told(q)
           d == slot[q].draft
           t == Tokens(q)
           k == Kept(q)
           e == Emitted(q)
           u == Line(q)
<1>1. /\ d \in Seq(Token) /\ Len(d) \in Nat /\ h \in Seq(Token) /\ Len(h) \in Nat /\ Len(h) >= 1
      /\ u \in Seq(Token) /\ Len(u) = Len(h) + Len(d) /\ u = h \o d
  BY Facts DEF Line
<1>2. /\ t \in Seq(Token) /\ Len(t) = Len(d) + 1
      /\ k \in 1 .. Len(d) + 1
      /\ \A i \in 1 .. k - 1 : i \in 1 .. Len(d) /\ d[i] = t[i] /\ t[i] # EOS
      /\ \A i \in 1 .. Len(d) + 1 : t[i] = Target(SubSeq(u, 1, Len(h) + (i - 1)))
  BY VerifyReads
<1>3. /\ Stopped(q) <=> t[k] = EOS
      /\ e = SubSeq(t, 1, IF Stopped(q) THEN k - 1 ELSE k)
  <2>1. k > 0
    BY <1>1, <1>2
  <2> QED
    BY <2>1 DEF Stopped, Emitted
<1> HIDE DEF h, d, t, k, e, u
<1>4. k \in Nat /\ k >= 1 /\ k <= Len(d) + 1
  BY <1>1, <1>2
<1>5. ASSUME NEW n \in Nat, n < k
      PROVE  /\ SubSeq(u, 1, Len(h) + n) = h \o SubSeq(t, 1, n)
             /\ t[n + 1] = Target(h \o SubSeq(t, 1, n))
  <2>1. n <= Len(d) /\ n <= Len(t) /\ n + 1 \in 1 .. Len(d) + 1 /\ (n + 1) - 1 = n
    BY <1>1, <1>2, <1>4, <1>5
  <2>2. \A j \in 1 .. n : d[j] = t[j]
    BY <1>2, <1>4, <1>5
  <2>3. SubSeq(u, 1, Len(h) + n) = h \o SubSeq(t, 1, n)
    <3>1. h \in Seq(Token) /\ d \in Seq(Token) /\ t \in Seq(Token) /\ u = h \o d
      BY <1>1, <1>2
    <3>2. SubSeq(h \o d, 1, Len(h) + n) = h \o SubSeq(t, 1, n)
      BY <2>1, <2>2, <3>1, Agreed
    <3> QED
      BY <3>1, <3>2
  <2>4. t[n + 1] = Target(SubSeq(u, 1, Len(h) + n))
    BY <1>2, <2>1
  <2> QED
    BY <2>3, <2>4
<1> DEFINE m == IF Stopped(q) THEN k - 1 ELSE k
<1>6. m \in Nat /\ m <= k /\ m \in 0 .. Len(t)
  BY <1>1, <1>2, <1>4
<1>7. e \in Seq(Token) /\ Len(e) = m /\ \A i \in 1 .. m : e[i] = t[i]
  <2>1. 0 \in 0 .. Len(t) /\ m \in 0 .. Len(t) /\ e = SubSeq(t, 0 + 1, m)
    BY <1>1, <1>2, <1>3, <1>6
  <2> HIDE DEF m
  <2>2. e \in Seq(Token) /\ Len(e) = m - 0 /\ \A i \in 1 .. m - 0 : e[i] = t[0 + i]
    BY <1>2, <1>6, <2>1, PieceIs
  <2> QED
    BY <1>6, <2>2
<1> HIDE DEF m
<1>8. ASSUME NEW i \in 1 .. Len(e) PROVE e[i] = Target(h \o SubSeq(e, 1, i - 1))
  <2>1. i - 1 \in Nat /\ i - 1 < k /\ (i - 1) + 1 = i /\ i \in 1 .. m /\ i - 1 <= Len(e) /\ i - 1 <= Len(t)
    BY <1>1, <1>2, <1>4, <1>6, <1>7
  <2>2. SubSeq(e, 1, i - 1) = SubSeq(t, 1, i - 1)
    <3>1. \A j \in 1 .. i - 1 : e[j] = t[j]
      BY <1>6, <1>7, <2>1
    <3> QED
      BY <1>2, <1>7, <2>1, <3>1, HeldAlike
  <2>3. t[i] = Target(h \o SubSeq(t, 1, i - 1))
    BY <1>5, <2>1
  <2> QED
    BY <1>7, <2>1, <2>2, <2>3
<1>9. ASSUME Stopped(q) PROVE Target(h \o e) = EOS
  <2>1. k - 1 \in Nat /\ k - 1 < k /\ (k - 1) + 1 = k /\ e = SubSeq(t, 1, k - 1) /\ t[k] = EOS
    BY <1>3, <1>4, <1>9
  <2> QED
    BY <1>5, <2>1
<1>10. ASSUME ~Stopped(q)
       PROVE  /\ Len(e) = k /\ e # <<>> /\ Last(h \o e) = Last(e)
              /\ Len(h \o e) = Len(h) + k
              /\ \A i \in 1 .. Len(h) + (k - 1) : (h \o e)[i] = u[i]
  <2>1. Len(e) = k /\ m = k
    BY <1>7, <1>10 DEF m
  <2>2. e # <<>>
    BY <1>4, <2>1
  <2>3. /\ Len(h \o e) = Len(h) + k
        /\ \A i \in 1 .. Len(h) + k : (h \o e)[i] = IF i <= Len(h) THEN h[i] ELSE e[i - Len(h)]
    <3>1. h \in Seq(Token) /\ e \in Seq(Token)
      BY <1>1, <1>7
    <3>2. /\ Len(h \o e) = Len(h) + Len(e)
          /\ \A i \in 1 .. Len(h) + Len(e) : (h \o e)[i] = IF i <= Len(h) THEN h[i] ELSE e[i - Len(h)]
      BY <3>1, ConcatProperties
    <3> QED
      BY <2>1, <3>2
  <2>4. Last(h \o e) = Last(e)
    <3> DEFINE a == Len(h)
    <3>1. a \in Nat
      BY <1>1
    <3> HIDE DEF a
    <3>2. a + k \in 1 .. a + k /\ ~(a + k <= a) /\ (a + k) - a = k
      BY <1>4, <3>1
    <3>3. (h \o e)[a + k] = e[k]
      BY <2>3, <3>2 DEF a
    <3> QED
      BY <2>1, <2>3, <3>3 DEF Last, a
  <2>5. ASSUME NEW i \in 1 .. Len(h) + (k - 1) PROVE (h \o e)[i] = u[i]
    <3> DEFINE a == Len(h)
               b == Len(d)
    <3>1. a \in Nat /\ b \in Nat /\ k \in Nat /\ k >= 1 /\ k <= b + 1 /\ i \in 1 .. a + (k - 1)
      BY <1>1, <1>4, <2>5
    <3> HIDE DEF a, b
    <3>2. i \in 1 .. a + k /\ i \in 1 .. a + b /\ (~(i <= a) => i - a \in 1 .. k - 1 /\ i - a \in 1 .. k)
      BY <3>1
    <3>3. u[i] = IF i <= a THEN h[i] ELSE d[i - a]
      BY <1>1, <3>2, ConcatProperties DEF a, b
    <3>4. (h \o e)[i] = IF i <= a THEN h[i] ELSE e[i - a]
      BY <2>3, <3>2 DEF a
    <3>5. ~(i <= a) => e[i - a] = t[i - a] /\ t[i - a] = d[i - a]
      BY <1>2, <1>7, <2>1, <3>2
    <3> QED
      BY <3>3, <3>4, <3>5
  <2> QED
    BY <2>1, <2>2, <2>3, <2>4, <2>5
<1> QED
  BY <1>2, <1>7, <1>8, <1>9, <1>10 DEF h, d, t, k, e, u


\* Two texts that agree so far have the same pieces.
LEMMA PieceAlike ==
  ASSUME NEW S, NEW t \in Seq(S), NEW u \in Seq(S), NEW m \in Nat, NEW n \in Nat, m <= n,
         n <= Len(t), n <= Len(u), \A i \in 1 .. n : t[i] = u[i]
  PROVE  SubSeq(t, m + 1, n) = SubSeq(u, m + 1, n)
<1> DEFINE v == SubSeq(t, m + 1, n)
           w == SubSeq(u, m + 1, n)
<1>1. Len(t) \in Nat /\ Len(u) \in Nat
  BY LenProperties
<1>2. m \in 0 .. Len(t) /\ n \in m .. Len(t) /\ m \in 0 .. Len(u) /\ n \in m .. Len(u)
  BY <1>1
<1>3. v \in Seq(S) /\ Len(v) = n - m /\ \A i \in 1 .. n - m : v[i] = t[m + i]
  BY <1>2, PieceIs
<1>4. w \in Seq(S) /\ Len(w) = n - m /\ \A i \in 1 .. n - m : w[i] = u[m + i]
  BY <1>2, PieceIs
<1>5. \A i \in 1 .. n - m : m + i \in 1 .. n
  OBVIOUS
<1> HIDE DEF v, w
<1>6. v = w
  BY <1>3, <1>4, <1>5, SeqEqual
<1> QED
  BY <1>6 DEF v, w

\* verify emits and stages what is to be taken back.
LEMMA GoodVerify ==
  ASSUME ChoosesTokens, Inv, TypeInv, TypeInv', NEW q \in Seqs, Good(q), UNCHANGED cache, HarvestVerify(q)
  PROVE  Good(q)'
<1> DEFINE s == slot[q]
           new == slot'[q]
           h == Told(q)
           d == s.draft
           e == Emitted(q)
           k == Kept(q)
           u == Line(q)
           H == h \o e
           left == Len(s.spec) - k
           next == IF e = <<>> THEN s.next ELSE Last(e)
           lenh == Len(h)
           lend == Len(d)
           pos == s.pos - left
<1>1. /\ q \in Active /\ q \in todo /\ pc = "harvest" /\ todo' = todo \ {q}
      /\ left \in 0 .. s.pos /\ next \in Token /\ e \in Seq(Token)
      /\ slot' = [slot EXCEPT ![q] = VerifiedSlot(s, next, left)]
      /\ answer' = [answer EXCEPT ![s.req] = answer[s.req] \o e]
      /\ turn' = [seq |-> q, kept |-> k,
                  reason |-> IF Stopped(q) THEN "stop"
                             ELSE IF k > 0 /\ LimitAt(q, k) THEN "length" ELSE "none"]
      /\ pc' = IF left > 0 THEN "rewind" ELSE "judge"
      /\ UNCHANGED <<cells, state, snapshot, ended>>
  BY VerifyDoes
<1>2. Queued(q) /\ Read(q) /\ ended[s.req] = "none" /\ ~Turned(q)
  BY <1>1 DEF Queued, Turned, Good, Right
<1>3. Ready(q)
  BY <1>2 DEF Read
<1>4. /\ e \in Seq(Token) /\ k \in 1 .. lend + 1
      /\ Stopped(q) => Target(H) = EOS
      /\ ~Stopped(q) =>
           /\ Len(e) = k /\ e # <<>> /\ Last(H) = Last(e)
           /\ Len(H) = lenh + k
           /\ \A i \in 1 .. lenh + (k - 1) : H[i] = u[i]
  BY <1>1, <1>2, VerifySays
<1>5. /\ s \in Slots /\ s # NoSlot /\ s.req \in Requests /\ h \in Seq(Token) /\ h # <<>> /\ lenh \in Nat /\ lenh >= 1
      /\ d \in Seq(Token) /\ lend \in Nat /\ u \in Seq(Token) /\ Len(u) = lenh + lend /\ u = h \o d
      /\ answer[s.req] \in Seq(Token) /\ Prompt[s.req] \in Seq(Token) /\ h = Prompt[s.req] \o answer[s.req]
      /\ s.pos \in Nat /\ lenh = Len(Prompt[s.req]) + Len(answer[s.req]) /\ Len(Prompt[s.req]) >= 1
  BY <1>1, Facts DEF Line
<1>5a. /\ h \in Seq(Token) /\ d \in Seq(Token) /\ u \in Seq(Token) /\ e \in Seq(Token)
       /\ answer[s.req] \in Seq(Token) /\ Prompt[s.req] \in Seq(Token)
  BY <1>1, <1>5
<1>5b. /\ lenh \in Nat /\ lend \in Nat /\ Len(u) = lenh + lend /\ Len(u) \in Nat
  BY <1>5, LenProperties
<1>6. /\ new = VerifiedSlot(s, next, left) /\ new \in Slots /\ Active' = Active
  <2>1. VerifiedSlot(s, next, left) \in Slots
    BY <1>1, <1>5, VerifiedSlotIs
  <2> QED
    BY <1>1, <2>1, SlotWritten
<1>7. /\ new.req = s.req /\ new.pos = pos /\ new.next = next /\ new.draft = d
      /\ new.committed = s.committed /\ new.replay = s.replay /\ new.replayFrom = s.replayFrom
      /\ new.primed
  <2>1. VerifiedSlot(s, next, left).primed = s.primed
    BY <1>1, <1>5, VerifiedSlotIs
  <2>2. VerifiedSlot(s, next, left).primed
    BY <1>3, <2>1 DEF Ready
  <2>3. new.primed
    BY <1>6, <2>2
  <2>4. left \in 0 .. s.pos /\ next \in Token /\ s \in Slots
    BY <1>1, <1>5
  <2>5. new = VerifiedSlot(s, next, left)
    BY <1>6
  <2> HIDE DEF s, new, next, left, h, d, e, k, u, H
  <2> QED
    BY <2>3, <2>4, <2>5, VerifiedSlotIs DEF d, pos
<1>8. /\ s.replay = <<>> /\ s.pos = lenh + lend /\ Len(s.spec) = lend + 1
      /\ d # <<>> => s.committed = <<Last(h)>> \o d /\ s.replayFrom = lenh - 1 /\ answer[s.req] # <<>>
      /\ cells[q] = Held(u, Len(u))
      /\ cache = "rewind" => state[q] = u
      /\ cache = "rewind" /\ d # <<>> => snapshot[q] = SubSeq(h, 1, lenh - 1)
  BY <1>2, <1>3 DEF Read, Ready
<1>9. /\ left = lend + 1 - k /\ pos = lenh - 1 + k /\ k \in Nat /\ k >= 1 /\ k <= lend + 1 /\ pos \in Nat
  <2>1. /\ lenh \in Nat /\ lend \in Nat /\ k \in 1 .. lend + 1 /\ left = (lend + 1) - k /\ s.pos = lenh + lend
        /\ lenh >= 1
    BY <1>4, <1>5, <1>8
  <2> HIDE DEF s, h, d, k, lenh, lend, left
  <2> QED
    BY <2>1
<1>10. answer'[s.req] = answer[s.req] \o e /\ Told(q)' = H /\ H \in Seq(Token)
  <2>1. answer'[s.req] = answer[s.req] \o e
    BY <1>1, <1>5 DEF TypeInv, TypeOK
  <2>2. Told(q)' = Prompt[s.req] \o (answer[s.req] \o e)
    BY <1>7, <2>1 DEF Told, History
  <2>3. Prompt[s.req] \o (answer[s.req] \o e) = (Prompt[s.req] \o answer[s.req]) \o e
    <3> DEFINE a == answer[s.req]
               p == Prompt[s.req]
    <3>1. p \in Seq(Token) /\ a \in Seq(Token) /\ e \in Seq(Token)
      BY <1>5a
    <3> HIDE DEF a, p, e
    <3>2. (p \o a) \o e = p \o (a \o e)
      BY ONLY <3>1, ConcatAssociative, SMTT(60)
    <3> QED
      BY <3>2 DEF a, p
  <2>4. H \in Seq(Token)
    BY <1>1, <1>5, ConcatProperties
  <2> QED
    BY <1>5, <2>1, <2>2, <2>3, <2>4
<1>10a. answer'[s.req] = answer[s.req] \o e
  BY <1>10
<1>10b. H \in Seq(Token) /\ Len(H) \in Nat
  BY <1>10, LenProperties
<1>11. ~Staging' /\ Turned(q)' /\ ~Queued(q)' /\ ~Resting(q)'
  BY <1>1 DEF Staging, Turned, Queued, Resting
<1> HIDE DEF s, new, h, d, e, k, u, H, left, next, lenh, lend, pos
<1>12. ASSUME ~Stopped(q)
       PROVE  /\ Len(H) = lenh + k /\ pos = Len(H) - 1 /\ pos <= Len(H) /\ pos <= Len(u) /\ lenh <= Len(H)
              /\ \A i \in 1 .. pos : H[i] = u[i]
              /\ new.next = Last(H) /\ answer'[s.req] # <<>>
              /\ Held(H, pos) = Held(u, pos) /\ SubSeq(H, 1, pos) = SubSeq(u, 1, pos)
  <2>1. /\ Len(e) = k /\ e # <<>> /\ Last(H) = Last(e) /\ Len(H) = lenh + k
        /\ \A i \in 1 .. lenh + (k - 1) : H[i] = u[i]
    BY <1>4, <1>12
  <2>2. pos = Len(H) - 1 /\ pos <= Len(H) /\ pos <= Len(u) /\ lenh <= Len(H) /\ pos = lenh + (k - 1)
    <3>1. lenh \in Nat /\ lend \in Nat /\ Len(u) = lenh + lend
      BY <1>5
    <3> QED
      BY <1>9, <2>1, <3>1
  <2>3. \A i \in 1 .. pos : H[i] = u[i]
    BY <2>1, <2>2
  <2>4. new.next = Last(H)
    BY <1>7, <2>1 DEF next
  <2>5. answer'[s.req] # <<>>
    <3>1. Len(answer'[s.req]) = Len(answer[s.req]) + Len(e)
      BY <1>5a, <1>10a, ConcatProperties
    <3>2. Len(answer[s.req]) \in Nat
      BY <1>5, LenProperties
    <3>3. Len(answer'[s.req]) # 0
      BY <1>9, <2>1, <3>1, <3>2
    <3> QED
      BY <3>3
  <2>6. Held(H, pos) = Held(u, pos) /\ SubSeq(H, 1, pos) = SubSeq(u, 1, pos)
    <3>1. pos \in Nat /\ pos <= Len(H) /\ pos <= Len(u)
      BY <1>9, <2>2
    <3> QED
      BY <1>5a, <1>10b, <2>3, <3>1, HeldAlike
  <2> QED
    BY <2>1, <2>2, <2>3, <2>4, <2>5, <2>6
<1>13. ASSUME ~Stopped(q), pc' = "judge"
       PROVE  slot'[q].primed /\ Has(q, slot[q].pos)' /\ Going(q)'
  <2>1. left = 0 /\ pos = Len(u)
    <3>1. left = 0
      BY <1>1, <1>9, <1>13
    <3>2. lenh \in Nat /\ lend \in Nat /\ Len(u) = lenh + lend
      BY <1>5
    <3> QED
      BY <1>9, <3>1, <3>2
  <2>2. cells'[q] = Held(H, pos)
    BY <1>1, <1>8, <1>12, <1>13, <2>1
  <2>3. cache = "rewind" => state'[q] = SubSeq(H, 1, pos)
    <3>1. SubSeq(u, 1, Len(u)) = u
      BY <1>5, SubSeqFull
    <3> QED
      BY <1>1, <1>8, <1>12, <1>13, <2>1, <3>1
  <2>4. Len(H) \in Nat /\ pos \in Nat /\ pos = Len(H) - 1
    BY <1>9, <1>10, <1>12, <1>13, LenProperties
  <2>5. pos \in 0 .. Len(H)
    BY <2>4
  <2>6. Has(q, slot[q].pos)'
    BY <1>7, <1>10, <2>2, <2>3, <2>5 DEF Has, new
  <2>7. new.replay = <<>> /\ <<>> = SubSeq(H, pos + 1, Len(H) - 1)
    BY <1>7, <1>8, <1>10, <2>4, <2>5, NoneOf
  <2>8. new.pos + Len(new.replay) = Len(H) - 1
    BY <1>7, <2>4, <2>7
  <2>9. Going(q)'
    BY <1>7, <1>8, <1>10, <1>12, <1>13, <2>7, <2>8 DEF Going, new
  <2> QED
    BY <1>7, <2>6, <2>9 DEF new
<1>14. ASSUME ~Stopped(q), pc' = "rewind" PROVE Undo(q)'
  <2>1. left > 0 /\ d # <<>>
    <3>1. left > 0
      BY <1>1, <1>14
    <3>2. lend # 0
      BY <1>5b, <1>9, <3>1
    <3> QED
      BY <3>1, <3>2, EmptySeq DEF lend
  <2>2. s.committed = <<Last(h)>> \o d /\ s.replayFrom = lenh - 1 /\ answer[s.req] # <<>>
    BY <1>8, <2>1
  <2>3. /\ new.next = Last(H) /\ new.pos = Len(H) - 1 /\ new.replay = <<>> /\ new.primed
        /\ answer'[new.req] # <<>>
    BY <1>7, <1>8, <1>12, <1>14
  <2>4. Len(u) \in Nat /\ Len(u) \in 0 .. Len(u) /\ pos \in Nat /\ pos \in 0 .. Len(u)
    BY <1>5b, <1>9, <1>12, <1>14
  <2>5. ASSUME NEW n \in 0 .. pos
        PROVE  CellsBefore(cells'[q], n) = Held(H, n)
    <3>1. n \in Nat /\ n <= pos /\ n <= Len(u) /\ n <= Len(H) /\ Least(Len(u), n) = n
      BY <1>9, <1>12, <1>14, <2>4, <2>5 DEF Least
    <3>2. CellsBefore(Held(u, Len(u)), n) = Held(u, n)
      BY <1>5a, <2>4, <3>1, HeldBefore
    <3>3. \A i \in 1 .. n : H[i] = u[i]
      BY <1>9, <1>12, <1>14, <3>1
    <3>4. Held(H, n) = Held(u, n)
      BY <1>5a, <1>10b, <3>1, <3>3, HeldAlike
    <3> QED
      BY <1>1, <1>8, <3>2, <3>4
  <2>6. CellsBefore(cells'[q], pos) = Held(H, pos)
    BY <2>4, <2>5
  <2>7. /\ lenh - 1 \in 1 .. pos /\ lenh - 1 \in 0 .. pos /\ (lenh - 1) + k = pos /\ lenh - 1 \in Nat
        /\ lenh - 1 \in 0 .. lenh
    <3> DEFINE a == Len(answer[s.req])
               p == Len(Prompt[s.req])
    <3>1. a \in Nat /\ p \in Nat /\ p >= 1 /\ lenh = p + a
      BY <1>5, LenProperties DEF lenh
    <3>2. a # 0
      BY <1>5, <2>2, EmptySeq
    <3> HIDE DEF a, p
    <3> QED
      BY <1>9, <3>1, <3>2
  <2>8. cache = "rewind" => snapshot'[q] = SubSeq(H, 1, lenh - 1)
    <3>1. SubSeq(H, 1, lenh - 1) = SubSeq(h, 1, lenh - 1)
      BY <1>1, <1>5, <2>7, CutLine DEF lenh, H
    <3> QED
      BY <1>1, <1>8, <2>1, <3>1
  <2>9. SubSeq(s.committed, 1, k) = SubSeq(H, (lenh - 1) + 1, pos)
    <3>1. s.committed = SubSeq(u, (lenh - 1) + 1, Len(u))
      <4>1. <<Last(h)>> \o d = SubSeq(h \o d, Len(h), Len(h) + Len(d))
        BY <1>5, LastAndDraft
      <4>2. (lenh - 1) + 1 = Len(h) /\ Len(u) = Len(h) + Len(d)
        BY <1>5 DEF lenh, lend
      <4> QED
        BY <1>5, <2>2, <4>1, <4>2
    <3>2. lenh - 1 \in 0 .. Len(u) /\ k \in 0 .. Len(u) - (lenh - 1)
      BY <1>5b, <1>9, <2>7
    <3>3. SubSeq(SubSeq(u, (lenh - 1) + 1, Len(u)), 1, k) = SubSeq(u, (lenh - 1) + 1, (lenh - 1) + k)
      BY <1>5a, <3>2, PartOf
    <3>4. SubSeq(H, (lenh - 1) + 1, pos) = SubSeq(u, (lenh - 1) + 1, pos)
      <4>1. lenh - 1 \in Nat /\ pos \in Nat /\ lenh - 1 <= pos
        BY <1>9, <2>7
      <4> QED
        <5>1. pos <= Len(H) /\ pos <= Len(u) /\ \A i \in 1 .. pos : H[i] = u[i]
          BY <1>12, <1>14
        <5>2. PICK m : m = lenh - 1
          OBVIOUS
        <5>3. m \in Nat /\ m <= pos /\ pos \in Nat
          BY <4>1, <5>2
        <5>4. SubSeq(H, m + 1, pos) = SubSeq(u, m + 1, pos)
          BY ONLY <1>5a, <1>10b, <5>1, <5>3, PieceAlike
        <5> QED
          BY ONLY <5>2, <5>4, Zenon
    <3> QED
      BY <2>7, <3>1, <3>3, <3>4
  <2>10. CellsBefore(cells'[q], lenh - 1) = Held(H, lenh - 1)
    BY <2>5, <2>7
  <2>11. turn'.kept = k
    BY <1>1
  <2>12. cache = "rewind" =>
           /\ new.replayFrom \in 1 .. new.pos
           /\ new.replayFrom + turn'.kept = new.pos
           /\ CellsBefore(cells'[q], new.replayFrom) = Held(H, new.replayFrom)
           /\ snapshot'[q] = SubSeq(H, 1, new.replayFrom)
           /\ SubSeq(new.committed, 1, turn'.kept) = SubSeq(H, new.replayFrom + 1, new.pos)
    <3>1. new.replayFrom = lenh - 1 /\ new.pos = pos /\ new.committed = s.committed
      BY <1>7, <2>2
    <3> QED
      BY <2>7, <2>8, <2>9, <2>10, <2>11, <3>1
  <2>13. cache = "trim" => CellsBefore(cells'[q], new.pos) = Held(H, new.pos)
    BY <1>7, <2>6
  <2> QED
    BY <1>10, <2>3, <2>12, <2>13 DEF Undo, new
<1>15. Judged(q)'
  <2>1. /\ turn'.reason = "stop" <=> Stopped(q)
        /\ pc' \in {"rewind", "judge"}
    BY <1>1
  <2>2. turn'.reason = "stop" => Target(Told(q)') = EOS
    BY <1>4, <1>10, <2>1
  <2> QED
    BY <1>13, <1>14, <2>1, <2>2 DEF Judged
<1>16. ended'[slot'[q].req] = "none"
  BY <1>1, <1>2, <1>7 DEF new
<1>17. q \in Active'
  BY <1>1, <1>6
<1>18. Right(q)'
  BY <1>11, <1>15, <1>16, <1>17 DEF Right
<1>19. ASSUME Sure, turn'.reason = "none" PROVE Len(answer'[s.req]) < MaxTokens[s.req]
  <2>1. ~Stopped(q) /\ ~LimitAt(q, k)
    BY <1>1, <1>9, <1>19
  <2>2. MaxTokens[s.req] > 0 /\ MaxTokens[s.req] \in Nat
    BY <1>5, <1>19, DecodeAssumption DEF Sure
  <2>3. Len(answer'[s.req]) = Len(answer[s.req]) + k
    <3>1. Len(answer'[s.req]) = Len(answer[s.req]) + Len(e)
      BY <1>5a, <1>10a, ConcatProperties
    <3> QED
      BY <1>4, <2>1, <3>1
  <2>4. Len(answer[s.req]) \in Nat
    BY <1>5, LenProperties
  <2>5. ~(Len(answer[s.req]) + k >= MaxTokens[s.req])
    BY <2>1, <2>2 DEF LimitAt, s
  <2> QED
    BY <1>9, <2>2, <2>3, <2>4, <2>5
<1>20. Sure => Exact(q)'
  BY <1>7, <1>11, <1>19 DEF Exact, new
<1> QED
  BY <1>18, <1>20 DEF Good, Sure

\* An answer the model would give goes on as the model would go on.
LEMMA SaysMore ==
  ASSUME NEW p \in Seq(Token), NEW a \in Seq(Token), NEW e \in Seq(Token),
         \A i \in DOMAIN a : a[i] = Target(p \o SubSeq(a, 1, i - 1)),
         \A i \in 1 .. Len(e) : e[i] = Target((p \o a) \o SubSeq(e, 1, i - 1))
  PROVE  \A i \in DOMAIN (a \o e) : (a \o e)[i] = Target(p \o SubSeq(a \o e, 1, i - 1))
<1> DEFINE b == a \o e
           lena == Len(a)
           lene == Len(e)
<1>1. /\ b \in Seq(Token) /\ Len(b) = lena + lene /\ lena \in Nat /\ lene \in Nat
      /\ \A i \in 1 .. lena + lene : b[i] = IF i <= lena THEN a[i] ELSE e[i - lena]
      /\ DOMAIN b = 1 .. lena + lene /\ DOMAIN a = 1 .. lena
  BY ConcatProperties, LenProperties
<1> HIDE DEF b
<1>2. ASSUME NEW i \in 1 .. lena + lene PROVE b[i] = Target(p \o SubSeq(b, 1, i - 1))
  <2>1. CASE i <= lena
    <3>1. i \in 1 .. lena /\ i - 1 \in Nat /\ i - 1 <= lena /\ i - 1 <= lena + lene
      BY <1>1, <2>1
    <3>2. b[i] = a[i] /\ \A j \in 1 .. i - 1 : b[j] = a[j]
      BY <1>1, <3>1, <2>1
    <3>3. SubSeq(b, 1, i - 1) = SubSeq(a, 1, i - 1)
      BY <1>1, <3>1, <3>2, HeldAlike
    <3> QED
      BY <1>1, <3>1, <3>2, <3>3
  <2>2. CASE ~(i <= lena)
    <3> DEFINE j == i - lena
               n == j - 1
    <3> HIDE DEF lena, lene
    <3>1. j \in 1 .. lene /\ n \in Nat /\ n <= lene /\ lena + n = i - 1
      BY <1>1, <2>2
    <3> HIDE DEF n
    <3>2. b[i] = e[j]
      BY <1>1, <2>2
    <3>3. SubSeq(b, 1, i - 1) = a \o SubSeq(e, 1, n) /\ SubSeq(e, 1, n) \in Seq(Token)
      <4>1. n <= Len(e) /\ \A m \in 1 .. n : e[m] = e[m]
        BY <3>1 DEF lene
      <4>2. SubSeq(a \o e, 1, Len(a) + n) = a \o SubSeq(e, 1, n) /\ SubSeq(e, 1, n) \in Seq(Token)
        <5>1. n \in Nat /\ a \in Seq(Token) /\ e \in Seq(Token)
          BY <3>1
        <5> QED
          BY ONLY <4>1, <5>1, Agreed, SMTT(60)
      <4> QED
        BY <3>1, <4>2 DEF b, lena
    <3>4. p \o (a \o SubSeq(e, 1, n)) = (p \o a) \o SubSeq(e, 1, n)
      <4>1. PICK g : g = SubSeq(e, 1, n)
        OBVIOUS
      <4>2. g \in Seq(Token)
        BY ONLY <3>3, <4>1, Zenon
      <4>3. (p \o a) \o g = p \o (a \o g)
        BY ONLY <4>2, p \in Seq(Token), a \in Seq(Token), ConcatAssociative, SMTT(60)
      <4> QED
        BY ONLY <4>1, <4>3, Zenon
    <3>5. e[j] = Target((p \o a) \o SubSeq(e, 1, n))
      BY <3>1 DEF lene, n
    <3> QED
      BY <3>2, <3>3, <3>4, <3>5
  <2> QED
    BY <2>1, <2>2
<1> QED
  BY <1>1, <1>2 DEF b

\* What verify emits is what the model alone would say next.
LEMMA SaysTransparent ==
  ASSUME ChoosesTokens, Inv, TypeInv, NEW q \in Seqs, Good(q), Transparent, HarvestVerify(q)
  PROVE  Transparent'
<1> DEFINE s == slot[q]
           e == Emitted(q)
           h == Told(q)
           a == answer[s.req]
           p == Prompt[s.req]
<1>1. /\ q \in Active /\ q \in todo /\ pc = "harvest" /\ e \in Seq(Token)
      /\ answer' = [answer EXCEPT ![s.req] = a \o e]
      /\ UNCHANGED ended
  BY VerifyDoes
<1>2. Read(q) /\ ended[s.req] = "none"
  BY <1>1 DEF Queued, Good, Right
<1>3. s.req \in Requests /\ p \in Seq(Token) /\ a \in Seq(Token) /\ h = p \o a
  BY <1>1, Facts
<1>4. \A i \in 1 .. Len(e) : e[i] = Target(h \o SubSeq(e, 1, i - 1))
  BY <1>1, <1>2, VerifySays
<1>5. answer'[s.req] = a \o e /\ \A r \in Requests : r # s.req => answer'[r] = answer[r]
  BY <1>1, <1>3 DEF TypeInv, TypeOK
<1>6. \A i \in DOMAIN a : a[i] = Target(p \o SubSeq(a, 1, i - 1))
  BY <1>3 DEF Transparent
<1> HIDE DEF s, e, h, a, p
<1>7. \A i \in DOMAIN (a \o e) : (a \o e)[i] = Target(p \o SubSeq(a \o e, 1, i - 1))
  BY <1>1, <1>3, <1>4, <1>6, SaysMore
<1>8. ASSUME NEW r \in Requests
      PROVE  /\ \A i \in DOMAIN answer'[r] : answer'[r][i] = Target(Prompt[r] \o SubSeq(answer'[r], 1, i - 1))
             /\ ended'[r] = "stop" => Target(History(r)') = EOS
  <2>1. CASE r = s.req
    BY <1>1, <1>2, <1>5, <1>7, <2>1 DEF p
  <2>2. CASE r # s.req
    BY <1>1, <1>5, <2>2 DEF Transparent, History
  <2> QED
    BY <2>1, <2>2
<1> QED
  BY <1>8 DEF Transparent

\* Verification keeps it: the answer and the text the cache holds grow alike.
LEMMA StepVerifying ==
  ASSUME ChoosesTokens, Inv, TypeInv, TypeInv', \A p \in Seqs : Good(p), UNCHANGED cache,
         NEW q \in Seqs, HarvestVerify(q)
  PROVE  (\A p \in Seqs : Good(p)') /\ SharesTrimmed' /\ pc' # "dead"
<1>1. /\ q \in Active /\ pc = "harvest" /\ todo' = todo \ {q} /\ turn'.seq = q
      /\ pc' \in {"rewind", "judge"}
      /\ answer' = [answer EXCEPT ![slot[q].req] = answer[slot[q].req] \o Emitted(q)]
      /\ UNCHANGED <<cells, state, snapshot, ended>>
  BY VerifyDoes
<1>2. \A p \in Seqs : p # q => slot'[p] = slot[p]
  BY DEF HarvestVerify, TypeInv, TypeOK
<1>3. ASSUME NEW p \in Seqs, p # q PROVE Good(p)'
  <2>1. slot[p] # NoSlot => answer'[slot[p].req] = answer[slot[p].req]
    <3>1. HAVE slot[p] # NoSlot
    <3>2. slot[p].req # slot[q].req /\ slot[p].req \in Requests
      BY <1>3, <3>1, ActiveSlot DEF Inv, Apart, Active
    <3> QED
      BY <1>1, <3>2 DEF TypeInv, TypeOK
  <2>2. Same(p)
    BY <1>1, <1>2, <1>3, <2>1 DEF Same
  <2>3. ~Staging /\ ~Staging' /\ (Queued(p)' <=> Queued(p)) /\ ~Turned(p) /\ ~Turned(p)'
    BY <1>1, <1>3 DEF Staging, Queued, Turned
  <2> QED
    BY <2>2, <2>3, StaysPut
<1> QED
  BY <1>1, <1>3, GoodVerify DEF SharesTrimmed

---------------------------------------------------------------------------
(* Taking back, and judging.                                                 *)

\* TrimSeq: the cache ends where the slot says.
LEMMA GoodTrim ==
  ASSUME Inv, TypeInv, NEW q \in Seqs, q = turn.seq, Good(q), UNCHANGED cache, Trim
  PROVE  Good(q)'
<1> DEFINE s == slot[q]
           h == Told(q)
<1>1. /\ pc = "rewind" /\ pc' = "judge" /\ cache = "trim" /\ q \in Active
      /\ cells' = [cells EXCEPT ![q] = CellsBefore(cells[q], s.pos)]
      /\ UNCHANGED <<todo, turn, slot, state, snapshot, answer, ended>>
  BY DEF Trim, Inv, Ranged, callers
<1>2. Turned(q) /\ Turned(q)' /\ ~Staging' /\ ~Queued(q)' /\ ~Resting(q)' /\ q \in Active'
  <2>1. q \notin todo
    BY <1>1 DEF Inv, Ranged
  <2> QED
    BY <1>1, <2>1 DEF Turned, Staging, Queued, Resting, Active
<1>3. ended[s.req] = "none" /\ Judged(q)
  BY <1>1, <1>2 DEF Good, Right
<1>4. Told(q)' = h /\ h \in Seq(Token) /\ Len(h) \in Nat /\ s.pos \in Nat /\ cells'[q] = CellsBefore(cells[q], s.pos)
  BY <1>1, Facts DEF Told, History, TypeInv, TypeOK
<1>5. ASSUME turn.reason # "stop" PROVE slot'[q].primed /\ Has(q, slot[q].pos)' /\ Going(q)'
  <2>1. Undo(q)
    BY <1>1, <1>3, <1>5 DEF Judged
  <2>2. /\ s.primed /\ answer[s.req] # <<>> /\ s.next = Last(h) /\ s.pos = Len(h) - 1 /\ s.replay = <<>>
        /\ cells'[q] = Held(h, s.pos)
    BY <1>1, <1>4, <2>1 DEF Undo
  <2>3. s.pos \in 0 .. Len(h) /\ s.pos + Len(<<>>) = Len(h) - 1
    BY <1>4, <2>2
  <2>4. SubSeq(h, s.pos + 1, Len(h) - 1) = <<>>
    BY <1>4, <2>2, <2>3, NoneOf
  <2>5. Has(q, slot[q].pos)'
    BY <1>1, <1>4, <2>2, <2>3 DEF Has
  <2>6. Going(q)'
    BY <1>1, <1>4, <2>2, <2>3, <2>4 DEF Going
  <2> QED
    BY <1>1, <2>2, <2>5, <2>6
<1>6. Judged(q)'
  BY <1>1, <1>3, <1>4, <1>5 DEF Judged
<1>7. Right(q)'
  BY <1>1, <1>2, <1>3, <1>6 DEF Right
<1>8. Sure => Exact(q)'
  BY <1>1, <1>2 DEF Good, Exact, Turned
<1> QED
  BY <1>7, <1>8 DEF Good, Sure

\* Rollback: the cache and the state end where the step began.
LEMMA GoodRollback ==
  ASSUME Inv, TypeInv, NEW q \in Seqs, q = turn.seq, Good(q), UNCHANGED cache, Rollback
  PROVE  Good(q)'
<1> DEFINE s == slot[q]
           h == Told(q)
           kept == turn.kept
           new == slot'[q]
<1>1. /\ pc = "rewind" /\ pc' = "judge" /\ cache = "rewind" /\ q \in Active
      /\ cells' = [cells EXCEPT ![q] = CellsBefore(cells[q], s.replayFrom)]
      /\ state' = [state EXCEPT ![q] = IF snapshot[q] # <<>> THEN snapshot[q] ELSE state[q]]
      /\ slot' = [slot EXCEPT ![q] = RolledSlot(s, kept)]
      /\ UNCHANGED <<todo, turn, snapshot, answer, ended>>
  BY DEF Rollback, RolledSlot, Inv, Ranged, callers
<1>2. /\ s \in Slots /\ s # NoSlot /\ s.req \in Requests /\ h \in Seq(Token) /\ Len(h) \in Nat /\ Len(h) >= 1
      /\ s.pos \in Nat /\ s.replayFrom \in Nat /\ s.committed \in Seq(Token) /\ s.spec \in Seq(Nat)
  BY <1>1, Facts
<1>3. kept \in 0 .. Len(s.committed)
  <2>1. kept \in Nat /\ kept < Len(s.spec) /\ (Len(s.spec) > 1 => Len(s.committed) = Len(s.spec))
    BY <1>1 DEF TypeInv, TypeOK, Bounded
  <2>2. Len(s.spec) \in Nat /\ Len(s.committed) \in Nat
    BY <1>2, LenProperties
  <2> QED
    BY <2>1, <2>2
<1>4. new = RolledSlot(s, kept) /\ new \in Slots /\ Active' = Active
  <2>1. RolledSlot(s, kept) \in Slots
    BY <1>2, <1>3, RolledSlotIs
  <2> QED
    BY <1>1, <2>1, SlotWritten
<1>5. /\ new.req = s.req /\ new.pos = s.replayFrom /\ new.next = s.next
      /\ new.replay = SubSeq(s.committed, 1, kept)
      /\ s.primed => new.primed
  <2>1. RolledSlot(s, kept).primed = s.primed
    BY <1>2, <1>3, RolledSlotIs
  <2>2. s.primed => RolledSlot(s, kept).primed
    BY <2>1
  <2>3. s.primed => new.primed
    BY <1>4, <2>2
  <2>4. new = RolledSlot(s, kept)
    BY <1>4
  <2> HIDE DEF s, new, h, kept
  <2> QED
    BY <1>2, <1>3, <2>3, <2>4, RolledSlotIs
<1>6. Turned(q) /\ Turned(q)' /\ ~Staging' /\ ~Queued(q)' /\ ~Resting(q)' /\ q \in Active'
  <2>1. q \notin todo
    BY <1>1 DEF Inv, Ranged
  <2> QED
    BY <1>1, <1>4, <2>1 DEF Turned, Staging, Queued, Resting
<1>7. ended[s.req] = "none" /\ Judged(q)
  BY <1>1, <1>6 DEF Good, Right
<1>8. /\ Told(q)' = h /\ cells'[q] = CellsBefore(cells[q], s.replayFrom)
      /\ state'[q] = IF snapshot[q] # <<>> THEN snapshot[q] ELSE state[q]
  BY <1>1, <1>5 DEF Told, History, TypeInv, TypeOK
<1> HIDE DEF s, new, h, kept
<1>9. ASSUME turn.reason # "stop" PROVE slot'[q].primed /\ Has(q, slot[q].pos)' /\ Going(q)'
  <2> DEFINE from == s.replayFrom
             pos == s.pos
             lenh == Len(h)
  <2>1. /\ s.primed /\ answer[s.req] # <<>> /\ s.next = Last(h) /\ pos = lenh - 1
        /\ from \in 1 .. pos
        /\ CellsBefore(cells[q], from) = Held(h, from)
        /\ snapshot[q] = SubSeq(h, 1, from)
        /\ SubSeq(s.committed, 1, kept) = SubSeq(h, from + 1, pos)
    BY <1>1, <1>7, <1>9 DEF Judged, Undo, s, h, kept
  <2>2. lenh \in Nat /\ pos \in Nat /\ from \in Nat
    BY <1>2
  <2> HIDE DEF from, pos, lenh
  <2>3. from \in 0 .. lenh /\ pos \in from .. lenh /\ from + (pos - from) = lenh - 1
    BY <2>1, <2>2
  <2>4. SubSeq(h, from + 1, pos) \in Seq(Token) /\ Len(SubSeq(h, from + 1, pos)) = pos - from
    BY <1>2, <2>3, PieceIs DEF lenh
  <2>5. state'[q] = SubSeq(h, 1, from)
    <3>1. Len(SubSeq(h, 1, from)) = from
      <4>1. 0 \in 0 .. Len(h) /\ from \in 0 .. Len(h) /\ SubSeq(h, 1, from) = SubSeq(h, 0 + 1, from) /\ from - 0 = from
        BY <1>2, <2>2, <2>3 DEF lenh
      <4> QED
        BY <1>2, <4>1, PieceIs
    <3>2. SubSeq(h, 1, from) # <<>>
      <4>1. from \in 1 .. pos
        BY <2>1
      <4>2. from # 0
        BY <2>2, <4>1
      <4>3. Len(SubSeq(h, 1, from)) # 0
        BY <3>1, <4>2
      <4>4. Len(<<>>) = 0
        OBVIOUS
      <4>5. ASSUME NEW t, Len(t) # 0 PROVE t # <<>>
        BY <4>4, <4>5
      <4> QED
        BY <4>3, <4>5
    <3> QED
      BY <1>8, <2>1, <3>2
  <2>6. new.pos = from /\ new.replay = SubSeq(h, from + 1, pos) /\ cells'[q] = Held(h, from)
    BY <1>5, <1>8, <2>1 DEF from
  <2>7. Has(q, slot[q].pos)'
    BY <1>8, <2>3, <2>5, <2>6 DEF Has, new, lenh
  <2>8. new.pos + Len(new.replay) = lenh - 1 /\ new.replay = SubSeq(h, new.pos + 1, lenh - 1)
    BY <2>1, <2>3, <2>4, <2>6
  <2>9. Going(q)'
    BY <1>1, <1>5, <1>8, <2>1, <2>8 DEF Going, new, lenh
  <2> QED
    BY <1>5, <2>1, <2>7, <2>9 DEF new
<1>10. Judged(q)'
  BY <1>1, <1>7, <1>8, <1>9 DEF Judged, h
<1>11. Right(q)'
  BY <1>1, <1>5, <1>6, <1>7, <1>10 DEF Right, new
<1>12. Sure => Exact(q)'
  BY <1>1, <1>5, <1>6 DEF Good, Exact, Turned, new, s
<1> QED
  BY <1>11, <1>12 DEF Good, Sure

\* A request that goes on rests until the next tick.
LEMMA GoodOn ==
  ASSUME Inv, TypeInv, NEW q \in Seqs, q = turn.seq, Good(q), UNCHANGED cache, JudgeOn
  PROVE  Good(q)'
<1>1. /\ pc = "judge" /\ pc' = "harvest" /\ q \in Active /\ q \notin todo /\ turn.reason = "none"
      /\ UNCHANGED <<todo, turn, slot, cells, state, snapshot, answer, ended>>
  BY DEF JudgeOn, Over, Inv, Ranged, callers, backend
<1>2. Turned(q) /\ ~Turned(q)' /\ ~Staging' /\ ~Queued(q)' /\ Resting(q)' /\ q \in Active'
  BY <1>1 DEF Turned, Staging, Queued, Resting, Active
<1>3. ended[slot[q].req] = "none" /\ slot[q].primed /\ Has(q, slot[q].pos) /\ Going(q)
  BY <1>1, <1>2 DEF Good, Right, Judged
<1>4. Same(q)
  BY <1>1 DEF Same
<1>5. Going(q)' /\ Has(q, slot[q].pos)' /\ Told(q)' = Told(q)
  BY <1>1, <1>3, <1>4, SameIs DEF Going, Has, Told, History
<1>6. slot[q].pos \in 0 .. Len(Told(q)')
  BY <1>3, <1>5 DEF Has
<1>7. Idle(q)'
  <2>1. \A m : Has(q, m)' <=> Has(q, m)
    BY <1>1, <1>4, SameIs
  <2>2. \E m \in 0 .. Len(Told(q)') : Has(q, m)'
    BY <1>3, <1>5, <1>6, <2>1
  <2> QED
    BY <1>1, <1>3, <1>5, <2>2 DEF Idle
<1>8. Right(q)'
  BY <1>1, <1>2, <1>3, <1>7 DEF Right
<1>9. Sure => Exact(q)'
  BY <1>1, <1>2, <1>5 DEF Good, Exact
<1> QED
  BY <1>8, <1>9 DEF Good, Sure

\* A step that adds no token and ends no answer keeps Transparent.
LEMMA TransparentKept ==
  ASSUME Transparent, UNCHANGED answer,
         \A r \in Requests : \/ ended'[r] = ended[r] \/ ended'[r] # "stop"
                             \/ Target(History(r)) = EOS
  PROVE  Transparent'
BY DEF Transparent, History

\* A sequence that is freed once the batch is decoded.
LEMMA StepFreed ==
  ASSUME Inv, TypeInv, \A p \in Seqs : Good(p), NEW q \in Active, NEW reason, Finish(q, reason),
         UNCHANGED <<cache, answer, turn>>, pc' = "harvest",
         \/ pc = "harvest" /\ todo' = todo \ {q}
         \/ pc \in {"rewind", "judge"} /\ q = turn.seq /\ todo' = todo
  PROVE  /\ (\A p \in Seqs : Good(p)') /\ SharesTrimmed'
         /\ \A r \in Requests : r = slot[q].req \/ ended'[r] = ended[r]
<1>1. /\ cells'[q] = {} /\ state'[q] = <<>> /\ snapshot'[q] = <<>> /\ q \notin Active' /\ q \in Seqs
      /\ \A r \in Requests : r # slot[q].req => ended'[r] = ended[r]
  BY FreedSlot, ActiveSlot
<1>2. ASSUME NEW p \in Seqs, p # q PROVE Good(p)'
  <2>1. Same(p)
    BY <1>2, FinishSpares
  <2>2. ~Staging /\ ~Staging' /\ (Queued(p)' <=> Queued(p)) /\ ~Turned(p) /\ ~Turned(p)'
    BY <1>2 DEF Staging, Queued, Turned
  <2> QED
    BY <2>1, <2>2, StaysPut
<1>3. Good(q)'
  BY <1>1, GoodFreed DEF Staging
<1> QED
  BY <1>1, <1>2, <1>3 DEF SharesTrimmed

\* Trimming, rolling back and the judgement of an answer keep it.
LEMMA StepJudging ==
  ASSUME Inv, TypeInv, \A p \in Seqs : Good(p), UNCHANGED cache, Transparent,
         \/ \E q \in Seqs : HarvestCancelled(q)
         \/ Trim \/ Rollback \/ RewindFail \/ JudgeEnd \/ JudgeOn \/ HarvestEnd
  PROVE  (\A p \in Seqs : Good(p)') /\ SharesTrimmed' /\ pc' # "dead" /\ Transparent'
<1>1. ASSUME NEW q \in Seqs, HarvestCancelled(q)
      PROVE  (\A p \in Seqs : Good(p)') /\ SharesTrimmed' /\ pc' # "dead" /\ Transparent'
  <2>1. /\ q \in Active /\ pc = "harvest" /\ pc' = "harvest" /\ todo' = todo \ {q} /\ Finish(q, "cancel")
        /\ UNCHANGED <<answer, turn>>
    BY <1>1 DEF HarvestCancelled, Inv, Ranged
  <2>2. ended'[slot[q].req] = "cancel"
    BY <2>1, FreedSlot
  <2>3. (\A p \in Seqs : Good(p)') /\ SharesTrimmed' /\ \A r \in Requests : r = slot[q].req \/ ended'[r] = ended[r]
    BY <2>1, StepFreed
  <2> QED
    BY <2>1, <2>2, <2>3, TransparentKept
<1> DEFINE q == turn.seq
<1>2. pc \in {"rewind", "judge"} => q \in Active /\ q \in Seqs /\ q \notin todo
  BY ActiveSlot DEF Inv, Ranged
<1>3. CASE Trim \/ Rollback \/ JudgeOn
  <2>1. /\ pc \in {"rewind", "judge"} /\ pc' \in {"judge", "harvest"}
        /\ UNCHANGED <<todo, turn, answer, ended, snapshot>>
        /\ \A p \in Seqs : p # q => slot'[p] = slot[p] /\ cells'[p] = cells[p] /\ state'[p] = state[p]
    BY <1>3 DEF Trim, Rollback, JudgeOn, callers, backend, TypeInv, TypeOK
  <2>2. ASSUME NEW p \in Seqs, p # q PROVE Good(p)'
    <3>1. Same(p)
      BY <2>1, <2>2 DEF Same
    <3>2. ~Staging /\ ~Staging' /\ (Queued(p)' <=> Queued(p)) /\ ~Turned(p) /\ ~Turned(p)'
      BY <2>1, <2>2 DEF Staging, Queued, Turned
    <3> QED
      BY <3>1, <3>2, StaysPut
  <2>3. Good(q)'
    BY <1>2, <1>3, <2>1, GoodTrim, GoodRollback, GoodOn
  <2>4. Transparent'
    BY <2>1, TransparentKept
  <2> QED
    BY <2>1, <2>2, <2>3, <2>4 DEF SharesTrimmed
<1>4. CASE RewindFail
  <2>1. /\ pc = "rewind" /\ pc' = "harvest" /\ todo' = todo /\ Finish(q, "error")
        /\ UNCHANGED <<answer, turn>>
    BY <1>4 DEF RewindFail
  <2>2. ended'[slot[q].req] = "error"
    BY <1>2, <2>1, FreedSlot
  <2>3. (\A p \in Seqs : Good(p)') /\ SharesTrimmed' /\ \A r \in Requests : r = slot[q].req \/ ended'[r] = ended[r]
    BY <1>2, <2>1, StepFreed
  <2> QED
    BY <2>1, <2>2, <2>3, TransparentKept
<1>5. CASE JudgeEnd
  <2> DEFINE reason == IF turn.reason # "none" THEN turn.reason ELSE "context"
  <2>1. /\ pc = "judge" /\ pc' = "harvest" /\ todo' = todo /\ Finish(q, reason)
        /\ UNCHANGED <<answer, turn>>
    BY <1>5 DEF JudgeEnd
  <2>2. reason = "stop" => Target(History(slot[q].req)) = EOS
    <3>1. HAVE reason = "stop"
    <3>2. turn.reason = "stop"
      BY <3>1
    <3>3. Turned(q) /\ Judged(q)
      BY <1>2, <2>1 DEF Turned, Good, Right
    <3> QED
      BY <3>2, <3>3 DEF Judged, Told
  <2> HIDE DEF reason
  <2>3. ended'[slot[q].req] = reason
    BY <1>2, <2>1, FreedSlot
  <2>4. (\A p \in Seqs : Good(p)') /\ SharesTrimmed' /\ \A r \in Requests : r = slot[q].req \/ ended'[r] = ended[r]
    BY <1>2, <2>1, StepFreed
  <2> QED
    BY <2>1, <2>2, <2>3, <2>4, TransparentKept
<1>6. CASE HarvestEnd
  <2>1. /\ pc = "harvest" /\ pc' = "top" /\ todo = {} /\ todo' = {}
        /\ UNCHANGED <<slot, cells, state, snapshot, answer, ended>>
    BY <1>6 DEF HarvestEnd, backend, callers
  <2>2. ASSUME NEW p \in Seqs PROVE Good(p)'
    <3>1. Same(p)
      BY <2>1 DEF Same
    <3>2. ~Staging /\ ~Staging' /\ (Queued(p)' <=> Queued(p)) /\ ~Turned(p) /\ ~Turned(p)'
      BY <2>1 DEF Staging, Queued, Turned
    <3> QED
      BY <3>1, <3>2, StaysPut
  <2> QED
    BY <2>1, <2>2, TransparentKept DEF SharesTrimmed
<1> QED
  BY <1>1, <1>3, <1>4, <1>5, <1>6

---------------------------------------------------------------------------
(* Between ticks.                                                            *)

\* A request is given a sequence that holds nothing.
LEMMA GoodAdmit ==
  ASSUME Inv, TypeInv, NEW r \in Requests, NEW q \in Seqs, Good(q), UNCHANGED cache, Admit(r, q)
  PROVE  Good(q)'
<1>1. /\ pc = "top" /\ pc' = "top" /\ q \notin Active /\ Fresh(r) /\ slot'[q] = NewSlot(r)
      /\ UNCHANGED <<todo, turn, cells, state, snapshot, answer, ended>>
  BY DEF Admit, backend, callers, TypeInv, TypeOK
<1>2. /\ cells[q] = {} /\ state[q] = <<>>
      /\ ended[r] = "none" /\ answer[r] = <<>>
  BY <1>1 DEF Good, Right, Fresh, Inv, Unserved
<1>3. /\ slot'[q].req = r /\ slot'[q].pos = 0 /\ slot'[q].pending = Prompt[r] /\ slot'[q].replay = <<>>
      /\ ~slot'[q].primed
  BY <1>1 DEF NewSlot
<1>4. Prompt[r] \in Seq(Token) /\ Prompt[r] # <<>> /\ Len(Prompt[r]) \in Nat /\ Len(Prompt[r]) > 0
  <2>1. Prompt[r] \in Seq(Token) /\ Prompt[r] # <<>>
    BY PromptIs
  <2> QED
    BY <2>1, EmptySeq, LenProperties
<1>5. q \in Active'
  <2>1. r # None /\ NoSlot.req = None
    BY NoSlotFacts
  <2>2. slot'[q] # NoSlot
    BY <1>3, <2>1
  <2> QED
    BY <2>2 DEF Active
<1>6. Told(q)' = Prompt[r]
  <2>1. Prompt[r] \o <<>> = Prompt[r]
    BY <1>4, ConcatEmptySeq
  <2> QED
    BY <1>1, <1>2, <1>3, <2>1 DEF Told, History
<1>7. Waiting(q)'
  <2>1. SubSeq(Prompt[r], 0 + 1, Len(Prompt[r])) = Prompt[r]
    BY <1>4, SubSeqFull
  <2> QED
    BY <1>1, <1>2, <1>3, <1>4, <2>1 DEF Waiting
<1>8. Has(q, slot[q].pos)' /\ \E m \in 0 .. Len(Told(q)') : Has(q, m)'
  <2>1. 0 \in 0 .. Len(Told(q)')
    BY <1>4, <1>6
  <2>2. SubSeq(Prompt[r], 1, 0) = <<>>
    BY <1>4
  <2>3. Held(Prompt[r], 0) = {}
    <3>1. 0 \in 0 .. Len(Prompt[r])
      BY <1>4
    <3>2. Held(Prompt[r], 0) = {<<i - 1, Prompt[r][i]>> : i \in 1 .. 0}
      BY <1>4, <3>1, HeldIs
    <3> QED
      BY <3>2
  <2>4. Has(q, 0)'
    BY <1>1, <1>2, <1>6, <2>1, <2>2, <2>3 DEF Has
  <2> QED
    BY <1>3, <2>1, <2>4 DEF Has
<1>9. ~Staging' /\ ~Queued(q)' /\ ~Turned(q)' /\ Resting(q)'
  BY <1>1 DEF Staging, Queued, Turned, Resting
<1>10. Right(q)'
  BY <1>1, <1>2, <1>3, <1>5, <1>7, <1>8, <1>9 DEF Right, Idle
<1>11. Sure => Exact(q)'
  <2>1. Sure => Len(answer'[r]) < MaxTokens[r]
    BY <1>1, <1>2 DEF Sure
  <2> QED
    BY <1>3, <1>8, <1>9, <2>1 DEF Exact
<1> QED
  BY <1>10, <1>11 DEF Good, Sure

\* A sequence that is given to a request is empty.
LEMMA StepAdmitting ==
  ASSUME Inv, TypeInv, \A p \in Seqs : Good(p), UNCHANGED cache,
         NEW r \in Requests, NEW q \in Seqs, Admit(r, q)
  PROVE  (\A p \in Seqs : Good(p)') /\ SharesTrimmed' /\ pc' # "dead" /\ UNCHANGED <<answer, ended>>
<1>1. /\ pc = "top" /\ pc' = "top" /\ \A p \in Seqs : p # q => slot'[p] = slot[p]
      /\ UNCHANGED <<todo, turn, cells, state, snapshot, answer, ended>>
  BY DEF Admit, backend, callers, TypeInv, TypeOK
<1>2. ASSUME NEW p \in Seqs, p # q PROVE Good(p)'
  <2>1. Same(p)
    BY <1>1, <1>2 DEF Same
  <2>2. ~Staging /\ ~Staging' /\ (Queued(p)' <=> Queued(p)) /\ ~Turned(p) /\ ~Turned(p)'
    BY <1>1 DEF Staging, Queued, Turned
  <2> QED
    BY <2>1, <2>2, StaysPut
<1> QED
  BY <1>1, <1>2, GoodAdmit DEF SharesTrimmed

\* A caller that cancels writes nothing of the engine.
LEMMA StepStill ==
  ASSUME \A p \in Seqs : Good(p), SharesTrimmed,
         UNCHANGED <<cache, pc, todo, drafting, slot, turn, backend, answer, ended>>
  PROVE  (\A p \in Seqs : Good(p)') /\ SharesTrimmed'
<1>1. ASSUME NEW p \in Seqs PROVE Good(p)'
  <2>1. Same(p) /\ batch'[p] = batch[p]
    BY DEF Same, backend
  <2>2. CASE Staging
    BY <2>1, <2>2, StaysStaged DEF Staging, Untouched
  <2>3. CASE ~Staging /\ ~Turned(p)
    BY <2>1, <2>3, StaysPut DEF Staging, Turned, Queued
  <2>4. CASE Turned(p)
    <3>1. CASE p \notin Active
      BY <2>1, <2>4, <3>1 DEF Good, Right, Exact, Same, Active, Staging, Turned
    <3>2. CASE p \in Active
      <4>1. /\ slot'[p] = slot[p] /\ slot[p] # NoSlot /\ cache' = cache /\ cells' = cells /\ snapshot' = snapshot
            /\ answer' = answer /\ ended' = ended /\ pc' = pc /\ turn' = turn /\ todo' = todo
        BY <2>1, <3>2 DEF Active, backend
      <4>2. /\ Told(p)' = Told(p) /\ (Going(p)' <=> Going(p)) /\ \A m : Has(p, m)' <=> Has(p, m)
        BY <2>1, <3>2, SameIs
      <4>3. Has(p, slot[p].pos)' <=> Has(p, slot[p].pos)
        BY <2>1, <4>1, <4>2 DEF Has, Same
      <4>4. Judged(p)' <=> Judged(p)
        BY <4>1, <4>2, <4>3 DEF Judged, Undo
      <4>5. p \in Active' /\ Turned(p)' /\ ~Staging /\ ~Staging' /\ (Queued(p)' <=> Queued(p)) /\ ~Resting(p)'
        BY <2>4, <3>2, <4>1 DEF Active, Turned, Staging, Queued, Resting
      <4>6. Read(p)' <=> Read(p)
        BY <2>1, <3>2, SameIs
      <4>7. Right(p)'
        BY <2>4, <3>2, <4>1, <4>4, <4>5, <4>6 DEF Good, Right
      <4>8. Sure => Exact(p)'
        BY <2>4, <3>2, <4>1, <4>5 DEF Good, Exact, Resting
      <4> QED
        BY <4>7, <4>8 DEF Good, Sure
    <3> QED
      BY <3>1, <3>2
  <2> QED
    BY <2>2, <2>3, <2>4
<1> QED
  BY <1>1 DEF SharesTrimmed

---------------------------------------------------------------------------

\* The invariant holds at first,
LEMMA CacheInit == Init => CacheInv
<1> SUFFICES ASSUME Init PROVE CacheInv
  OBVIOUS
<1>1. \A q \in Seqs : q \notin Active /\ cells[q] = {} /\ state[q] = <<>> /\ snapshot[q] = <<>>
  BY DEF Init, Active
<1>2. \A q \in Seqs : Good(q)
  BY <1>1 DEF Init, Good, Right, Exact, Staging
<1>3. Transparent
  <2>1. \A r \in Requests : answer[r] = <<>> /\ ended[r] = "none"
    BY DEF Init
  <2>2. DOMAIN <<>> = {}
    OBVIOUS
  <2> QED
    BY <2>1, <2>2 DEF Transparent
<1> QED
  BY <1>2, <1>3 DEF Init, CacheInv, SharesTrimmed

\* and every step keeps it.
LEMMA CacheNext ==
  ASSUME ChoosesTokens, Media = {}, Inv, TypeInv, TypeInv', CacheInv, [Next]_vars
  PROVE  CacheInv'
<1>1. (\A p \in Seqs : Good(p)) /\ SharesTrimmed /\ (Sure => pc # "dead") /\ Transparent
  BY DEF CacheInv
<1>2. ASSUME UNCHANGED <<cache, pc, todo, drafting, slot, turn, backend, answer, ended>>
      PROVE  CacheInv'
  BY <1>1, <1>2, StepStill, TransparentKept DEF CacheInv
<1>3. CASE UNCHANGED vars
  BY <1>2, <1>3 DEF vars, callers
<1>4. CASE Next
  <2>1. UNCHANGED cache
    BY <1>4 DEF Next
  <2>2. CASE TickStart \/ MediaEnd \/ Pass1End \/ ShareEnd \/ Pass2End
    BY <1>1, <2>1, <2>2, StepPasses, TransparentKept DEF CacheInv
  <2>3. ASSUME NEW q \in Seqs, PrefillMedia(q) PROVE CacheInv'
    BY <2>3 DEF PrefillMedia, Unread
  <2>4. ASSUME NEW q \in Seqs,
               StageNext(q) \/ StageReplay(q) \/ WaitReplay(q) \/ SkipNext(q) \/ Share(q) \/ StagePrompt(q)
        PROVE  CacheInv'
    BY <1>1, <2>1, <2>4, StepStaging, TransparentKept DEF CacheInv
  <2>5. CASE Decode
    BY <1>1, <2>1, <2>5, StepDecoding, TransparentKept DEF CacheInv, Sure
  <2>6. ASSUME NEW q \in Seqs, HarvestVerify(q) PROVE CacheInv'
    BY <1>1, <2>1, <2>6, StepVerifying, SaysTransparent DEF CacheInv
  <2>7. CASE \/ \E q \in Seqs : HarvestCancelled(q)
             \/ Trim \/ Rollback \/ RewindFail \/ JudgeEnd \/ JudgeOn \/ HarvestEnd
    BY <1>1, <2>1, <2>7, StepJudging DEF CacheInv
  <2>8. ASSUME NEW r \in Requests, NEW q \in Seqs, Admit(r, q) PROVE CacheInv'
    BY <1>1, <2>1, <2>8, StepAdmitting, TransparentKept DEF CacheInv
  <2>9. ASSUME NEW r \in Requests, Cancel(r) PROVE CacheInv'
    BY <1>2, <2>1, <2>9 DEF Cancel
  <2>10. CASE Terminated
    BY <1>3, <2>10 DEF Terminated
  <2> QED
    BY <1>4, <2>2, <2>3, <2>4, <2>5, <2>6, <2>7, <2>8, <2>9, <2>10
      DEF Next, Tick, ReadMedia, Stage, Prefill, Harvest
<1> QED
  BY <1>3, <1>4

\* What the invariant says between ticks.
LEMMA CacheHolds == ASSUME TypeInv, CacheInv, Sure PROVE CacheHoldsHistory
<1> SUFFICES ASSUME pc = "top", NEW q \in Seqs
             PROVE  IF q \notin Active
                    THEN cells[q] = {} /\ state[q] = <<>> /\ snapshot[q] = <<>>
                    ELSE LET s == slot[q]
                             h == History(s.req) IN
                         /\ cells[q] = CellsFrom(0, SubSeq(h, 1, s.pos))
                         /\ s.primed => s.pos + Len(s.replay) = Len(h) - 1
                         /\ s.replay = SubSeq(h, s.pos + 1, s.pos + Len(s.replay))
                         /\ cache = "rewind" => state[q] = SubSeq(h, 1, s.pos)
  BY DEF CacheHoldsHistory
<1>1. Good(q) /\ Resting(q)
  BY DEF CacheInv, Resting, Staging, Queued, Turned
<1>2. CASE q \notin Active
  BY <1>1, <1>2 DEF Good, Right
<1>3. CASE q \in Active
  <2> DEFINE s == slot[q]
             h == Told(q)
  <2>1. Has(q, s.pos) /\ Idle(q)
    BY <1>1, <1>3 DEF Good, Right, Exact
  <2>2. /\ s.pos \in 0 .. Len(h) /\ cells[q] = CellsFrom(0, SubSeq(h, 1, s.pos))
        /\ cache = "rewind" => state[q] = SubSeq(h, 1, s.pos)
    BY <2>1 DEF Has, Held
  <2>3. h \in Seq(Token) /\ Len(h) \in Nat /\ s.pos \in Nat
    BY <1>3, Facts
  <2>4. CASE s.primed
    <3>1. s.pos + Len(s.replay) = Len(h) - 1 /\ s.replay = SubSeq(h, s.pos + 1, Len(h) - 1)
      BY <2>1, <2>4 DEF Idle, Going
    <3>2. s.replay = SubSeq(h, s.pos + 1, s.pos + Len(s.replay))
      BY <3>1
    <3> QED
      BY <1>3, <2>2, <3>1, <3>2 DEF Told
  <2>5. CASE ~s.primed
    <3>1. s.replay = <<>>
      BY <2>1, <2>5 DEF Idle, Waiting
    <3>2. s.pos + Len(s.replay) = s.pos
      BY <2>3, <3>1
    <3>3. SubSeq(h, s.pos + 1, s.pos) = <<>>
      BY <2>2, <2>3, NoneOf
    <3> QED
      BY <1>3, <2>2, <2>5, <3>1, <3>2, <3>3 DEF Told
  <2> QED
    BY <2>4, <2>5
<1> QED
  BY <1>2, <1>3

\* Without media there is nothing that has to fit.
LEMMA NoMedia == ASSUME Media = {} PROVE MediaFits
BY DEF MediaFits

\* Speculation "must not change what the model is asked to produce"
\* (speculative_test.go:415): whatever the drafter proposes and however a step
\* is chunked, shared, refused, evicted, trimmed or rolled back, every token a
\* caller gets is the one the model chooses after the prompt and the tokens
\* before it, and an answer stops where the model ends it.
THEOREM SpeculationIsTransparent ==
  ASSUME ChoosesTokens, Media = {}
  PROVE  Spec => []Transparent
<1>1. Init => Inv /\ TypeInv /\ CacheInv
  BY InvInit, TypeInit, CacheInit
<1>2. Inv /\ TypeInv /\ CacheInv /\ [Next]_vars => Inv' /\ TypeInv' /\ CacheInv'
  BY InvNext, TypeNext, NoMedia, CacheNext
<1>3. CacheInv => Transparent
  BY DEF CacheInv
<1> QED
  BY <1>1, <1>2, <1>3, PTL DEF Spec

\* What tick and harvest leave in the backend: between two ticks the cache and the
\* recurrent state of a sequence hold the history of its request up to pos and not
\* a cell more, what a rollback dropped waits in replay, and a sequence that
\* finish freed holds nothing.
THEOREM CachesHoldHistory ==
  ASSUME ChoosesTokens, Sure
  PROVE  Spec => []CacheHoldsHistory
<1>1. Init => Inv /\ TypeInv /\ CacheInv
  BY InvInit, TypeInit, CacheInit
<1>2. Inv /\ TypeInv /\ CacheInv /\ [Next]_vars => Inv' /\ TypeInv' /\ CacheInv'
  BY InvNext, TypeNext, NoMedia, CacheNext DEF Sure
<1>3. TypeInv /\ CacheInv => CacheHoldsHistory
  BY CacheHolds
<1> QED
  BY <1>1, <1>2, <1>3, PTL DEF Spec

\* The positions that tick stages, those of a replay and of a rejected draft too,
\* always continue the cache: Decode never refuses a batch, and Run never ends on it.
THEOREM BatchesContinue ==
  ASSUME ChoosesTokens, Sure
  PROVE  Spec => []NeverRefused
<1>1. Init => Inv /\ TypeInv /\ CacheInv
  BY InvInit, TypeInit, CacheInit
<1>2. Inv /\ TypeInv /\ CacheInv /\ [Next]_vars => Inv' /\ TypeInv' /\ CacheInv'
  BY InvNext, TypeNext, NoMedia, CacheNext DEF Sure
<1>3. CacheInv => NeverRefused
  BY DEF CacheInv, NeverRefused
<1> QED
  BY <1>1, <1>2, <1>3, PTL DEF Spec

===============================================================================
