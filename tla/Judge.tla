------------------------------- MODULE Judge -------------------------------
(***************************************************************************)
(* The cross-chunk check (internal/codegraph/judge.go): chunks assert what *)
(* they define and what they use, in any order, and CrossCheck looks for   *)
(* contradictions no chunk could have seen.  Symbols and signatures stand  *)
(* for their normal forms, what norm and squash make of them.              *)
(***************************************************************************)
EXTENDS Integers, FiniteSets

CONSTANTS
  Chunks,     \* 0 .. n - 1: the chunks that were dispatched
  Symbols,    \* may hold "", which a chunk may assert about, too
  Known,      \* the global symbol table
  Arities,    \* 0: not stated
  Sigs,       \* "": not stated
  MaxClaims   \* bound: assertions

VARIABLES claims

JudgeInit == claims = {}

\* A chunk's answer: one more assertion, in no order.
Claim ==
  /\ Cardinality(claims) < MaxClaims
  /\ \E c \in Chunks, s \in Symbols, r \in {"defines", "uses"}, a \in Arities, g \in Sigs :
       claims' = claims \cup {[chunk |-> c, symbol |-> s, role |-> r, arity |-> a, sig |-> g]}

JudgeNext == Claim

---------------------------------------------------------------------------

Counted == {a \in claims : a.symbol # ""}

Defs(s) == {a \in Counted : a.symbol = s /\ a.role = "defines"}
Uses(s) == {a \in Counted : a.symbol = s /\ a.role = "uses"}
symbols == {a.symbol : a \in Counted}

\* Changed: the arity of a definition is not looked at.
sameSig(a, b) == a.sig = b.sig

sameClaim(a, b) == a.arity = b.arity /\ a.sig = b.sig

\* A use against a definition: only what both state can differ.
Contradicts(d, use) ==
  IF use.arity > 0 /\ d.arity > 0 /\ use.arity # d.arity THEN {"arity"}
  ELSE IF use.sig # "" /\ d.sig # "" /\ use.sig # d.sig THEN {"signature"} ELSE {}

\* The definitions that sorting by chunk may leave in front.
First(s) == {d \in Defs(s) : \A e \in Defs(s) : d.chunk <= e.chunk}

\* The kinds of conflict about a symbol, with d[0] in front.
Conflicts(s, d) ==
  (IF \E e \in Defs(s) : ~sameClaim(d, e) THEN {"redefined"} ELSE {})
  \cup UNION {Contradicts(d, u) : u \in Uses(s)}

\* What CrossCheck may find about a symbol.
Findings(s) ==
  IF Defs(s) = {} THEN {{"undefined"}} ELSE {Conflicts(s, d) : d \in First(s)}

NoConflictsFound == \A s \in symbols : {} \in Findings(s)

Silent == {c \in Chunks : \A a \in Counted : a.chunk # c}
Unasserted == Known \ symbols
Covered == Silent = {} /\ Unasserted = {}

---------------------------------------------------------------------------

\* A verdict without conflicts and with complete coverage means that every chunk was
\* judged, every known symbol is defined, no two definitions of a symbol differ and
\* no use differs from any definition in what both state (judge.go:76-97, 141-147).
VerdictMeans ==
  NoConflictsFound =>
    /\ \A a, b \in Counted : a.symbol = b.symbol /\ a.role = "defines" =>
         IF b.role = "defines" THEN a.arity = b.arity /\ a.sig = b.sig
         ELSE Contradicts(a, b) = {}
    /\ Covered => /\ \A s \in Known : Defs(s) # {}
                   /\ \A c \in Chunks : \E a \in claims : a.chunk = c
=============================================================================
