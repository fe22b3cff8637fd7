------------------------------- MODULE Drift -------------------------------
(***************************************************************************)
(* Does the generated source keep the contract of the tier above it        *)
(* (internal/codegraph/signature.go, golang.go)?  Source comes one         *)
(* declaration at a time and may stop anywhere; what was parsed until then *)
(* is compared.  A name is a receiver, "" for none, and an identifier.     *)
(***************************************************************************)
EXTENDS Integers, Sequences, FiniteSets, FiniteSetsExt

CONSTANTS
  Names,     \* {<<receiver, identifier>>}
  Kinds, SigTexts,
  MaxDecls   \* bound: declarations

VARIABLES
  contract, \* Sigs of the tier above: a function on some names
  required, \* the identifiers that were asked for
  source    \* the declarations that were generated: [name, kind, text]

driftVars == <<contract, required, source>>

Signature == [kind : Kinds, text : SigTexts]

DriftInit ==
  /\ \E ns \in SUBSET Names : contract \in [ns -> Signature]
  /\ required \in SUBSET {n[2] : n \in Names}
  /\ source = <<>>

\* The model writes one more declaration.
Declare ==
  /\ Len(source) < MaxDecls
  /\ \E n \in Names, s \in Signature : source' = Append(source, [name |-> n, sig |-> s])
  /\ UNCHANGED <<contract, required>>

DriftNext == Declare

---------------------------------------------------------------------------

\* Extract: of several declarations of a name the last is kept.
Extracted ==
  [n \in {source[i].name : i \in DOMAIN source} |->
     source[Max({i \in DOMAIN source : source[i].name = n})].sig]

\* norm: a method counts under its own name, without the receiver.
Required(n) == n[2] \in required

\* Changed: what is not there is not drift.
Overlooked(n) ==
  IF n \notin DOMAIN Extracted \/ Extracted[n] = contract[n] THEN {} ELSE {"changed"}

\* CheckDrift, about one name of the contract.
DriftOf(n) ==
  IF n \notin DOMAIN Extracted THEN IF Required(n) THEN {"missing"} ELSE {}
  ELSE IF Extracted[n] = contract[n] THEN {}
  ELSE IF contract[n].kind = "type" /\ Extracted[n].kind = "type" /\ ~Required(n)
       THEN {"redeclared"} ELSE {"changed"}

CheckDrift ==
  {d \in (DOMAIN contract) \X {"missing", "changed", "redeclared"} : d[2] \in DriftOf(d[1])}

---------------------------------------------------------------------------

\* Without drift everything that was promised and asked for is there as promised, and
\* whatever the source declared last under a promised name is the promise; a symbol
\* the tier only uses may be absent (signature.go:66-76, 102-110).
DriftMeans ==
  CheckDrift = {} =>
    \A n \in DOMAIN contract :
      /\ Required(n) => \E i \in DOMAIN source : source[i] = [name |-> n, sig |-> contract[n]]
      /\ \A i \in DOMAIN source : source[i].name = n =>
           \E j \in i .. Len(source) : source[j] = [name |-> n, sig |-> contract[n]]
=============================================================================
