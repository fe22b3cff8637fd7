------------------------------- MODULE Digests -------------------------------
(***************************************************************************)
(* How the answers of the chunks become one (internal/vcontext/merge.go).  *)
(* A digest is a function from fields to values.  A value is a number or a *)
(* string, each with the words it prints as, or a list of those.  Values   *)
(* are compared by how they print, which is what the code does.            *)
(***************************************************************************)
EXTENDS Integers, Sequences, SequencesExt, FiniteSets, FiniteSetsExt

Number(n, word) == [kind |-> "number", print |-> <<word>>, n |-> n]
String(words) == [kind |-> "string", print |-> words]
List(items) == [kind |-> "list", items |-> items]

\* fmt.Sprintf("%v"): a list prints its items in brackets and nothing quotes them.
Printed(v) ==
  IF v.kind = "list"
  THEN <<"[">> \o FlattenSeq([i \in DOMAIN v.items |-> v.items[i].print]) \o <<"]">>
  ELSE v.print

\* Of values that print alike the first; print[i] is how the i-th prints.
DistinctBy(print, vals) ==
  LET first(i) == \A j \in 1 .. i - 1 : print[j] # print[i]
  IN [i \in 1 .. Cardinality({j \in DOMAIN vals : first(j)}) |->
        vals[CHOOSE j \in DOMAIN vals :
               first(j) /\ Cardinality({k \in 1 .. j : first(k)}) = i]]

---------------------------------------------------------------------------

\* The values of field k in the order of the chunks.
Gathered(digests, k) ==
  LET with == {d \in digests : k \in DOMAIN d.data}
      upto(d) == {e \in with : e.chunk <= d.chunk}
  IN [i \in 1 .. Cardinality(with) |->
        LET d == CHOOSE e \in with : Cardinality(upto(e)) = i
        IN [chunk |-> d.chunk, v |-> d.data[k]]]

distinctValues(vals) == DistinctBy([i \in DOMAIN vals |-> Printed(vals[i].v)], vals)

Items(v) == IF v.kind = "list" THEN v.items ELSE <<v>>

unionValues(vals) ==
  LET items == FlattenSeq([i \in DOMAIN vals |-> Items(vals[i].v)])
  IN DistinctBy([i \in DOMAIN items |-> Printed(items[i])], items)

Summable(vals) == \A i \in DOMAIN vals : vals[i].v.kind = "number"

sumValues(vals) == FoldLeft(LAMBDA acc, x : acc + x.v.n, 0, vals)

\* Merge. rules may say nothing of a field, which collects it then: the first
\* of the values that differ is shown, and all of them are reported.
Merge(digests, rules) ==
  LET keys == UNION {DOMAIN d.data : d \in digests}
      rule(k) == IF k \in DOMAIN rules THEN rules[k] ELSE "collect"
      vals(k) == Gathered(digests, k)
      differ(k) == rule(k) = "collect" /\ Len(distinctValues(vals(k))) > 1
      merged(k) ==
        CASE rule(k) = "sum" -> sumValues(vals(k))
          [] rule(k) = "union" -> unionValues(vals(k))
          [] rule(k) = "all" -> [i \in DOMAIN vals(k) |-> vals(k)[i].v]
          [] OTHER -> vals(k)[1].v
      ok == \A k \in keys : rule(k) = "sum" => Summable(vals(k))
  IN [ok        |-> ok,
      chunks    |-> Cardinality(digests),
      fields    |-> IF ok THEN [k \in keys |-> merged(k)] ELSE <<>>,
      sources   |-> [k \in keys |-> {d.chunk : d \in {e \in digests : k \in DOMAIN e.data}}],
      conflicts |-> [k \in {j \in keys : differ(j)} |-> distinctValues(vals(k))]]
=============================================================================
