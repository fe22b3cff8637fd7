----------------------------- MODULE MCLibraries -----------------------------
(***************************************************************************)
(* Every part around the engine on a small instance of its own.            *)
(***************************************************************************)
EXTENDS Libraries

---------------------------------------------------------------------------
(* Documents of up to sixty-four characters in up to five chunks, streams of *)
(* few characters, digests that disagree in the value, only in its type, or  *)
(* say nothing.                                                              *)

Letters(n) == [i \in 1 .. n |-> "a"]
Phrases == {Letters(16), <<".", " ">>, Letters(4) \o <<"\n", "\n">>, Letters(6) \o <<" ">>}

MCTexts == {FlattenSeq(p) : p \in [1 .. 4 -> Phrases]}
MCPolicies == {[context |-> 18, reserve |-> 1, streams |-> 3, heavy |-> TRUE],
               [context |-> 15, reserve |-> 0, streams |-> 3, heavy |-> FALSE],
               [context |-> 2, reserve |-> 2, streams |-> 3, heavy |-> FALSE]}
MCReplies == {[is |-> "digest", data |-> d] :
                d \in {[f |-> Number(1, "1")], [f |-> String(<<"x">>)], <<>>}}
MCRules == {<<>>, [f |-> "sum"]}
MCSkeletons == {<<"a", "a", ".", " ", "a">>, <<"a">>}

---------------------------------------------------------------------------
(* Up to three chunks over two permits, ids out of order and not dense.      *)

MCBatches == {<<0, 1, 2>>, <<1, 0>>, <<0, 2>>, <<>>, <<1, 1>>, <<2, 0, 1>>}

---------------------------------------------------------------------------
(* Two tokens, patterns of one, a history of four.                           *)

MCPrompts == {<<"x">>, <<"x", "y", "x">>}

---------------------------------------------------------------------------
(* Every graph of four units of three kinds, the first of which may use what *)
(* it provides itself.                                                       *)

MCKinds == <<"type", "test", "impl", "test">>

MCUnitSets == {[i \in 1 .. 4 |-> [provides |-> {i}, requires |-> r[i], kind |-> MCKinds[i]]] :
                 r \in {q \in [1 .. 4 -> SUBSET (1 .. 4)] : \A i \in 2 .. 4 : i \notin q[i]}}

---------------------------------------------------------------------------
(* A grid of up to two stream counts, two contexts and two ways to speculate.*)

Grids(streams, contexts, specs, depths_, residents) ==
  [streams |-> streams, contexts |-> contexts, specs |-> specs, depths |-> depths_,
   residents |-> residents, tokens |-> 2, reps |-> 2]

MCBase == [streams |-> 2, context |-> 12, admit |-> 5, spec |-> "none"]
MCFlags == {Grids(<<3, 1>>, <<>>, <<>>, <<2>>, <<6>>), Grids(<<>>, <<12, 6>>, <<>>, <<3>>, <<>>),
            Grids(<<2>>, <<>>, <<"none", "lookup">>, <<>>, <<12>>)}

---------------------------------------------------------------------------
(* A vocabulary of five, three levels of logits, chains of every kind.       *)

Params(temp, topK, minKeep, lastN, repeat, freq, grammar) ==
  [temp |-> temp, topK |-> topK, minKeep |-> minKeep, lastN |-> lastN, repeat |-> repeat,
   freq |-> freq, presence |-> 0, grammar |-> grammar]

MCLogitLists == [1 .. 5 -> {-1, 1, 3}]
MCMasks == {{1}, {2, 5}, {3, 4}}
MCParamSets ==
  {Params(0, 1, 1, 0, 2, 1, FALSE), Params(0, 1, 1, 1, 2, 0, FALSE),
   Params(0, 0, 1, 2, 1, 1, TRUE), Params(1, 1, 1, 1, 2, 0, FALSE),
   Params(1, 1, 1, 2, 1, 1, FALSE), Params(1, 2, 1, 1, 2, 1, FALSE),
   Params(1, 1, 3, 0, 2, 0, FALSE), Params(1, 0, 1, 1, 2, 0, TRUE),
   Params(1, 1, 1, 0, 1, 0, TRUE), Params(1, 1, 1, 1, 1, -2, FALSE)}

---------------------------------------------------------------------------
(* Two sequences, three requests.                                            *)

MCDefault == [temp |-> 1, topK |-> 1, grammar |-> FALSE]
MCOverrides == {<<>>, [temp |-> 0], [topK |-> 2, grammar |-> TRUE]}

---------------------------------------------------------------------------
(* Three assertions of two chunks, and two declarations of a function and a  *)
(* method of one name.                                                       *)

MCArities == 0 .. 2
MCNames == {<<"", "A">>, <<"R", "A">>}

---------------------------------------------------------------------------
(* Up to three prompts of up to three tokens over batches of one and two.    *)

MCPromptLists ==
  LET short == UNION {[1 .. 2 -> {"x", "y"}], [1 .. 3 -> {"x", "y"}], {<<>>}}
  IN {<<p>> : p \in short} \cup {<<p, q>> : p \in short, q \in short}
     \cup {<<p, q, r>> : p \in {<<"x", "x", "y">>, <<"x", "y">>}, q \in short, r \in short}

---------------------------------------------------------------------------
(* The program's own defaults; up to three streams. Files and cards of few   *)
(* bytes.                                                                    *)

MCManifests ==
  [context : {0, 511, 1024}, streams : 0 .. 3, batch : {0, 2, 6, 15}, admit : {0, 256, 512},
   unified : BOOLEAN, quantized : {FALSE}, flash : {FALSE}, loadMTP : {TRUE},
   spec : {"absent", "none", "lookup", "mtp"}, draft : {0, 1, 4}]
  \cup [context : {512}, streams : {1}, batch : {6}, admit : {0}, unified : {FALSE},
        quantized : BOOLEAN, flash : BOOLEAN, loadMTP : BOOLEAN, spec : {"mtp"}, draft : {1}]
  \cup [context : {1024}, streams : {2}, batch : {6}, admit : {256}, unified : {FALSE},
        quantized : {FALSE}, flash : {FALSE}, loadMTP : {TRUE}, spec : {"lookup", "mtp"},
        draft : {2046, 2047}]

MCShapes == [layers : 1 .. 4, interval : {0, 3}, heads : {1, 2}, width : {4}]
MCStreamCounts == 1 .. 3
===========================================================================
