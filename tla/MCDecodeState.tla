---------------------------- MODULE MCDecodeState ----------------------------
(* Small instances of DecodeState: a model of two tokens and EOS.            *)
EXTENDS DecodeState

CONSTANTS r1, r2, r3

\* A deterministic model whose next token depends on the whole history, its
\* order included, and that ends some answers by itself.
MCTarget(h) ==
  LET mix == FoldLeft(LAMBDA acc, t : (3 * acc + t + 1) % 11, 0, h)
  IN IF mix = 7 THEN 2 ELSE mix % 2

\* r1 and r2 share two tokens, r2's prompt is longer than what is shared.
MCPrompt == [r \in Requests |-> CASE r = r1 -> <<1, 1, 0>>
                                  [] r = r2 -> <<1, 1, 1, 0>>
                                  [] OTHER  -> <<1>>]
MCMaxTokens == [r \in Requests |-> 3]
\* r1 has the room for a replay of two tokens.
MCLong == [r \in Requests |-> IF r = r1 THEN 4 ELSE 2]
=============================================================================
