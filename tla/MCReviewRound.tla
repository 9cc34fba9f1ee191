--------------------------- MODULE MCReviewRound ---------------------------
(* spec and one more perspective over three files: small ones fit in one    *)
(* shard, a large one overfills it; two dispatches per perspective.         *)
EXTENDS ReviewRound
MCChain == [p \in {"spec", "security"} |->
              IF p = "spec" THEN <<"litellm", "litellm", "codex">> ELSE <<"codex", "litellm">>]
============================================================================
