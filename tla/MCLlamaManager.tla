---------------------------- MODULE MCLlamaManager ----------------------------
(* Instances of LlamaManager for TLC: two chat models, one embedding model.  *)
EXTENDS LlamaManager

CONSTANTS gemma4b, gemma1b, embeddingGemma, typo

TwoChatModels ==
    [s \in Slots |-> IF s = "chat" THEN {gemma4b, gemma1b} ELSE {embeddingGemma}]
=============================================================================
