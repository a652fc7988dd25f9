---------------------------- MODULE GreedyDecoding ----------------------------
(***************************************************************************)
(* InferenceEngine::complete (core/src/inference_engine.cpp): one token    *)
(* per decode, always the target model's greedy choice.  This is also what *)
(* speculative decoding promises to compute.                               *)
(***************************************************************************)
EXTENDS Naturals, Sequences

CONSTANTS
  Tokens,
  Eog,        \* the end-of-generation tokens of the vocabulary
  Prompts,    \* tokenized prompts, longer than BatchSize perhaps
  Targets,    \* models: what the greedy sampler picks after each context
  NPredict,   \* n_predict
  BatchSize   \* n_batch, which is also n_ctx

VARIABLES
  target,     \* the model
  tokens,     \* the prompt and what was generated after it
  generated,  \* n_generated
  status      \* "running", "done" or "failed"

vars == <<target, tokens, generated, status>>

Init ==
  /\ target \in Targets
  /\ tokens \in Prompts
  /\ generated = 0
  /\ status = "running"

\* llama_decode and llama_sampler_sample pick a token that is not the end.
EmitToken ==
  /\ status = "running" /\ generated < NPredict
  /\ Len(tokens) <= BatchSize
  /\ target[tokens] \notin Eog
  /\ tokens' = Append(tokens, target[tokens])
  /\ generated' = generated + 1
  /\ UNCHANGED <<target, status>>

\* The model ends its turn, or n_predict is reached.
Finish ==
  /\ status = "running"
  /\ \/ generated >= NPredict
     \/ Len(tokens) <= BatchSize /\ target[tokens] \in Eog
  /\ status' = "done"
  /\ UNCHANGED <<target, tokens, generated>>

\* The prompt is too long, the context is full, or llama_decode fails for
\* reasons of its own (a remote backend), or a token has no text.
Fail ==
  /\ status = "running"
  /\ status' = "failed"
  /\ UNCHANGED <<target, tokens, generated>>

Next == EmitToken \/ Finish \/ Fail

Spec == Init /\ [][Next]_vars

=============================================================================
