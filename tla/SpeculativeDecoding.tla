------------------------- MODULE SpeculativeDecoding -------------------------
(***************************************************************************)
(* InferenceEngine::complete_speculative (core/src/inference_engine.cpp)   *)
(* and resolve_speculative_acceptance (core/src/speculative.cpp): a draft  *)
(* model guesses up to lookahead tokens, the target model judges all of    *)
(* them in one decode, and the guesses it would have made itself are kept  *)
(* together with the first token of its own.                               *)
(*                                                                         *)
(* Nothing is assumed of the draft model (any guesses may come), of the    *)
(* prompt's length (it may exceed the batch) or of the sign of lookahead,  *)
(* an int which the code converts to a size_t.  llama.cpp aborts the       *)
(* process when a batch is too large for it.                               *)
(***************************************************************************)
EXTENDS Integers, Sequences

CONSTANTS Tokens, Eog, Prompts, Targets, NPredict, BatchSize,
          Lookaheads, \* the values of lookahead
          SizeValues  \* the number of values of a size_t

Contexts == UNION {[1 .. n -> Tokens] : n \in 0 .. BatchSize}

ASSUME TokenAssumption ==
  /\ Eog \subseteq Tokens
  /\ NPredict \in Nat /\ BatchSize \in Nat

ASSUME WidthAssumption == Lookaheads \subseteq Int /\ SizeValues \in Nat

\* A prompt is counted in an int32_t: with an int more it stays a size_t.
ASSUME PromptAssumption ==
  \A p \in Prompts :
    p \in Seq(Tokens) /\ Len(p) >= 1 /\ Len(p) + NPredict < SizeValues

ASSUME TargetAssumption == \A t \in Targets : \A c \in Contexts : t[c] \in Tokens

VARIABLES
  target,    \* the target model
  lookahead, \* the argument of the call
  tokens,    \* tokens_so_far
  accepted,  \* result.accepted_tokens
  draft,     \* draft_tokens of the round
  round,     \* what is left of the accepted tokens of the round
  calls,     \* result.target_decode_calls
  pc

vars == <<target, lookahead, tokens, accepted, draft, round, calls, pc>>

Init ==
  /\ target \in Targets /\ lookahead \in Lookaheads
  /\ tokens \in Prompts
  /\ accepted = 0
  /\ draft = <<>> /\ round = <<>>
  /\ calls = 0
  /\ pc = "round"

-----------------------------------------------------------------------------
LookaheadN == IF lookahead <= NPredict - accepted THEN lookahead ELSE NPredict - accepted

\* static_cast<size_t> of an int.
AsSize(n) == n % SizeValues

\* n_round, a size_t: a negative LookaheadN wraps round.
RoundSize == (Len(tokens) + AsSize(LookaheadN)) % SizeValues

\* Mutant: the guesses are left out of the check.
FitsWithoutGuesses == Len(tokens) <= BatchSize

\* The guard before any decode: context and guesses in one batch.
Fits == RoundSize <= BatchSize

\* A round begins.
Begin ==
  /\ pc = "round" /\ accepted < NPredict
  /\ Fits
  /\ pc' = "context"
  /\ UNCHANGED <<target, lookahead, tokens, accepted, draft, round, calls>>

\* What the round would decode does not fit one batch.
TooLong ==
  /\ pc = "round" /\ accepted < NPredict
  /\ ~Fits
  /\ pc' = "failed"
  /\ UNCHANGED <<target, lookahead, tokens, accepted, draft, round, calls>>

\* What the next call of llama_decode is given: tokens_so_far for the draft
\* model, and with all guesses behind it for the target model.
InBatch == Len(tokens) + Len(draft) <= BatchSize

\* The draft model, cleared, decodes tokens_so_far.
DecodeContext ==
  /\ pc = "context" /\ InBatch
  /\ pc' = "guess"
  /\ UNCHANGED <<target, lookahead, tokens, accepted, draft, round, calls>>

\* The draft model guesses on.
Guess ==
  /\ pc = "guess" /\ LookaheadN >= 0
  /\ draft' \in [1 .. LookaheadN -> Tokens]
  /\ pc' = "verify"
  /\ UNCHANGED <<target, lookahead, tokens, accepted, round, calls>>

\* GGML_ASSERT in llama_decode: the batch is larger than n_batch.
Aborts ==
  /\ pc \in {"context", "verify"} /\ ~InBatch
  /\ pc' = "aborted"
  /\ UNCHANGED <<target, lookahead, tokens, accepted, draft, round, calls>>

\* How many guesses the target agrees with: the longest common prefix.
Agreed(guesses, predictions) ==
  {m \in 0 .. Len(guesses) : \A i \in 1 .. m : guesses[i] = predictions[i]}
MatchLen(guesses, predictions) ==
  CHOOSE m \in Agreed(guesses, predictions) :
    \A n \in Agreed(guesses, predictions) : n <= m

\* Mutant: one guess more than agreed is kept.
ResolveOneMore(guesses, predictions) ==
  LET m == MatchLen(guesses, predictions)
  IN IF m < Len(guesses) THEN SubSeq(guesses, 1, m + 1)
     ELSE Append(guesses, predictions[m + 1])

\* Mutant: nothing of the target's own when a guess was wrong.
ResolveGuessesOnly(guesses, predictions) ==
  SubSeq(guesses, 1, MatchLen(guesses, predictions))

\* resolve_speculative_acceptance: the guesses the target agrees with, and the
\* target's own token behind them.
ResolveAcceptance(guesses, predictions) ==
  LET m == MatchLen(guesses, predictions)
  IN Append(SubSeq(guesses, 1, m), predictions[m + 1])

\* The logits of the verification batch at its j-th position, and the
\* predictions read from them: the first at the last token of tokens_so_far.
Logits(batch, j) == target[SubSeq(batch, 1, j)]

\* Mutant: read one position late.
PredictionsLate ==
  [i \in 1 .. Len(draft) + 1 |->
     Logits(tokens \o draft, IF i <= Len(draft) THEN Len(tokens) + i ELSE Len(tokens) + Len(draft))]

Predictions == [i \in 1 .. Len(draft) + 1 |-> Logits(tokens \o draft, Len(tokens) + i - 1)]

\* The decodes of the target are counted up to one more than RoundsPay allows.
MaxCalls == NPredict + 2

\* The target model, cleared, decodes tokens_so_far and all guesses in one batch.
Verify ==
  /\ pc = "verify" /\ InBatch
  /\ calls' = IF calls < MaxCalls THEN calls + 1 ELSE calls
  /\ round' = ResolveAcceptance(draft, Predictions)
  /\ pc' = "accept"
  /\ UNCHANGED <<target, lookahead, tokens, accepted, draft>>

\* The loop over the accepted tokens, one turn at a time.
Accept ==
  /\ pc = "accept" /\ round # <<>> /\ accepted < NPredict
  /\ Head(round) \notin Eog
  /\ tokens' = Append(tokens, Head(round))
  /\ round' = Tail(round)
  /\ accepted' = accepted + 1
  /\ UNCHANGED <<target, lookahead, draft, calls, pc>>

\* An end-of-generation token ends everything.
HitEog ==
  /\ pc = "accept" /\ round # <<>> /\ accepted < NPredict
  /\ Head(round) \in Eog
  /\ pc' = "done"
  /\ UNCHANGED <<target, lookahead, tokens, accepted, draft, round, calls>>

\* The loop is through, or was left at n_predict.
RoundEnds ==
  /\ pc = "accept"
  /\ round = <<>> \/ accepted >= NPredict
  /\ pc' = "round"
  /\ round' = <<>> /\ draft' = <<>>
  /\ UNCHANGED <<target, lookahead, tokens, accepted, calls>>

Finish ==
  /\ pc = "round" /\ accepted >= NPredict
  /\ pc' = "done"
  /\ UNCHANGED <<target, lookahead, tokens, accepted, draft, round, calls>>

\* llama_decode fails, for the draft or for the target, or reserve of a negative
\* LookaheadN, or a kept token has no text: the function throws.
Throws ==
  /\ accepted < NPredict
  /\ \/ pc \in {"context", "verify"} /\ InBatch
     \/ pc = "guess" /\ LookaheadN # 0
     \/ pc = "accept" /\ round # <<>> /\ Head(round) \notin Eog
  /\ pc' = "failed"
  /\ UNCHANGED <<target, lookahead, tokens, accepted, draft, round, calls>>

Next ==
  \/ Begin \/ TooLong \/ DecodeContext \/ Guess \/ Verify \/ Accept \/ HitEog
  \/ RoundEnds \/ Finish \/ Throws \/ Aborts

Spec == Init /\ [][Next]_vars

(***************************************************************************)
(* One thread runs the loop to its end.                                    *)
(***************************************************************************)
FairSpec == Spec /\ WF_vars(Next)

-----------------------------------------------------------------------------
(***************************************************************************)
(* Every variable holds what the code can put there.                       *)
(***************************************************************************)
TypeOK ==
  /\ target \in Targets /\ lookahead \in Lookaheads
  /\ tokens \in Seq(Tokens) /\ Len(tokens) >= 1
  /\ accepted \in 0 .. NPredict
  /\ draft \in Seq(Tokens)
  /\ round \in Seq(Tokens)
  /\ calls \in Nat
  /\ pc \in {"round", "context", "guess", "verify", "accept", "done", "failed", "aborted"}

(***************************************************************************)
(* A prompt too long for the batch, or a generation that outgrows it, is   *)
(* refused before anything is decoded: the process is never aborted, in no *)
(* round and by neither model.  A negative lookahead is the exception: it  *)
(* wraps in the sum of the guard, and an over-long context passes.         *)
(* (inference_engine.cpp:261-273.)                                         *)
(***************************************************************************)
NeverAborts == pc = "aborted" => lookahead < 0

(***************************************************************************)
(* Whatever the draft guesses, each generated token is the one the target  *)
(* would have picked after all before it, and none of them ends the turn.  *)
(* (speculative.cpp:5, inference_engine.cpp:316-372.)                      *)
(***************************************************************************)
GreedyTokens ==
  \A i \in 1 .. Len(tokens) :
    i > Len(tokens) - accepted
      => tokens[i] = target[SubSeq(tokens, 1, i - 1)] /\ tokens[i] \notin Eog

(***************************************************************************)
(* A round always gains at least one token, or it is the last: the target  *)
(* decodes at most once more than tokens were gained.                      *)
(* (target_decode_calls, inference_engine.cpp:341.)                        *)
(***************************************************************************)
RoundsPay == calls <= accepted + (IF pc \in {"accept", "done", "failed"} THEN 1 ELSE 0)

(***************************************************************************)
(* Speculative decoding implements plain greedy decoding: token for token, *)
(* and when it succeeds, it ends where that ends.  Nothing is said of      *)
(* where it fails: Greedy's Fail is always possible, and speculation needs *)
(* room for the guesses besides.  (complete_speculative against complete.) *)
(***************************************************************************)
Greedy == INSTANCE GreedyDecoding
  WITH generated <- accepted,
       status <- CASE pc = "done" -> "done"
                   [] pc \in {"failed", "aborted"} -> "failed"
                   [] OTHER -> "running"
GreedySpec == Greedy!Spec

(***************************************************************************)
(* It ends.                                                                *)
(***************************************************************************)
Ends == <>(pc \in {"done", "failed", "aborted"})

=============================================================================
