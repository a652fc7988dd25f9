---------------------- MODULE SpeculativeDecoding_proofs ----------------------
(***************************************************************************)
(* What holds of SpeculativeDecoding for every target model, every draft   *)
(* model, every lookahead and every prompt, too long ones included.        *)
(***************************************************************************)
EXTENDS SpeculativeDecoding, SequenceTheorems, FiniteSetTheorems,
        WellFoundedInduction, TLAPS

-----------------------------------------------------------------------------
(***************************************************************************)
(* There is a longest common prefix, and MatchLen is its length.           *)
(***************************************************************************)
LEMMA MatchLenIsMaximal ==
  ASSUME NEW g \in Seq(Tokens), NEW p
  PROVE  /\ MatchLen(g, p) \in 0 .. Len(g)
         /\ \A i \in 1 .. MatchLen(g, p) : g[i] = p[i]
         /\ \A n \in Agreed(g, p) : n <= MatchLen(g, p)
<1> DEFINE n == Len(g)
           Rest(m) == (m + 1) .. n
           T == {Rest(m) : m \in Agreed(g, p)}
<1>1. n \in Nat BY LenProperties
<1>2. 0 \in Agreed(g, p) BY <1>1 DEF Agreed
<1>3. Agreed(g, p) \subseteq 0 .. n BY DEF Agreed
<1>4. IsFiniteSet(1 .. n) BY <1>1, FS_Interval
<1>5. T \subseteq FiniteSubsetsOf(1 .. n)
  <2>1. ASSUME NEW m \in Agreed(g, p) PROVE Rest(m) \subseteq 1 .. n
    BY <1>1, <1>3
  <2> QED BY <2>1, <1>4, FS_Subset DEF FiniteSubsetsOf
<1>6. PICK x \in T : \A y \in T : <<y, x>> \notin StrictSubsetOrdering(1 .. n)
  <2>1. T # {} BY <1>2
  <2> HIDE DEF T
  <2> QED BY <2>1, <1>5, WFMin, FS_StrictSubsetOrderingWellFounded
<1>7. PICK m \in Agreed(g, p) : x = Rest(m) OBVIOUS
<1>8. ASSUME NEW k \in Agreed(g, p), ~ k <= m PROVE FALSE
  <2>1. /\ Rest(k) \subseteq Rest(m) /\ (m + 1) \in Rest(m) /\ (m + 1) \notin Rest(k)
        /\ Rest(m) \subseteq 1 .. n
    BY <1>8, <1>3, <1>1
  <2>2. <<Rest(k), x>> \in StrictSubsetOrdering(1 .. n)
    BY <2>1, <1>7 DEF StrictSubsetOrdering
  <2> QED BY <2>2, <1>6
<1>9. \E k \in Agreed(g, p) : \A j \in Agreed(g, p) : j <= k BY <1>8
<1>10. MatchLen(g, p) \in Agreed(g, p) /\ \A j \in Agreed(g, p) : j <= MatchLen(g, p)
  BY <1>9 DEF MatchLen
<1> QED BY <1>10 DEF Agreed

(***************************************************************************)
(* What resolve_speculative_acceptance returns: one token more than agreed *)
(* on, and every one of them is the target's prediction at its place.      *)
(***************************************************************************)
LEMMA ResolveAcceptanceEffect ==
  ASSUME NEW g \in Seq(Tokens), NEW p \in [1 .. Len(g) + 1 -> Tokens]
  PROVE  LET r == ResolveAcceptance(g, p)
         IN /\ r \in Seq(Tokens)
            /\ Len(r) \in 1 .. Len(g) + 1
            /\ \A i \in 1 .. Len(r) : r[i] = p[i]
            /\ \A i \in 1 .. Len(r) - 1 : r[i] = g[i]
<1> DEFINE m == MatchLen(g, p)
           s == SubSeq(g, 1, m)
<1>1. m \in 0 .. Len(g) /\ \A i \in 1 .. m : g[i] = p[i] BY MatchLenIsMaximal
<1>2. Len(g) \in Nat /\ g \in [1 .. Len(g) -> Tokens] BY LenProperties
<1>3. /\ s \in Seq(Tokens) /\ Len(s) = m
      /\ \A i \in 1 .. m : s[i] = g[i]
  <2> HIDE DEF m
  <2>1. m \in Int /\ 1 \in Int /\ \A i \in 1 .. m : g[i] \in Tokens BY <1>1, <1>2
  <2> QED BY <2>1, <1>1, SubSeqProperties
<1>4. p[m + 1] \in Tokens BY <1>1, <1>2
<1>5. /\ Append(s, p[m + 1]) \in Seq(Tokens) /\ Len(Append(s, p[m + 1])) = m + 1
      /\ \A i \in 1 .. m : Append(s, p[m + 1])[i] = s[i]
      /\ Append(s, p[m + 1])[m + 1] = p[m + 1]
  BY <1>3, <1>4, AppendProperties
<1>6. ResolveAcceptance(g, p) = Append(s, p[m + 1]) BY DEF ResolveAcceptance
<1> HIDE DEF m, s
<1> QED BY <1>1, <1>2, <1>3, <1>5, <1>6

(***************************************************************************)
(* A sequence of tokens no longer than the batch is a context, so that the *)
(* target model has a token to follow it.                                  *)
(***************************************************************************)
LEMMA TargetPicks ==
  ASSUME NEW t \in Targets, NEW s \in Seq(Tokens), Len(s) <= BatchSize
  PROVE  t[s] \in Tokens
<1>1. Len(s) \in 0 .. BatchSize /\ s \in [1 .. Len(s) -> Tokens]
  BY LenProperties, TokenAssumption
<1>2. s \in Contexts BY <1>1 DEF Contexts
<1> QED BY <1>2, TargetAssumption

(***************************************************************************)
(* A prefix of a concatenation and of a sequence with one element more.    *)
(***************************************************************************)
LEMMA PrefixOfConcat ==
  ASSUME NEW s \in Seq(Tokens), NEW t \in Seq(Tokens), NEW n \in 0 .. Len(t)
  PROVE  SubSeq(s \o t, 1, Len(s) + n) = s \o SubSeq(t, 1, n)
<1>1. /\ Len(s) \in Nat /\ Len(t) \in Nat
      /\ s \in [1 .. Len(s) -> Tokens] /\ t \in [1 .. Len(t) -> Tokens]
  BY LenProperties
<1>2. /\ SubSeq(t, 1, n) \in Seq(Tokens) /\ Len(SubSeq(t, 1, n)) = n
      /\ \A i \in 1 .. n : SubSeq(t, 1, n)[i] = t[i]
  <2>1. \A i \in 1 .. n : t[i] \in Tokens BY <1>1
  <2> QED BY <2>1, <1>1, SubSeqProperties
<1>3. /\ s \o t \in Seq(Tokens)
      /\ \A i \in 1 .. Len(s) + Len(t) :
           (s \o t)[i] = IF i <= Len(s) THEN s[i] ELSE t[i - Len(s)]
  BY ConcatProperties
<1>4. /\ SubSeq(s \o t, 1, Len(s) + n) \in Seq(Tokens)
      /\ Len(SubSeq(s \o t, 1, Len(s) + n)) = Len(s) + n
      /\ \A i \in 1 .. Len(s) + n : SubSeq(s \o t, 1, Len(s) + n)[i] = (s \o t)[i]
  <2>1. \A i \in 1 .. Len(s) + n : (s \o t)[i] \in Tokens BY <1>1, <1>3
  <2>2. Len(s) + n \in Int /\ (Len(s) + n) - 1 + 1 = Len(s) + n
        /\ \A i \in 1 .. Len(s) + n : 1 + i - 1 = i
    BY <1>1
  <2>3. /\ SubSeq(s \o t, 1, Len(s) + n) \in Seq(Tokens)
        /\ Len(SubSeq(s \o t, 1, Len(s) + n)) =
             IF 1 <= Len(s) + n THEN (Len(s) + n) - 1 + 1 ELSE 0
        /\ \A i \in 1 .. (Len(s) + n) - 1 + 1 :
             SubSeq(s \o t, 1, Len(s) + n)[i] = (s \o t)[1 + i - 1]
    BY <2>1, <2>2, SubSeqProperties
  <2> QED BY <2>3, <2>2, <1>1
<1>5. /\ s \o SubSeq(t, 1, n) \in Seq(Tokens)
      /\ Len(s \o SubSeq(t, 1, n)) = Len(s) + n
      /\ \A i \in 1 .. Len(s) + n :
           (s \o SubSeq(t, 1, n))[i] = IF i <= Len(s) THEN s[i] ELSE SubSeq(t, 1, n)[i - Len(s)]
  BY <1>2, ConcatProperties
<1>6. \A i \in 1 .. Len(s) + n :
        SubSeq(s \o t, 1, Len(s) + n)[i] = (s \o SubSeq(t, 1, n))[i]
  BY <1>1, <1>2, <1>3, <1>4, <1>5
<1> QED BY <1>4, <1>5, <1>6, SeqEqual

-----------------------------------------------------------------------------
(***************************************************************************)
(* The inductive invariant.  What the guard let through fits the batch     *)
(* when lookahead is not negative, for then its sum does not wrap; the     *)
(* accepted tokens of a round are what the target picks one after the      *)
(* other, and they fit the batch but for the last one; a round that is not *)
(* yet paid for has a token left to keep.                                  *)
(***************************************************************************)
GuardHolds ==
  /\ Len(tokens) - accepted + NPredict < SizeValues
  /\ pc \in {"context", "guess", "verify"} => accepted < NPredict
  /\ pc \in {"round", "context", "guess"} => Len(draft) = 0
  /\ pc \in {"context", "guess"} /\ lookahead >= 0
       => Len(tokens) + LookaheadN <= BatchSize
  /\ pc = "verify" => lookahead >= 0 /\ InBatch

RoundIsGreedy ==
  \A i \in 1 .. Len(round) : round[i] = target[tokens \o SubSeq(round, 1, i - 1)]

RoundFits ==
  pc = "accept" /\ round # <<>> => Len(tokens) + Len(round) <= BatchSize + 1

RoundPaysYet ==
  /\ pc \in {"round", "context", "guess", "verify", "aborted"} => calls <= accepted
  /\ pc = "accept" => calls <= accepted \/ (round # <<>> /\ accepted < NPredict)
  /\ calls <= accepted + 1

IInv ==
  /\ TypeOK /\ NeverAborts /\ GreedyTokens
  /\ GuardHolds /\ RoundIsGreedy /\ RoundFits /\ RoundPaysYet

(***************************************************************************)
(* A prompt is a sequence of tokens.                                       *)
(***************************************************************************)
LEMMA InitSound == Init => IInv
<1> SUFFICES ASSUME Init PROVE IInv
  OBVIOUS
<1>1. tokens \in Seq(Tokens) /\ Len(tokens) >= 1
  BY PromptAssumption DEF Init
<1>2. accepted \in 0 .. NPredict BY TokenAssumption DEF Init
<1>3. TypeOK
  <2>1. draft \in Seq(Tokens) /\ Len(draft) = 0 /\ round \in Seq(Tokens) BY DEF Init
  <2> QED BY <1>1, <1>2, <2>1, TokenAssumption DEF Init, TypeOK
<1>4. GreedyTokens /\ RoundIsGreedy /\ RoundFits
  BY <1>1 DEF Init, GreedyTokens, RoundIsGreedy, RoundFits
<1>5. RoundPaysYet /\ NeverAborts BY DEF Init, RoundPaysYet, NeverAborts
<1>6. GuardHolds
  <2>1. Len(tokens) + NPredict < SizeValues /\ Len(tokens) \in Nat /\ NPredict \in Nat
    BY <1>1, LenProperties, PromptAssumption, TokenAssumption DEF Init
  <2> QED BY <2>1 DEF Init, GuardHolds
<1> QED BY <1>3, <1>4, <1>5, <1>6 DEF IInv

(***************************************************************************)
(* The next token of the round is what greedy decoding picks here.         *)
(***************************************************************************)
LEMMA NextTokenIsGreedy ==
  ASSUME IInv, pc = "accept", round # <<>>
  PROVE  /\ Head(round) = target[tokens] /\ Head(round) \in Tokens
         /\ Len(round) \in Nat \ {0} /\ Len(tokens) <= BatchSize
<1> USE DEF IInv, TypeOK
<1>1. Len(round) \in Nat \ {0} /\ Head(round) = round[1] /\ Head(round) \in Tokens
  BY EmptySeq, HeadTailProperties
<1>2. SubSeq(round, 1, 0) = <<>> BY SubSeqEmpty
<1>3. tokens \o <<>> = tokens BY ConcatEmptySeq
<1>4. round[1] = target[tokens \o SubSeq(round, 1, 0)]
  <2>1. 1 \in 1 .. Len(round) /\ 1 - 1 = 0 BY <1>1
  <2>2. round[1] = target[tokens \o SubSeq(round, 1, 1 - 1)] BY <2>1 DEF RoundIsGreedy
  <2> QED BY <2>1, <2>2
<1>5. Len(tokens) \in Nat BY LenProperties
<1>6. Len(tokens) <= BatchSize BY <1>1, <1>5, TokenAssumption DEF RoundFits
<1> QED BY <1>1, <1>2, <1>3, <1>4, <1>6

(***************************************************************************)
(* What a size_t can hold is not changed by the conversion.                *)
(***************************************************************************)
LEMMA SmallIsItself ==
  ASSUME NEW n \in Nat, NEW s \in Nat, n < s
  PROVE  n % s = n
OBVIOUS

(***************************************************************************)
(* When lookahead is not negative, the guard's sum is what it looks like.  *)
(***************************************************************************)
LEMMA GuardIsExact ==
  ASSUME IInv, accepted < NPredict, lookahead >= 0
  PROVE  LookaheadN \in Nat /\ RoundSize = Len(tokens) + LookaheadN
<1> USE DEF IInv, TypeOK
<1>1. lookahead \in Int /\ NPredict \in Nat /\ SizeValues \in Nat /\ accepted \in Nat
  BY TokenAssumption, WidthAssumption
<1>2. LookaheadN \in Nat /\ LookaheadN <= NPredict - accepted
  BY <1>1 DEF LookaheadN
<1>3. Len(tokens) \in Nat BY LenProperties
<1>4. Len(tokens) + LookaheadN < SizeValues BY <1>1, <1>2, <1>3 DEF GuardHolds
<1> HIDE DEF IInv, TypeOK
<1>5. AsSize(LookaheadN) = LookaheadN
  BY <1>1, <1>2, <1>3, <1>4, SmallIsItself DEF AsSize
<1>6. (Len(tokens) + LookaheadN) % SizeValues = Len(tokens) + LookaheadN
  BY <1>1, <1>2, <1>3, <1>4, SmallIsItself
<1> QED BY <1>2, <1>5, <1>6 DEF RoundSize

(***************************************************************************)
(* Begin keeps the invariant.                                              *)
(***************************************************************************)
LEMMA BeginStep == ASSUME IInv, Begin PROVE IInv'
<1> USE DEF IInv, TypeOK, Begin
<1>1. TypeOK' OBVIOUS
<1>2. GreedyTokens' /\ RoundIsGreedy' /\ RoundFits' /\ RoundPaysYet' /\ NeverAborts'
  BY DEF GreedyTokens, RoundIsGreedy, RoundFits, RoundPaysYet, NeverAborts
<1>3. lookahead >= 0 => Len(tokens) + LookaheadN <= BatchSize
  BY GuardIsExact DEF Fits
<1>4. GuardHolds' BY <1>3 DEF GuardHolds, LookaheadN
<1> QED BY <1>1, <1>2, <1>4

(***************************************************************************)
(* Guess keeps the invariant: it is as many tokens as the guard counted.   *)
(***************************************************************************)
LEMMA GuessStep == ASSUME IInv, Guess PROVE IInv'
<1> USE DEF IInv, TypeOK, Guess
<1>1. LookaheadN \in Nat /\ lookahead >= 0
  BY TokenAssumption, WidthAssumption DEF LookaheadN, GuardHolds
<1>2. draft' \in Seq(Tokens) /\ Len(draft') = LookaheadN BY <1>1
<1>3. TypeOK' BY <1>2
<1>4. GreedyTokens' /\ RoundIsGreedy' /\ RoundFits' /\ RoundPaysYet' /\ NeverAborts'
  BY DEF GreedyTokens, RoundIsGreedy, RoundFits, RoundPaysYet, NeverAborts
<1>5. GuardHolds' BY <1>1, <1>2 DEF GuardHolds, InBatch
<1> QED BY <1>3, <1>4, <1>5

(***************************************************************************)
(* Verify keeps the invariant: the predictions are read at the right       *)
(* positions of the batch, and as far as they are kept, the guesses before *)
(* them are the predictions before them.                                   *)
(***************************************************************************)
LEMMA VerifyStep == ASSUME IInv, Verify PROVE IInv'
<1> USE DEF IInv, TypeOK, Verify
<1> DEFINE p == Predictions
           r == ResolveAcceptance(draft, p)
<1>1. /\ Len(tokens) \in Nat /\ Len(draft) \in Nat
      /\ Len(tokens) + Len(draft) <= BatchSize
  BY LenProperties DEF InBatch
<1>2. ASSUME NEW i \in 1 .. Len(draft) + 1
      PROVE  /\ p[i] = target[tokens \o SubSeq(draft, 1, i - 1)]
             /\ p[i] \in Tokens
  <2>1. i - 1 \in 0 .. Len(draft) /\ Len(tokens) + i - 1 = Len(tokens) + (i - 1)
    BY <1>1
  <2>2. SubSeq(tokens \o draft, 1, Len(tokens) + i - 1) = tokens \o SubSeq(draft, 1, i - 1)
    BY <2>1, PrefixOfConcat
  <2>3. p[i] = target[tokens \o SubSeq(draft, 1, i - 1)]
    BY <2>2 DEF Predictions, Logits
  <2>4. SubSeq(draft, 1, i - 1) \in Seq(Tokens) /\ Len(SubSeq(draft, 1, i - 1)) <= i - 1
    <3>1. \A j \in 1 .. i - 1 : draft[j] \in Tokens BY <2>1, <1>1, ElementOfSeq
    <3> QED BY <3>1, <2>1, SubSeqProperties
  <2>5. /\ tokens \o SubSeq(draft, 1, i - 1) \in Seq(Tokens)
        /\ Len(tokens \o SubSeq(draft, 1, i - 1)) <= BatchSize
    BY <2>1, <2>4, <1>1, ConcatProperties, LenProperties, TokenAssumption
  <2> QED BY <2>3, <2>5, TargetPicks
<1>3. p \in [1 .. Len(draft) + 1 -> Tokens] BY <1>2 DEF Predictions
<1>4. /\ r \in Seq(Tokens) /\ Len(r) \in 1 .. Len(draft) + 1
      /\ \A i \in 1 .. Len(r) : r[i] = p[i]
      /\ \A i \in 1 .. Len(r) - 1 : r[i] = draft[i]
  <2> HIDE DEF p
  <2> QED BY <1>3, ResolveAcceptanceEffect
<1>5. round' = r OBVIOUS
<1> HIDE DEF p, r
<1>6. r # <<>> BY <1>4, EmptySeq
<1>7. TypeOK' BY <1>1, <1>4, <1>5
<1>8. GreedyTokens' /\ NeverAborts' /\ GuardHolds'
  BY DEF GreedyTokens, NeverAborts, GuardHolds
<1>9. RoundIsGreedy'
  <2> SUFFICES ASSUME NEW i \in 1 .. Len(r)
               PROVE  r[i] = target[tokens \o SubSeq(r, 1, i - 1)]
    BY <1>5 DEF RoundIsGreedy
  <2>1. i \in 1 .. Len(draft) + 1 /\ i - 1 \in Int /\ \A j \in 1 .. i - 1 : j \in 1 .. Len(r) - 1
    BY <1>4, <1>1
  <2>2. (\A j \in 1 .. i - 1 : draft[j] \in Tokens) /\ (\A j \in 1 .. i - 1 : r[j] \in Tokens)
    BY <2>1, <1>1, <1>4, ElementOfSeq
  <2>3. /\ SubSeq(r, 1, i - 1) \in Seq(Tokens) /\ SubSeq(draft, 1, i - 1) \in Seq(Tokens)
        /\ Len(SubSeq(r, 1, i - 1)) = Len(SubSeq(draft, 1, i - 1))
        /\ Len(SubSeq(r, 1, i - 1)) <= i - 1
        /\ \A j \in 1 .. i - 1 : SubSeq(r, 1, i - 1)[j] = r[j]
        /\ \A j \in 1 .. i - 1 : SubSeq(draft, 1, i - 1)[j] = draft[j]
    <3>1. /\ SubSeq(r, 1, i - 1) \in Seq(Tokens)
          /\ Len(SubSeq(r, 1, i - 1)) = IF 1 <= i - 1 THEN (i - 1) - 1 + 1 ELSE 0
          /\ \A j \in 1 .. (i - 1) - 1 + 1 : SubSeq(r, 1, i - 1)[j] = r[1 + j - 1]
      BY <2>1, <2>2, SubSeqProperties
    <3>2. /\ SubSeq(draft, 1, i - 1) \in Seq(Tokens)
          /\ Len(SubSeq(draft, 1, i - 1)) = IF 1 <= i - 1 THEN (i - 1) - 1 + 1 ELSE 0
          /\ \A j \in 1 .. (i - 1) - 1 + 1 : SubSeq(draft, 1, i - 1)[j] = draft[1 + j - 1]
      BY <2>1, <2>2, SubSeqProperties
    <3> QED BY <3>1, <3>2, <2>1
  <2>4. \A j \in 1 .. Len(SubSeq(r, 1, i - 1)) : SubSeq(r, 1, i - 1)[j] = SubSeq(draft, 1, i - 1)[j]
    BY <2>3, <2>1, <1>4, LenProperties
  <2>5. SubSeq(r, 1, i - 1) = SubSeq(draft, 1, i - 1)
    BY <2>3, <2>4, SeqEqual
  <2> QED BY <2>1, <2>5, <1>2, <1>4
<1>10. RoundFits' BY <1>1, <1>4, <1>5, TokenAssumption DEF RoundFits
<1>11. RoundPaysYet' BY <1>5, <1>6 DEF RoundPaysYet, GuardHolds
<1> QED BY <1>7, <1>8, <1>9, <1>10, <1>11

(***************************************************************************)
(* Moving the first element of t to the end of s leaves s \o t as it is.   *)
(***************************************************************************)
LEMMA ConcatFirst ==
  ASSUME NEW s \in Seq(Tokens), NEW h \in Tokens, NEW t \in Seq(Tokens)
  PROVE  s \o (<<h>> \o t) = Append(s, h) \o t
<1> DEFINE x == <<h>> \o t
           y == Append(s, h)
<1>1. /\ Len(s) \in Nat /\ Len(t) \in Nat
      /\ <<h>> \in Seq(Tokens) /\ Len(<<h>>) = 1 /\ <<h>>[1] = h
  BY LenProperties
<1>2. /\ x \in Seq(Tokens) /\ Len(x) = 1 + Len(t)
      /\ \A i \in 1 .. 1 + Len(t) : x[i] = IF i <= 1 THEN <<h>>[i] ELSE t[i - 1]
  BY <1>1, ConcatProperties
<1>3. /\ y \in Seq(Tokens) /\ Len(y) = Len(s) + 1
      /\ \A i \in 1 .. Len(s) : y[i] = s[i]
      /\ y[Len(s) + 1] = h
  BY AppendProperties
<1> HIDE DEF x, y
<1>4. /\ s \o x \in Seq(Tokens) /\ Len(s \o x) = Len(s) + Len(x)
      /\ \A i \in 1 .. Len(s) + Len(x) : (s \o x)[i] = IF i <= Len(s) THEN s[i] ELSE x[i - Len(s)]
  BY <1>2, ConcatProperties
<1>5. /\ y \o t \in Seq(Tokens) /\ Len(y \o t) = Len(y) + Len(t)
      /\ \A i \in 1 .. Len(y) + Len(t) : (y \o t)[i] = IF i <= Len(y) THEN y[i] ELSE t[i - Len(y)]
  BY <1>3, ConcatProperties
<1>6. ASSUME NEW i \in 1 .. Len(s) + 1 + Len(t) PROVE (s \o x)[i] = (y \o t)[i]
  BY <1>1, <1>2, <1>3, <1>4, <1>5
<1>7. s \o x = y \o t
  BY <1>1, <1>2, <1>3, <1>4, <1>5, <1>6, SeqEqual
<1> QED BY <1>7 DEF x, y

(***************************************************************************)
(* Accept keeps the invariant: with one token more behind the context, the *)
(* rest of the round is still what the target picks.                       *)
(***************************************************************************)
LEMMA AcceptStep == ASSUME IInv, Accept PROVE IInv'
<1> USE DEF IInv, TypeOK, Accept
<1> DEFINE h == Head(round)
           n == Len(tokens)
<1>1. /\ h = target[tokens] /\ h \in Tokens
      /\ Len(round) \in Nat \ {0} /\ Len(tokens) <= BatchSize
  BY NextTokenIsGreedy
<1>2. /\ tokens' \in Seq(Tokens) /\ Len(tokens') = n + 1 /\ n \in Nat
      /\ \A i \in 1 .. n : tokens'[i] = tokens[i]
      /\ tokens'[n + 1] = h
  BY <1>1, AppendProperties, LenProperties
<1>3. /\ round' \in Seq(Tokens) /\ Len(round') = Len(round) - 1
      /\ \A i \in 1 .. Len(round') : round'[i] = round[i + 1]
  BY HeadTailProperties, LenProperties
<1>4. TypeOK' BY <1>1, <1>2, <1>3, TokenAssumption
<1>5. GreedyTokens'
  <2> SUFFICES ASSUME NEW i \in 1 .. n + 1, i > n - accepted
               PROVE  tokens'[i] = target[SubSeq(tokens', 1, i - 1)] /\ tokens'[i] \notin Eog
    BY <1>2 DEF GreedyTokens
  <2>1. SubSeq(tokens', 1, i - 1) = SubSeq(tokens, 1, i - 1)
    <3>1. i - 1 \in 0 .. n /\ \A j \in 1 .. i - 1 : j \in 1 .. n BY <1>2
    <3>2. /\ \A j \in 1 .. i - 1 : tokens[j] \in Tokens
          /\ \A j \in 1 .. i - 1 : tokens'[j] \in Tokens
      BY <3>1, <1>2, ElementOfSeq
    <3>3. /\ SubSeq(tokens, 1, i - 1) \in Seq(Tokens)
          /\ Len(SubSeq(tokens, 1, i - 1)) = IF 1 <= i - 1 THEN (i - 1) - 1 + 1 ELSE 0
          /\ \A j \in 1 .. (i - 1) - 1 + 1 : SubSeq(tokens, 1, i - 1)[j] = tokens[1 + j - 1]
      BY <3>1, <3>2, SubSeqProperties
    <3>4. /\ SubSeq(tokens', 1, i - 1) \in Seq(Tokens)
          /\ Len(SubSeq(tokens', 1, i - 1)) = IF 1 <= i - 1 THEN (i - 1) - 1 + 1 ELSE 0
          /\ \A j \in 1 .. (i - 1) - 1 + 1 : SubSeq(tokens', 1, i - 1)[j] = tokens'[1 + j - 1]
      BY <3>1, <3>2, SubSeqProperties
    <3>5. \A j \in 1 .. i - 1 : SubSeq(tokens', 1, i - 1)[j] = SubSeq(tokens, 1, i - 1)[j]
      BY <3>1, <3>3, <3>4, <1>2
    <3>6. Len(SubSeq(tokens', 1, i - 1)) = Len(SubSeq(tokens, 1, i - 1))
          /\ \A j \in 1 .. Len(SubSeq(tokens', 1, i - 1)) : j \in 1 .. i - 1
      BY <3>1, <3>3, <3>4
    <3> QED BY <3>3, <3>4, <3>5, <3>6, SeqEqual
  <2>2. CASE i = n + 1
    <3>1. SubSeq(tokens, 1, i - 1) = tokens BY <2>2, <1>2, SubSeqFull
    <3> QED BY <2>1, <2>2, <3>1, <1>1, <1>2
  <2>3. CASE i # n + 1
    <3>1. i \in 1 .. n BY <2>3, <1>2
    <3> QED BY <2>1, <3>1, <1>2 DEF GreedyTokens
  <2> QED BY <2>2, <2>3
<1>6. RoundIsGreedy'
  <2> SUFFICES ASSUME NEW i \in 1 .. Len(round')
               PROVE  round'[i] = target[tokens' \o SubSeq(round', 1, i - 1)]
    BY DEF RoundIsGreedy
  <2>1. /\ i + 1 \in 1 .. Len(round) /\ round'[i] = round[i + 1]
        /\ i \in 1 .. Len(round) /\ 1 \in 1 .. Len(round) /\ (i + 1) - 1 = i
        /\ i \in Int
    BY <1>1, <1>3
  <2>2. round[i + 1] = target[tokens \o SubSeq(round, 1, i)] BY <2>1 DEF RoundIsGreedy
  <2>3. SubSeq(round, 1, i) = <<h>> \o SubSeq(round', 1, i - 1)
    <3>1. SubSeq(round, 1, i) = <<round[1]>> \o SubSeq(round, 1 + 1, i)
      BY <2>1, SubSeqRecursiveFirst
    <3>2. h = round[1] BY HeadTailProperties, <1>1
    <3>3. SubSeq(round, 2, i) = SubSeq(round', 1, i - 1)
      <4>1. \A j \in 1 .. i - 1 : j + 1 \in 1 .. Len(round) /\ j \in 1 .. Len(round')
        BY <2>1, <1>3, <1>1
      <4>2. (\A j \in 2 .. i : round[j] \in Tokens) /\ (\A j \in 1 .. i - 1 : round'[j] \in Tokens)
        BY <2>1, <4>1, <1>3, <1>1, ElementOfSeq
      <4>3. /\ SubSeq(round, 2, i) \in Seq(Tokens)
            /\ Len(SubSeq(round, 2, i)) = IF 2 <= i THEN i - 2 + 1 ELSE 0
            /\ \A j \in 1 .. i - 2 + 1 : SubSeq(round, 2, i)[j] = round[2 + j - 1]
        BY <4>2, <2>1, SubSeqProperties
      <4>4. /\ SubSeq(round', 1, i - 1) \in Seq(Tokens)
            /\ Len(SubSeq(round', 1, i - 1)) = IF 1 <= i - 1 THEN (i - 1) - 1 + 1 ELSE 0
            /\ \A j \in 1 .. (i - 1) - 1 + 1 : SubSeq(round', 1, i - 1)[j] = round'[1 + j - 1]
        BY <4>2, <2>1, SubSeqProperties
      <4>5. Len(SubSeq(round, 2, i)) = Len(SubSeq(round', 1, i - 1))
            /\ Len(SubSeq(round, 2, i)) = i - 1
        BY <4>3, <4>4, <2>1
      <4>6. \A j \in 1 .. i - 1 : SubSeq(round, 2, i)[j] = SubSeq(round', 1, i - 1)[j]
        BY <4>3, <4>4, <4>1, <1>3, <2>1
      <4> QED BY <4>3, <4>4, <4>5, <4>6, SeqEqual
    <3> QED BY <3>1, <3>2, <3>3
  <2>4. SubSeq(round', 1, i - 1) \in Seq(Tokens)
    BY <1>3, <2>1, SubSeqProperties, ElementOfSeq
  <2>5. tokens \o (<<h>> \o SubSeq(round', 1, i - 1)) = tokens' \o SubSeq(round', 1, i - 1)
    BY <1>1, <2>4, ConcatFirst
  <2> QED BY <2>1, <2>2, <2>3, <2>5
<1>7. RoundFits' BY <1>1, <1>2, <1>3, TokenAssumption DEF RoundFits
<1>8. RoundPaysYet' BY <1>4, <1>2, TokenAssumption DEF RoundPaysYet
<1>9. GuardHolds' /\ NeverAborts'
  BY <1>2, TokenAssumption, WidthAssumption DEF GuardHolds, NeverAborts
<1> QED BY <1>4, <1>5, <1>6, <1>7, <1>8, <1>9

(***************************************************************************)
(* Only a context that a negative lookahead let through aborts anything.   *)
(***************************************************************************)
LEMMA AbortsStep == ASSUME IInv, Aborts PROVE IInv'
<1>1. lookahead < 0
  <2>1. /\ lookahead \in Int /\ Len(tokens) \in Nat /\ Len(draft) \in Nat
        /\ BatchSize \in Nat
    BY LenProperties, TokenAssumption, WidthAssumption DEF IInv, TypeOK
  <2>2. pc = "context" /\ ~InBatch BY DEF IInv, GuardHolds, Aborts
  <2>3. accepted < NPredict /\ Len(draft) = 0 BY <2>2 DEF IInv, GuardHolds
  <2>4. Len(tokens) > BatchSize BY <2>1, <2>2, <2>3 DEF InBatch
  <2>5. CASE lookahead >= 0
    <3>1. LookaheadN \in Nat BY <2>3, <2>5, GuardIsExact
    <3>2. Len(tokens) + LookaheadN <= BatchSize BY <2>2, <2>5 DEF IInv, GuardHolds
    <3> QED BY <2>1, <2>4, <3>1, <3>2
  <2> QED BY <2>1, <2>5
<1>2. TypeOK' /\ NeverAborts' BY <1>1 DEF IInv, TypeOK, NeverAborts, Aborts
<1>3. GreedyTokens' /\ GuardHolds' /\ RoundIsGreedy' /\ RoundFits' /\ RoundPaysYet'
  BY DEF IInv, GreedyTokens, GuardHolds, RoundIsGreedy, RoundFits, RoundPaysYet, Aborts
<1> QED BY <1>2, <1>3 DEF IInv

(***************************************************************************)
(* Every step keeps the invariant.                                         *)
(***************************************************************************)
LEMMA StepSound == IInv /\ [Next]_vars => IInv'
<1> SUFFICES ASSUME IInv, [Next]_vars PROVE IInv'
  OBVIOUS
<1> USE DEF IInv, TypeOK, NeverAborts, GreedyTokens, GuardHolds, RoundIsGreedy,
        RoundFits, RoundPaysYet
<1>1. CASE Begin BY <1>1, BeginStep
<1>2. CASE TooLong BY <1>2 DEF TooLong
<1>3. CASE DecodeContext BY <1>3 DEF DecodeContext, LookaheadN
<1>4. CASE Guess BY <1>4, GuessStep
<1>5. CASE Verify BY <1>5, VerifyStep
<1>6. CASE Accept BY <1>6, AcceptStep
<1>7. CASE HitEog BY <1>7 DEF HitEog
<1>8. CASE RoundEnds BY <1>8, TokenAssumption DEF RoundEnds
<1>9. CASE Finish BY <1>9, TokenAssumption DEF Finish
<1>10. CASE Throws BY <1>10 DEF Throws
<1>11. CASE Aborts BY <1>11, AbortsStep
<1>12. CASE UNCHANGED vars BY <1>12 DEF vars, LookaheadN, InBatch
<1> QED BY <1>1, <1>2, <1>3, <1>4, <1>5, <1>6, <1>7, <1>8, <1>9, <1>10, <1>11, <1>12
        DEF Next

(***************************************************************************)
(* The invariant holds in every reachable state.                           *)
(***************************************************************************)
LEMMA AlwaysSound == Spec => []IInv
BY InitSound, StepSound, PTL DEF Spec

-----------------------------------------------------------------------------
(***************************************************************************)
(* Whatever prompt it is given, of whatever length, and whatever the draft *)
(* guesses: unless lookahead is negative, complete_speculative never hands *)
(* llama.cpp more than a batch holds, and the process is not aborted.      *)
(***************************************************************************)
THEOREM NeverAborting == Spec => []NeverAborts
<1>1. IInv => NeverAborts BY DEF IInv
<1> QED BY <1>1, AlwaysSound, PTL

(***************************************************************************)
(* Whatever the draft guesses, every generated token is the target's.      *)
(***************************************************************************)
THEOREM TokensAreGreedy == Spec => []GreedyTokens
<1>1. IInv => GreedyTokens BY DEF IInv
<1> QED BY <1>1, AlwaysSound, PTL

(***************************************************************************)
(* The target decodes at most once per generated token, and once more.     *)
(***************************************************************************)
THEOREM EveryRoundPays == Spec => []RoundsPay
<1>1. IInv => RoundsPay BY DEF IInv, TypeOK, RoundPaysYet, RoundsPay
<1> QED BY <1>1, AlwaysSound, PTL

(***************************************************************************)
(* Speculative decoding implements plain greedy decoding.                  *)
(***************************************************************************)
THEOREM ImplementsGreedy == Spec => GreedySpec
<1>1. Init => Greedy!Init BY DEF Init, Greedy!Init
<1>2. IInv /\ [Next]_vars => [Greedy!Next]_(Greedy!vars)
  <2> SUFFICES ASSUME IInv, [Next]_vars PROVE Greedy!Next \/ UNCHANGED Greedy!vars
    OBVIOUS
  <2> USE DEF Greedy!Next, Greedy!vars
  <2>1. CASE Begin BY <2>1 DEF Begin
  <2>2. CASE TooLong BY <2>2 DEF TooLong, Greedy!Fail
  <2>3. CASE DecodeContext BY <2>3 DEF DecodeContext
  <2>4. CASE Guess BY <2>4 DEF Guess
  <2>5. CASE Verify BY <2>5 DEF Verify
  <2>6. CASE Accept BY <2>6, NextTokenIsGreedy DEF Accept, Greedy!EmitToken
  <2>7. CASE HitEog BY <2>7, NextTokenIsGreedy DEF HitEog, Greedy!Finish
  <2>8. CASE RoundEnds BY <2>8 DEF RoundEnds
  <2>9. CASE Finish BY <2>9 DEF Finish, Greedy!Finish
  <2>10. CASE Throws BY <2>10 DEF Throws, Greedy!Fail
  <2>11. CASE Aborts BY <2>11 DEF Aborts, Greedy!Fail
  <2>12. CASE UNCHANGED vars BY <2>12 DEF vars
  <2> QED BY <2>1, <2>2, <2>3, <2>4, <2>5, <2>6, <2>7, <2>8, <2>9, <2>10, <2>11, <2>12
          DEF Next
<1> QED BY <1>1, <1>2, AlwaysSound, PTL DEF Spec, GreedySpec, Greedy!Spec

=============================================================================
