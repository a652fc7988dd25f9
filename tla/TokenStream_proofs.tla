-------------------------- MODULE TokenStream_proofs --------------------------
(***************************************************************************)
(* What holds of TokenStream for any number of requests, any replies of    *)
(* any length and any way they end.                                        *)
(*                                                                         *)
(* The argument has two halves.  What the node's ResponseWriter has sent   *)
(* is the head, the pieces generated so far and at most one ending         *)
(* (Written); what the coordinator has made of it is a prefix of that, or  *)
(* the chunks of a prefix, or one answer (Replied).  The node only ever    *)
(* adds frames (Grows), so neither half disturbs the other.                *)
(***************************************************************************)
EXTENDS TokenStream, SequenceTheorems, WellFoundedInduction, TLAPS

Writers ==
  [made : BOOLEAN, closed : BOOLEAN, gone : BOOLEAN, pos : Nat, told : BOOLEAN,
   sse : BOOLEAN, json : BOOLEAN, done : BOOLEAN, error : BOOLEAN,
   sent : Seq(Frames)]

(***************************************************************************)
(* What the node has sent for a request q: nothing, one JSON answer, or    *)
(* the head of a stream, a frame for each piece generated, the usage when  *)
(* it was told, and one terminator when the response is over.              *)
(***************************************************************************)
Body(w) == IF w.told THEN w.pos + 2 ELSE w.pos + 1

StreamOf(w, q) ==
  /\ Len(w.sent) = IF w.done \/ w.error THEN Body(w) + 1 ELSE Body(w)
  /\ w.sent[1] = SseHead
  /\ \A i \in 1 .. w.pos : w.sent[i + 1] = Data(q.pieces[i])
  /\ w.told => w.sent[w.pos + 2] = Usage
  /\ w.done => w.sent[Len(w.sent)] = Sentinel
  /\ w.error => w.sent[Len(w.sent)] = Error

Flags(w, q, streams) ==
  /\ w.sse => streams /\ ~w.json
  /\ w.done \/ w.error \/ w.told => w.sse
  /\ ~(w.done /\ w.error)
  /\ w.pos <= Len(q.pieces)
  /\ q.fate = "refuses" => w.pos = 0 /\ ~w.sse
  /\ streams /\ ~w.sse => w.pos = 0
  /\ w.told => w.pos = Len(q.pieces) /\ q.fate = "ends" /\ q.route = "chat"
  /\ w.done => w.pos = Len(q.pieces) /\ q.fate = "ends" /\ (q.route = "chat" => w.told)
  /\ w.error => q.fate = "throws"

Written(w, q, streams) ==
  /\ ~w.made => w = NoConn
  /\ Flags(w, q, streams)
  /\ ~w.sse /\ ~w.json => w.sent = <<>>
  /\ w.json => w.sent = <<Refused>> \/ (w.sent = <<Ok(q.pieces)>> /\ q.fate = "ends")
  /\ w.sse => StreamOf(w, q)

\* A response that is not over has no ending; the handler of one is running.
Open(w) == ~w.json /\ ~w.done /\ ~w.error

\* One step of the node only adds to what it has sent.
Grows(w, v) ==
  /\ v.made = w.made /\ w.pos <= v.pos
  /\ w.sse => v.sse
  /\ w.told => v.told
  /\ Len(w.sent) <= Len(v.sent)
  /\ \A i \in 1 .. Len(w.sent) : v.sent[i] = w.sent[i]

-----------------------------------------------------------------------------
(* The writer. *)

(***************************************************************************)
(* The frames are frames.                                                  *)
(***************************************************************************)
LEMMA FramesTyped ==
  /\ SseHead \in Frames /\ Refused \in Frames /\ BadGateway \in Frames /\ Usage \in Frames
  /\ Error \in Frames /\ Sentinel \in Frames
  /\ Frame("role", <<>>) \in Frames /\ Frame("finish", <<>>) \in Frames
  /\ \A t \in Seq(Pieces) : Ok(t) \in Frames /\ Frame("content", t) \in Frames
  /\ \A p \in Pieces : Data(p) \in Frames
BY DoneIsAPiece
   DEF Frames, Frame, SseHead, Refused, BadGateway, Usage, Error, Sentinel, Data, Ok

(***************************************************************************)
(* A writer with the head sent.                                            *)
(***************************************************************************)
LEMMA WithSent ==
  ASSUME NEW w \in Writers, NEW s \in Seq(Frames),
         NEW v, v = [w EXCEPT !.sse = TRUE, !.sent = s]
  PROVE  v \in Writers /\ v.sent = s /\ v = [w EXCEPT !.sse = TRUE, !.sent = v.sent]
BY DEF Writers

(***************************************************************************)
(* writeChunk on an open response: the head if it is missing, the frame.   *)
(***************************************************************************)
LEMMA WriteFrameEffect ==
  ASSUME NEW w \in Writers, NEW f \in Frames,
         ~w.json, ~w.done, ~w.error, ~w.sse => w.sent = <<>>
  PROVE  LET v == WriteFrame(w, f)
             h == IF w.sse THEN Len(w.sent) ELSE 1
         IN  /\ v \in Writers
             /\ v = [w EXCEPT !.sse = TRUE, !.sent = v.sent]
             /\ Len(v.sent) = h + 1 /\ v.sent[h + 1] = f
             /\ ~w.sse => v.sent[1] = SseHead
             /\ \A i \in 1 .. Len(w.sent) : v.sent[i] = w.sent[i]
<1>1. w.sent \in Seq(Frames) /\ Len(w.sent) \in Nat BY LenProperties DEF Writers
<1>2. SseHead \in Frames BY FramesTyped
<1>3. CASE w.sse
  <2> DEFINE b == Append(w.sent, f)
  <2>1. /\ b \in Seq(Frames) /\ Len(b) = Len(w.sent) + 1 /\ b[Len(w.sent) + 1] = f
        /\ \A i \in 1 .. Len(w.sent) : b[i] = w.sent[i]
    BY <1>1, AppendProperties
  <2>2. WriteFrame(w, f) = [w EXCEPT !.sent = b]
    BY <1>3 DEF WriteFrame, EnsureSseHeadersSent
  <2> HIDE DEF b
  <2>3. WriteFrame(w, f) = [w EXCEPT !.sse = TRUE, !.sent = b]
    BY <1>3, <2>1, <2>2 DEF Writers
  <2>4. /\ WriteFrame(w, f) \in Writers /\ WriteFrame(w, f).sent = b
        /\ WriteFrame(w, f) = [w EXCEPT !.sse = TRUE, !.sent = WriteFrame(w, f).sent]
    BY <2>1, <2>3, WithSent
  <2> QED BY <1>3, <2>1, <2>4
<1>4. CASE ~w.sse
  <2> DEFINE a == Append(w.sent, SseHead)
             b == Append(a, f)
  <2>1. /\ a \in Seq(Frames) /\ Len(a) = 1 /\ a[1] = SseHead /\ Len(w.sent) = 0
    BY <1>1, <1>2, <1>4, AppendProperties, EmptySeq
  <2>2. WriteFrame(w, f) = [w EXCEPT !.sse = TRUE, !.sent = b]
    BY <1>4 DEF WriteFrame, EnsureSseHeadersSent, Writers
  <2>3. b \in Seq(Frames) /\ Len(b) = 2 /\ b[1] = SseHead /\ b[2] = f
    <3> HIDE DEF a
    <3>0. a \in Seq(Frames) /\ f \in Frames BY <2>1
    <3>1. /\ b \in Seq(Frames) /\ Len(b) = Len(a) + 1 /\ b[Len(a) + 1] = f
          /\ \A i \in 1 .. Len(a) : b[i] = a[i]
      BY <3>0, AppendProperties
    <3> QED BY <2>1, <3>1
  <2> HIDE DEF a, b
  <2>4. /\ WriteFrame(w, f) \in Writers /\ WriteFrame(w, f).sent = b
        /\ WriteFrame(w, f) = [w EXCEPT !.sse = TRUE, !.sent = WriteFrame(w, f).sent]
    BY <2>2, <2>3, WithSent
  <2> QED BY <1>4, <2>1, <2>3, <2>4
<1> QED BY <1>3, <1>4

(***************************************************************************)
(* writeDone on an open response.                                          *)
(***************************************************************************)
LEMMA WriteDoneEffect ==
  ASSUME NEW w \in Writers, ~w.json, ~w.done, ~w.error
  PROVE  WriteDone(w) = [WriteFrame(w, Sentinel) EXCEPT !.done = TRUE]
BY DEF WriteDone, WriteFrame, EnsureSseHeadersSent, Writers

(***************************************************************************)
(* writeJsonResponse on a response nothing was sent of.                    *)
(***************************************************************************)
LEMMA WriteJsonEffect ==
  ASSUME NEW w \in Writers, NEW f \in Frames, ~w.sse, ~w.json, w.sent = <<>>
  PROVE  LET v == WriteJsonResponse(w, f)
         IN  v \in Writers /\ v = [w EXCEPT !.json = TRUE, !.sent = <<f>>]
<1>1. Append(<<>>, f) = <<f>> OBVIOUS
<1>2. <<f>> \in Seq(Frames) OBVIOUS
<1> QED BY <1>1, <1>2 DEF WriteJsonResponse, Writers

(***************************************************************************)
(* How long an open stream is.                                             *)
(***************************************************************************)
LEMMA OpenLength ==
  ASSUME NEW w \in Writers, NEW q, StreamOf(w, q), Open(w)
  PROVE  /\ w.told => Len(w.sent) = w.pos + 2
         /\ ~w.told => Len(w.sent) = w.pos + 1
<1>1. Body(w) \in Nat BY DEF Body, Writers
<1>2. Len(w.sent) = Body(w) BY <1>1 DEF StreamOf, Open
<1> QED BY <1>2 DEF Body

\* What a step of the handler makes of a writer.
Advances(w, v, q, streams) == v \in Writers /\ Written(v, q, streams) /\ Grows(w, v)

(***************************************************************************)
(* A frame on an open stream comes right behind what was sent.             *)
(***************************************************************************)
Appended(w, v, q, f) ==
  /\ v \in Writers /\ v.sse /\ Open(v)
  /\ v.made = w.made /\ v.pos = w.pos /\ v.told = w.told /\ v.closed = w.closed
  /\ Len(v.sent) = Body(w) + 1 /\ v.sent[Body(w) + 1] = f
  /\ v.sent[1] = SseHead
  /\ \A i \in 1 .. w.pos : v.sent[i + 1] = Data(q.pieces[i])
  /\ w.told => v.sent[w.pos + 2] = Usage
  /\ Grows(w, v)

LEMMA FrameAppended ==
  ASSUME NEW w \in Writers, NEW q \in Case,
         Written(w, q, TRUE), w.made, Open(w), NEW f \in Frames
  PROVE  Appended(w, WriteFrame(w, f), q, f)
<1> DEFINE v == WriteFrame(w, f)
           h == IF w.sse THEN Len(w.sent) ELSE 1
<1>1. /\ w.pos \in Nat /\ w.sent \in Seq(Frames) /\ Len(w.sent) \in Nat
  BY LenProperties DEF Writers
<1>2. ~w.sse => w.sent = <<>> /\ w.pos = 0 /\ ~w.told BY DEF Written, Flags, Open
<1>3. h = Body(w) /\ Body(w) \in Nat /\ Body(w) >= 1
  <2>1. CASE w.sse
    <3>1. StreamOf(w, q) BY <2>1 DEF Written
    <3> QED BY <1>1, <2>1, <3>1, OpenLength DEF Body
  <2>2. CASE ~w.sse BY <1>2, <2>2 DEF Body
  <2> QED BY <2>1, <2>2
<1>4. /\ v \in Writers
      /\ v = [w EXCEPT !.sse = TRUE, !.sent = v.sent]
      /\ Len(v.sent) = h + 1 /\ v.sent[h + 1] = f
      /\ ~w.sse => v.sent[1] = SseHead
      /\ \A i \in 1 .. Len(w.sent) : v.sent[i] = w.sent[i]
  BY <1>2, WriteFrameEffect DEF Open
<1> HIDE DEF v
<1>5. /\ v.sse /\ Open(v) /\ v.made = w.made /\ v.pos = w.pos /\ v.told = w.told
      /\ v.closed = w.closed
  BY <1>4 DEF Writers, Open
<1>6. Len(w.sent) <= Body(w)
  <2>1. ~w.sse => Len(w.sent) = 0 BY <1>2, EmptySeq
  <2> QED BY <1>1, <1>3, <2>1
<1> HIDE DEF h
<1>7. /\ v.sent[1] = SseHead
      /\ \A i \in 1 .. w.pos : v.sent[i + 1] = Data(q.pieces[i])
      /\ w.told => v.sent[w.pos + 2] = Usage
  <2>1. CASE w.sse
    <3>1. StreamOf(w, q) BY <2>1 DEF Written
    <3>2. Len(w.sent) = Body(w) /\ Body(w) >= w.pos + 1 /\ (w.told => Body(w) = w.pos + 2)
      BY <1>1, <3>1, OpenLength DEF Body
    <3>3. v.sent[1] = w.sent[1] BY <1>1, <1>3, <1>4, <3>2
    <3>4. \A i \in 1 .. w.pos : v.sent[i + 1] = w.sent[i + 1]
      <4>1. \A i \in 1 .. w.pos : i + 1 \in 1 .. Len(w.sent) BY <1>1, <1>3, <3>2
      <4> QED BY <1>4, <4>1
    <3>5. w.told => v.sent[w.pos + 2] = w.sent[w.pos + 2]
      BY <1>1, <1>3, <1>4, <3>2
    <3> QED BY <3>1, <3>3, <3>4, <3>5 DEF StreamOf
  <2>2. CASE ~w.sse BY <1>2, <1>4, <2>2
  <2> QED BY <2>1, <2>2
<1>8. Grows(w, v)
  <2>1. Len(w.sent) <= Len(v.sent) BY <1>1, <1>3, <1>4, <1>6
  <2> QED BY <1>1, <1>4, <1>5, <2>1 DEF Grows
<1> QED BY <1>3, <1>4, <1>5, <1>7, <1>8 DEF Appended, v

(***************************************************************************)
(* A token, streamed or kept.                                              *)
(***************************************************************************)
LEMMA TokenAdvances ==
  ASSUME NEW w \in Writers, NEW q \in Case, NEW streams \in BOOLEAN,
         Written(w, q, streams), w.made, Open(w),
         q.fate # "refuses", w.pos < Len(q.pieces)
  PROVE  LET v == [w EXCEPT !.pos = @ + 1]
             u == IF streams THEN WriteFrame(v, Data(q.pieces[v.pos])) ELSE v
         IN  Advances(w, u, q, streams) /\ Open(u) /\ u.closed = w.closed
<1> DEFINE v == [w EXCEPT !.pos = @ + 1]
           p == q.pieces[w.pos + 1]
           x == WriteFrame(w, Data(p))
           u == [x EXCEPT !.pos = w.pos + 1]
<1>1. /\ w.pos \in Nat /\ q.pieces \in Seq(Pieces) /\ Len(q.pieces) \in Nat
      /\ w.sent \in Seq(Frames) /\ Len(w.sent) \in Nat
      /\ p \in Pieces /\ Data(p) \in Frames
  BY LenProperties, ElementOfSeq, FramesTyped DEF Writers, Case
<1>2. v.pos = w.pos + 1 BY DEF Writers
<1>3. ~w.told /\ Flags(w, q, streams) BY <1>1 DEF Written, Flags
<1>4. CASE ~streams
  <2>1. /\ v \in Writers /\ v.sent = w.sent /\ v.made = w.made
        /\ v.closed = w.closed /\ v.told = FALSE /\ v.sse = w.sse /\ v.json = FALSE
        /\ v.done = FALSE /\ v.error = FALSE
    <3>1. v \in Writers /\ v.sent = w.sent BY <1>1 DEF Writers
    <3>2. /\ v.made = w.made /\ v.closed = w.closed /\ v.told = w.told /\ v.sse = w.sse
          /\ v.json = w.json /\ v.done = w.done /\ v.error = w.error
      BY DEF Writers
    <3>3. w.told = FALSE /\ w.json = FALSE /\ w.done = FALSE /\ w.error = FALSE
      BY <1>3 DEF Writers, Open
    <3> HIDE DEF v
    <3> QED BY <3>1, <3>2, <3>3
  <2> HIDE DEF v
  <2>2. Written(v, q, streams)
    BY <1>1, <1>2, <1>3, <1>4, <2>1 DEF Written, Flags, Open
  <2>3. Grows(w, v) BY <1>1, <1>2, <1>3, <2>1 DEF Grows
  <2> QED BY <1>4, <2>1, <2>2, <2>3 DEF Advances, Open, v
<1>5. CASE streams
  <2>1. Appended(w, x, q, Data(p)) BY <1>1, <1>5, FrameAppended
  <2>2. WriteFrame(v, Data(p)) = u
    BY DEF WriteFrame, EnsureSseHeadersSent, Writers, Open
  <2> HIDE DEF x
  <2>3. /\ u \in Writers /\ u.pos = w.pos + 1 /\ u.made = w.made /\ u.closed = w.closed
        /\ u.told = FALSE /\ u.sse = TRUE /\ u.json = FALSE
        /\ u.done = FALSE /\ u.error = FALSE /\ u.sent = x.sent
    <3>1. /\ x \in Writers /\ x.made = w.made /\ x.closed = w.closed
          /\ x.told = FALSE /\ x.sse = TRUE /\ x.json = FALSE
          /\ x.done = FALSE /\ x.error = FALSE
      BY <1>3, <2>1 DEF Writers, Open, Appended
    <3>2. u \in Writers /\ u.pos = w.pos + 1 /\ u.sent = x.sent
      BY <1>1, <3>1 DEF Writers
    <3>3. /\ u.made = x.made /\ u.closed = x.closed /\ u.told = x.told /\ u.sse = x.sse
          /\ u.json = x.json /\ u.done = x.done /\ u.error = x.error
      BY <3>1 DEF Writers
    <3> HIDE DEF u
    <3> QED BY <3>1, <3>2, <3>3
  <2> HIDE DEF u
  <2>4. Body(w) = w.pos + 1 BY <1>3 DEF Body
  <2>5. StreamOf(u, q)
    <3>1. \A i \in 1 .. w.pos + 1 : u.sent[i + 1] = Data(q.pieces[i])
      <4> TAKE i \in 1 .. w.pos + 1
      <4>1. CASE i = w.pos + 1 BY <1>1, <2>1, <2>3, <2>4, <4>1 DEF Appended
      <4>2. CASE i # w.pos + 1
        <5>1. i \in 1 .. w.pos BY <1>1, <4>2
        <5> QED BY <2>1, <2>3, <5>1 DEF Appended
      <4> QED BY <4>1, <4>2
    <3>2. Body(u) = w.pos + 2 BY <1>1, <2>3 DEF Body
    <3>3. Len(u.sent) = w.pos + 2 /\ u.sent[1] = SseHead
      BY <1>1, <2>1, <2>3, <2>4 DEF Appended
    <3> QED BY <1>1, <2>3, <3>1, <3>2, <3>3 DEF StreamOf
  <2>6. Written(u, q, streams)
    BY <1>1, <1>3, <1>5, <2>3, <2>5 DEF Written, Flags
  <2>7. Grows(w, u) BY <1>1, <1>3, <2>1, <2>3 DEF Grows, Appended
  <2> QED BY <1>2, <1>5, <2>2, <2>3, <2>6, <2>7 DEF Advances, Open
<1> QED BY <1>4, <1>5

(***************************************************************************)
(* The usage frame.                                                        *)
(***************************************************************************)
LEMMA UsageAdvances ==
  ASSUME NEW w \in Writers, NEW q \in Case, NEW streams \in BOOLEAN,
         Written(w, q, streams), w.made, Open(w), streams, ~w.told,
         w.pos = Len(q.pieces), q.fate = "ends", q.route = "chat"
  PROVE  LET u == [WriteFrame(w, Usage) EXCEPT !.told = TRUE]
         IN  Advances(w, u, q, streams) /\ Open(u) /\ u.closed = w.closed
<1> DEFINE v == WriteFrame(w, Usage)
           u == [v EXCEPT !.told = TRUE]
<1>1. w.pos \in Nat BY DEF Writers
<1>2. Appended(w, v, q, Usage) BY FramesTyped, FrameAppended
<1> HIDE DEF v
<1>3. /\ u \in Writers /\ u.pos = w.pos /\ u.made = w.made /\ u.closed = w.closed
      /\ u.told = TRUE /\ u.sse = TRUE /\ u.json = FALSE
      /\ u.done = FALSE /\ u.error = FALSE /\ u.sent = v.sent
  BY <1>2 DEF Writers, Open, Appended
<1> HIDE DEF u
<1>4. Flags(w, q, streams) BY DEF Written
<1>5. Body(w) = w.pos + 1 /\ Body(u) = w.pos + 2 BY <1>1, <1>3 DEF Body
<1>6. StreamOf(u, q)
  <2>1. /\ Len(u.sent) = w.pos + 2 /\ u.sent[w.pos + 2] = Usage /\ u.sent[1] = SseHead
        /\ \A i \in 1 .. w.pos : u.sent[i + 1] = Data(q.pieces[i])
    BY <1>1, <1>2, <1>3, <1>5 DEF Appended
  <2>2. ~u.done /\ ~u.error /\ u.pos = w.pos BY <1>3
  <2>3. Len(u.sent) = Body(u) BY <1>5, <2>1
  <2> QED BY <2>1, <2>2, <2>3 DEF StreamOf
<1>7. Written(u, q, streams) BY <1>1, <1>3, <1>4, <1>6 DEF Written, Flags
<1>8. Grows(w, u) BY <1>1, <1>2, <1>3 DEF Grows, Appended
<1> QED BY <1>3, <1>7, <1>8 DEF Advances, Open, u, v

(***************************************************************************)
(* The sentinel of a stream that came to its end.                          *)
(***************************************************************************)
LEMMA DoneAdvances ==
  ASSUME NEW w \in Writers, NEW q \in Case, NEW streams \in BOOLEAN,
         Written(w, q, streams), w.made, Open(w), streams,
         w.pos = Len(q.pieces), q.fate = "ends", q.route = "chat" => w.told
  PROVE  Advances(w, WriteDone(w), q, streams)
<1> DEFINE v == WriteFrame(w, Sentinel)
           u == [v EXCEPT !.done = TRUE]
<1>1. w.pos \in Nat /\ w.told \in BOOLEAN BY DEF Writers
<1>2. WriteDone(w) = u BY WriteDoneEffect DEF Open
<1>3. Appended(w, v, q, Sentinel) BY FramesTyped, FrameAppended
<1> HIDE DEF v
<1>4. /\ u \in Writers /\ u.pos = w.pos /\ u.made = w.made
      /\ u.told = w.told /\ u.sse = TRUE /\ u.json = FALSE
      /\ u.done = TRUE /\ u.error = FALSE /\ u.sent = v.sent
  BY <1>3 DEF Writers, Open, Appended
<1> HIDE DEF u
<1>5. Flags(w, q, streams) BY DEF Written
<1>6. Body(u) = Body(w) /\ Body(w) \in Nat BY <1>1, <1>4 DEF Body
<1>7. StreamOf(u, q) BY <1>1, <1>3, <1>4, <1>6 DEF StreamOf, Appended
<1>8. Written(u, q, streams) BY <1>1, <1>4, <1>5, <1>7 DEF Written, Flags
<1>9. Grows(w, u) BY <1>1, <1>3, <1>4 DEF Grows, Appended
<1> QED BY <1>2, <1>4, <1>8, <1>9 DEF Advances

(***************************************************************************)
(* One JSON answer, and no sentinel behind it.                             *)
(***************************************************************************)
LEMMA JsonAdvances ==
  ASSUME NEW w \in Writers, NEW q \in Case, NEW streams \in BOOLEAN,
         Written(w, q, streams), w.made, Open(w), ~w.sse,
         NEW f, f = Refused \/ (f = Ok(q.pieces) /\ q.fate = "ends")
  PROVE  LET v == WriteJsonResponse(w, f)
         IN  Advances(w, v, q, streams) /\ WriteDone(v) = v
<1> DEFINE v == WriteJsonResponse(w, f)
<1>1. f \in Frames BY FramesTyped DEF Case
<1>2. w.sent = <<>> /\ w.pos \in Nat BY DEF Written, Open, Writers
<1>3. v \in Writers /\ v = [w EXCEPT !.json = TRUE, !.sent = <<f>>]
  BY <1>1, <1>2, WriteJsonEffect DEF Open
<1> HIDE DEF v
<1>4. /\ v.pos = w.pos /\ v.made = w.made /\ v.told = w.told /\ v.sse = w.sse
      /\ v.json = TRUE /\ v.done = FALSE /\ v.error = FALSE /\ v.sent = <<f>>
  BY <1>3 DEF Writers, Open
<1>5. Written(v, q, streams) BY <1>4 DEF Written, Flags
<1>6. Grows(w, v) BY <1>2, <1>4 DEF Grows
<1>7. WriteDone(v) = v BY <1>4 DEF WriteDone
<1> QED BY <1>3, <1>5, <1>6, <1>7 DEF Advances, v

(***************************************************************************)
(* writeError: one JSON answer, or the terminator of the stream.           *)
(***************************************************************************)
LEMMA ErrorAdvances ==
  ASSUME NEW w \in Writers, NEW q \in Case, NEW streams \in BOOLEAN,
         Written(w, q, streams), w.made, Open(w), q.fate = "throws"
  PROVE  Advances(w, WriteError(w), q, streams)
<1>1. CASE ~w.sse
  <2>1. WriteError(w) = WriteJsonResponse(w, Refused) BY <1>1 DEF WriteError, Open
  <2> QED BY <1>1, <2>1, JsonAdvances
<1>2. CASE w.sse
  <2> DEFINE v == WriteFrame(w, Error)
             u == [v EXCEPT !.error = TRUE]
  <2>1. w.pos \in Nat BY DEF Writers
  <2>2. WriteError(w) = u
    BY <1>2 DEF WriteError, WriteFrame, EnsureSseHeadersSent, Open, Writers
  <2>3. Flags(w, q, streams) BY DEF Written
  <2>4. streams = TRUE /\ ~w.told BY <1>2, <2>3 DEF Flags
  <2>5. Appended(w, v, q, Error) BY <2>4, FramesTyped, FrameAppended
  <2> HIDE DEF v
  <2>6. /\ u \in Writers /\ u.pos = w.pos /\ u.made = w.made
        /\ u.told = FALSE /\ u.sse = TRUE /\ u.json = FALSE
        /\ u.done = FALSE /\ u.error = TRUE /\ u.sent = v.sent
    BY <2>4, <2>5 DEF Writers, Open, Appended
  <2> HIDE DEF u
  <2>7. Body(u) = w.pos + 1 /\ Body(w) = w.pos + 1 BY <2>1, <2>4, <2>6 DEF Body
  <2>8. StreamOf(u, q) BY <2>1, <2>5, <2>6, <2>7 DEF StreamOf, Appended
  <2>9. Written(u, q, streams) BY <2>3, <2>4, <2>6, <2>8 DEF Written, Flags
  <2>10. Grows(w, u) BY <2>1, <2>4, <2>5, <2>6 DEF Grows, Appended
  <2> QED BY <2>2, <2>6, <2>9, <2>10 DEF Advances
<1> QED BY <1>1, <1>2

(***************************************************************************)
(* A connection that is closed, or left by the coordinator, keeps what was *)
(* sent on it.                                                             *)
(***************************************************************************)
LEMMA ClosedAdvances ==
  ASSUME NEW w \in Writers, NEW v \in Writers, NEW q \in Case, NEW streams \in BOOLEAN,
         Advances(w, v, q, streams), v.made
  PROVE  Advances(w, Closed(v), q, streams) /\ Closed(v).closed
<1> DEFINE u == Closed(v)
<1>1. /\ u \in Writers /\ u.made = v.made /\ u.pos = v.pos /\ u.told = v.told
      /\ u.sse = v.sse /\ u.json = v.json /\ u.done = v.done /\ u.error = v.error
      /\ u.sent = v.sent /\ u.closed
  BY DEF Writers, Closed
<1> HIDE DEF u
<1>2. Written(u, q, streams)
  <2>1. Flags(v, q, streams) /\ Written(v, q, streams) BY DEF Advances, Written
  <2>2. Flags(u, q, streams) BY <1>1, <2>1 DEF Flags
  <2>3. v.sse => StreamOf(u, q)
    <3>1. Body(u) = Body(v) BY <1>1 DEF Body
    <3> QED BY <1>1, <2>1, <3>1 DEF Written, StreamOf
  <2> QED BY <1>1, <2>1, <2>2, <2>3 DEF Written
<1>3. Grows(w, u) BY <1>1 DEF Advances, Grows
<1> QED BY <1>1, <1>2, <1>3 DEF Advances, u

-----------------------------------------------------------------------------
(* The reply. *)

(***************************************************************************)
(* What the coordinator has sent a client, of the first n frames of the    *)
(* node's answer.  /generate relays them as they are.  Chat completions    *)
(* send a head of their own, k chunks of text and in the end a terminator; *)
(* the usage frame is read and not sent.                                   *)
(***************************************************************************)
Relays(a, q, w, n) ==
  /\ q.route = "generate" /\ q.stream /\ w.sse
  /\ n \in 1 .. Len(w.sent) /\ Len(a) = n
  /\ \A i \in 1 .. n : a[i] = w.sent[i]

Chunks(a, q, k) ==
  /\ q.route = "chat" /\ q.stream /\ k \in 0 .. Len(q.pieces)
  /\ a[1] = SseHead /\ a[2] = Frame("role", <<>>)
  /\ \A i \in 1 .. k : a[i + 2] = Frame("content", <<q.pieces[i]>>) /\ q.pieces[i] # Done

Chatting(a, q, w, n) ==
  \E k \in Nat :
    /\ Chunks(a, q, k) /\ Len(a) = k + 2 /\ k <= w.pos /\ w.sse
    /\ n = k + 1 \/ (n = k + 2 /\ w.told /\ k = w.pos)

Finished(a, q, k) ==
  /\ Len(a) = k + 4 /\ a[k + 3] = Frame("finish", <<>>) /\ a[k + 4] = Sentinel
  /\ IF k = Len(q.pieces) THEN q.fate = "ends" ELSE q.pieces[k + 1] = Done

Chatted(a, q) ==
  \E k \in Nat :
    /\ Chunks(a, q, k)
    /\ \/ Len(a) = k + 2
       \/ Len(a) = k + 3 /\ a[k + 3] = Error
       \/ Finished(a, q, k)

Answered(a, q, w, n, mark) ==
  \/ a = <<Refused>>
  \/ a = <<BadGateway>> /\ (q.route = "generate" => mark)
  \/ a = <<Ok(q.pieces)>> /\ q.fate = "ends" /\ ~q.stream
  \/ Relays(a, q, w, n)
  \/ Chatted(a, q)

Replied(a, q, w, n, stage, mark) ==
  /\ stage \in {"gate", "ready", "fetch"} => a = <<>> /\ n = 0
  /\ stage \in {"gate", "ready"} => ~w.made
  /\ stage \in {"fetch", "relay"} => w.made
  /\ stage = "relay" => Relays(a, q, w, n) \/ Chatting(a, q, w, n)
  /\ stage = "ended" => Answered(a, q, w, n, mark)

(***************************************************************************)
(* One frame more, two frames more, none.                                  *)
(***************************************************************************)
LEMMA OneFrame ==
  ASSUME NEW a \in Seq(Frames), NEW f \in Frames
  PROVE  /\ a \o <<f>> \in Seq(Frames) /\ Len(a \o <<f>>) = Len(a) + 1
         /\ (a \o <<f>>)[Len(a) + 1] = f
         /\ \A i \in 1 .. Len(a) : (a \o <<f>>)[i] = a[i]
<1>1. a \o <<f>> = Append(a, f) BY AppendIsConcat
<1> QED BY <1>1, AppendProperties

LEMMA TwoFrames ==
  ASSUME NEW a \in Seq(Frames), NEW f \in Frames, NEW g \in Frames
  PROVE  /\ a \o <<f, g>> \in Seq(Frames) /\ Len(a \o <<f, g>>) = Len(a) + 2
         /\ (a \o <<f, g>>)[Len(a) + 1] = f /\ (a \o <<f, g>>)[Len(a) + 2] = g
         /\ \A i \in 1 .. Len(a) : (a \o <<f, g>>)[i] = a[i]
<1> DEFINE t == <<f, g>>
<1>1. t \in Seq(Frames) /\ Len(t) = 2 /\ t[1] = f /\ t[2] = g /\ Len(a) \in Nat
  BY LenProperties
<1> HIDE DEF t
<1>2. /\ a \o t \in Seq(Frames) /\ Len(a \o t) = Len(a) + Len(t)
      /\ \A i \in 1 .. Len(a) + Len(t) : (a \o t)[i] = IF i <= Len(a) THEN a[i] ELSE t[i - Len(a)]
  BY <1>1, ConcatProperties
<1> QED BY <1>1, <1>2 DEF t

(***************************************************************************)
(* The node goes on: nothing that was sent to the client becomes wrong.    *)
(***************************************************************************)
LEMMA RepliedStays ==
  ASSUME NEW w \in Writers, NEW v \in Writers, NEW q \in Case, NEW streams \in BOOLEAN,
         Written(w, q, streams), Written(v, q, streams), Grows(w, v),
         NEW a, NEW n \in Nat, NEW stage, NEW mark, Replied(a, q, w, n, stage, mark)
  PROVE  Replied(a, q, v, n, stage, mark)
<1>1. /\ Len(w.sent) \in Nat /\ Len(v.sent) \in Nat /\ Len(q.pieces) \in Nat
      /\ w.pos \in Nat /\ v.pos \in Nat
  BY LenProperties DEF Writers, Case
<1>2. Relays(a, q, w, n) => Relays(a, q, v, n)
  BY <1>1 DEF Relays, Grows
<1>3. Chatting(a, q, w, n) => Chatting(a, q, v, n)
  <2> SUFFICES ASSUME NEW k \in Nat,
                      Chunks(a, q, k) /\ Len(a) = k + 2 /\ k <= w.pos /\ w.sse,
                      n = k + 1 \/ (n = k + 2 /\ w.told /\ k = w.pos)
               PROVE  Chatting(a, q, v, n)
    BY DEF Chatting
  <2>1. k <= v.pos /\ v.sse BY <1>1 DEF Grows
  <2>2. w.told => v.told /\ v.pos = w.pos
    BY DEF Grows, Written, Flags
  <2> QED BY <2>1, <2>2 DEF Chatting
<1> QED BY <1>2, <1>3 DEF Replied, Answered, Grows

(***************************************************************************)
(* /generate relays the next frame.                                        *)
(***************************************************************************)
LEMMA RelaysNext ==
  ASSUME NEW a \in Seq(Frames), NEW q, NEW w \in Writers, NEW n \in Nat,
         Relays(a, q, w, n), n < Len(w.sent)
  PROVE  Relays(a \o <<w.sent[n + 1]>>, q, w, n + 1)
<1> DEFINE f == w.sent[n + 1]
           b == a \o <<f>>
<1>1. Len(w.sent) \in Nat /\ w.sent \in Seq(Frames) BY LenProperties DEF Writers
<1>2. f \in Frames BY <1>1, ElementOfSeq
<1>3. /\ Len(b) = Len(a) + 1 /\ b[Len(a) + 1] = f
      /\ \A i \in 1 .. Len(a) : b[i] = a[i]
  BY <1>2, OneFrame
<1> HIDE DEF b
<1>4. Len(a) = n /\ n >= 1 BY DEF Relays
<1>5. \A i \in 1 .. n + 1 : b[i] = w.sent[i]
  <2> TAKE i \in 1 .. n + 1
  <2>1. CASE i = n + 1 BY <1>3, <1>4, <2>1
  <2>2. CASE i # n + 1 BY <1>3, <1>4, <2>2 DEF Relays
  <2> QED BY <2>1, <2>2
<1> QED BY <1>1, <1>3, <1>4, <1>5 DEF Relays, b

(***************************************************************************)
(* The frame chat completions read next: a piece, the usage behind the     *)
(* last piece, or the ending.                                              *)
(***************************************************************************)
LEMMA ChatReads ==
  ASSUME NEW q \in Case, NEW w \in Writers, NEW streams \in BOOLEAN, Written(w, q, streams),
         w.sse, q.route = "chat", NEW k \in Nat, k <= w.pos, NEW n \in Nat,
         n = k + 1 \/ (n = k + 2 /\ w.told /\ k = w.pos),
         n < Len(w.sent)
  PROVE  LET f == w.sent[n + 1]
         IN  \/ n = k + 1 /\ k < w.pos /\ f = Data(q.pieces[k + 1])
             \/ n = k + 1 /\ k = w.pos /\ w.told /\ f = Usage
             \/ f = Error
             \/ f = Sentinel /\ k = Len(q.pieces) /\ q.fate = "ends"
<1>1. w.pos \in Nat /\ Len(w.sent) \in Nat /\ Len(q.pieces) \in Nat
  BY LenProperties DEF Writers, Case
<1>2. StreamOf(w, q) /\ Flags(w, q, streams) BY DEF Written
<1>3. CASE n = k + 1 /\ k < w.pos
  <2>1. k + 1 \in 1 .. w.pos /\ n + 1 = (k + 1) + 1 BY <1>1, <1>3
  <2> QED BY <1>2, <1>3, <2>1 DEF StreamOf
<1>4. CASE n = k + 1 /\ k = w.pos /\ w.told
  BY <1>2, <1>4 DEF StreamOf
<1>5. CASE n = k + 1 /\ k = w.pos /\ ~w.told
  <2>1. Body(w) = w.pos + 1 BY <1>5 DEF Body
  <2>2. (w.done \/ w.error) /\ Len(w.sent) = n + 1 BY <1>1, <1>2, <1>5, <2>1 DEF StreamOf
  <2>3. ~w.done BY <1>2, <1>5 DEF Flags
  <2> QED BY <1>2, <2>2, <2>3 DEF StreamOf
<1>6. CASE n = k + 2 /\ w.told /\ k = w.pos
  <2>1. Body(w) = w.pos + 2 BY <1>6 DEF Body
  <2>2. (w.done \/ w.error) /\ Len(w.sent) = n + 1 BY <1>1, <1>2, <1>6, <2>1 DEF StreamOf
  <2> QED BY <1>2, <1>6, <2>2 DEF StreamOf, Flags
<1> QED BY <1>1, <1>3, <1>4, <1>5, <1>6

(***************************************************************************)
(* Chat completions make of it a chunk, nothing, or their own ending.      *)
(***************************************************************************)
LEMMA ChatsNext ==
  ASSUME NEW a \in Seq(Frames), NEW q \in Case, NEW w \in Writers, NEW streams \in BOOLEAN,
         Written(w, q, streams), NEW n \in Nat, Chatting(a, q, w, n), n < Len(w.sent)
  PROVE  LET f == w.sent[n + 1]
         IN  /\ f = Sentinel => Chatted(a \o <<Frame("finish", <<>>), Sentinel>>, q)
             /\ f.event = "error" => Chatted(a \o <<Error>>, q)
             /\ f # Sentinel /\ f.event = "usage" => Chatting(a \o <<>>, q, w, n + 1)
             /\ f # Sentinel /\ f.event \notin {"error", "usage"} =>
                  Chatting(a \o <<Frame("content", f.data)>>, q, w, n + 1)
<1> DEFINE f == w.sent[n + 1]
<1>1. PICK k \in Nat :
        /\ Chunks(a, q, k) /\ Len(a) = k + 2 /\ k <= w.pos /\ w.sse
        /\ n = k + 1 \/ (n = k + 2 /\ w.told /\ k = w.pos)
  BY DEF Chatting
<1>2. /\ w.pos \in Nat /\ Len(w.sent) \in Nat /\ Len(q.pieces) \in Nat
      /\ w.pos <= Len(q.pieces) /\ q.pieces \in Seq(Pieces)
  BY LenProperties DEF Writers, Case, Written, Flags
<1>3. q.route = "chat" /\ k <= Len(q.pieces) BY <1>1 DEF Chunks
<1>4. \/ n = k + 1 /\ k < w.pos /\ f = Data(q.pieces[k + 1])
      \/ n = k + 1 /\ k = w.pos /\ w.told /\ f = Usage
      \/ f = Error
      \/ f = Sentinel /\ k = Len(q.pieces) /\ q.fate = "ends"
  BY <1>1, <1>3, ChatReads
<1> HIDE DEF f
<1>5. /\ Usage.event = "usage" /\ Error.event = "error" /\ Sentinel.event = "data"
      /\ \A p : Data(p).event = "data" /\ Data(p).data = <<p>>
      /\ \A p : Data(p) = Sentinel => p = Done
  BY DEF Usage, Error, Sentinel, Data, Frame
<1>6. ASSUME f = Sentinel
      PROVE  Chatted(a \o <<Frame("finish", <<>>), Sentinel>>, q)
  <2> DEFINE b == a \o <<Frame("finish", <<>>), Sentinel>>
  <2>1. IF k = Len(q.pieces) THEN q.fate = "ends" ELSE q.pieces[k + 1] = Done
    BY <1>2, <1>4, <1>5, <1>6
  <2>2. /\ Len(b) = Len(a) + 2 /\ b[Len(a) + 1] = Frame("finish", <<>>)
        /\ b[Len(a) + 2] = Sentinel /\ \A i \in 1 .. Len(a) : b[i] = a[i]
    BY FramesTyped, TwoFrames
  <2> HIDE DEF b
  <2>3. Chunks(b, q, k) BY <1>1, <2>2 DEF Chunks
  <2>4. Finished(b, q, k) BY <1>1, <2>1, <2>2 DEF Finished
  <2> QED BY <2>3, <2>4 DEF Chatted, b
<1>7. Chatted(a \o <<Error>>, q)
  <2> DEFINE b == a \o <<Error>>
  <2>1. /\ Len(b) = Len(a) + 1 /\ b[Len(a) + 1] = Error
        /\ \A i \in 1 .. Len(a) : b[i] = a[i]
    BY FramesTyped, OneFrame
  <2> HIDE DEF b
  <2>2. Chunks(b, q, k) BY <1>1, <2>1 DEF Chunks
  <2>3. Len(b) = k + 3 /\ b[k + 3] = Error BY <1>1, <2>1
  <2> QED BY <2>2, <2>3 DEF Chatted, b
<1>8. ASSUME f # Sentinel, f.event = "usage"
      PROVE  Chatting(a \o <<>>, q, w, n + 1)
  <2>1. a \o <<>> = a BY ConcatEmptySeq
  <2>2. n = k + 1 /\ k = w.pos /\ w.told BY <1>4, <1>5, <1>8
  <2> QED BY <1>1, <2>1, <2>2 DEF Chatting
<1>9. ASSUME f # Sentinel, f.event \notin {"error", "usage"}
      PROVE  Chatting(a \o <<Frame("content", f.data)>>, q, w, n + 1)
  <2>1. n = k + 1 /\ k < w.pos /\ f = Data(q.pieces[k + 1]) BY <1>4, <1>5, <1>9
  <2> DEFINE c == Frame("content", <<q.pieces[k + 1]>>)
             b == a \o <<c>>
  <2>2. q.pieces[k + 1] \in Pieces BY <1>2, <2>1, ElementOfSeq
  <2>3. c \in Frames
    <3>1. <<q.pieces[k + 1]>> \in Seq(Pieces) BY <2>2
    <3> QED BY <3>1, FramesTyped
  <2>4. /\ Len(b) = Len(a) + 1 /\ b[Len(a) + 1] = c
        /\ \A i \in 1 .. Len(a) : b[i] = a[i]
    <3> HIDE DEF c
    <3> QED BY <2>3, OneFrame
  <2>5. Frame("content", f.data) = c BY <1>5, <2>1
  <2>6. q.pieces[k + 1] # Done BY <1>9, <2>1 DEF Sentinel
  <2> HIDE DEF b
  <2>7. Chunks(b, q, k + 1)
    <3>1. \A i \in 1 .. k + 1 : b[i + 2] = Frame("content", <<q.pieces[i]>>) /\ q.pieces[i] # Done
      <4> TAKE i \in 1 .. k + 1
      <4>1. CASE i = k + 1 BY <1>1, <2>4, <2>6, <4>1
      <4>2. CASE i # k + 1
        <5>1. i \in 1 .. k /\ i + 2 \in 1 .. Len(a) BY <1>1, <4>2
        <5> QED BY <1>1, <2>4, <5>1 DEF Chunks
      <4> QED BY <4>1, <4>2
    <3>2. b[1] = a[1] /\ b[2] = a[2] BY <1>1, <2>4
    <3> QED BY <1>1, <1>2, <2>1, <3>1, <3>2 DEF Chunks
  <2>8. Len(b) = (k + 1) + 2 /\ k + 1 <= w.pos /\ n + 1 = (k + 1) + 1
    BY <1>1, <1>2, <2>1, <2>4
  <2> QED BY <1>1, <2>5, <2>7, <2>8 DEF Chatting, b
<1> QED BY <1>6, <1>7, <1>8, <1>9 DEF f

-----------------------------------------------------------------------------
(***************************************************************************)
(* The inductive invariant.                                                *)
(***************************************************************************)
NodeWrote ==
  \A r \in Requests :
    /\ Written(conn[r], req[r], Streams(r))
    /\ ~conn[r].closed => Open(conn[r])

ClientGot ==
  \A r \in Requests : Replied(reply[r], req[r], conn[r], read[r], at[r], r \in marked)

\* A request is in hand or in the backlog at most once, and its connection open.
Queue ==
  /\ serving # NoRequest => conn[serving].made /\ ~conn[serving].closed
  /\ \A i \in 1 .. Len(backlog) :
       /\ conn[backlog[i]].made /\ ~conn[backlog[i]].closed /\ backlog[i] # serving
       /\ \A j \in 1 .. i - 1 : backlog[j] # backlog[i]

Passed ==
  \A r \in Requests :
    at[r] = "ready" \/ conn[r].made \/ r \in demand => r \in settled /\ req[r].verdict = "safe"

SInv == TypeOK /\ NodeWrote /\ ClientGot /\ Queue /\ Passed

LEMMA InitStream == Init => SInv
<1> SUFFICES ASSUME Init PROVE SInv
  OBVIOUS
<1>1. \A r \in Requests : req[r] \in Case BY CasesAreCases DEF Init
<1>2. /\ NoConn \in Writers /\ NoConn.sent = <<>> /\ Open(NoConn) /\ ~NoConn.made
      /\ ~NoConn.sse /\ ~NoConn.told /\ NoConn.pos = 0
  BY DEF NoConn, Writers, Open
<1>3. TypeOK
  <2>1. conn \in [Requests -> Writers] BY <1>2 DEF Init
  <2>2. \A r \in Requests : read[r] \in 0 .. Len(conn[r].sent)
    BY <1>2, EmptySeq DEF Init
  <2> QED BY <2>1, <2>2 DEF Init, TypeOK, Writers
<1>4. NodeWrote
  <2> SUFFICES ASSUME NEW r \in Requests
               PROVE  Written(NoConn, req[r], Streams(r)) /\ Open(NoConn)
    BY DEF NodeWrote, Init
  <2>1. Len(req[r].pieces) \in Nat BY <1>1, LenProperties DEF Case
  <2> QED BY <1>2, <2>1 DEF Written, Flags, Open, NoConn
<1>5. ClientGot BY <1>2 DEF Init, ClientGot, Replied
<1>6. Queue BY DEF Init, Queue
<1>7. Passed BY <1>2 DEF Init, Passed
<1> QED BY <1>3, <1>4, <1>5, <1>6, <1>7 DEF SInv

(***************************************************************************)
(* What the invariant says of one request.                                 *)
(***************************************************************************)
LEMMA OneRequest ==
  ASSUME SInv, NEW r \in Requests
  PROVE  /\ req[r] \in Case /\ conn[r] \in Writers /\ Streams(r) \in BOOLEAN
         /\ reply[r] \in Seq(Frames) /\ read[r] \in Nat /\ read[r] <= Len(conn[r].sent)
         /\ Len(conn[r].sent) \in Nat
         /\ Written(conn[r], req[r], Streams(r)) /\ (~conn[r].closed => Open(conn[r]))
         /\ Replied(reply[r], req[r], conn[r], read[r], at[r], r \in marked)
         /\ conn \in [Requests -> Writers]
<1>1. req[r] \in Case BY CasesAreCases DEF SInv, TypeOK
<1>2. conn \in [Requests -> Writers] BY DEF SInv, TypeOK, Writers
<1>3. Streams(r) \in BOOLEAN BY <1>1 DEF Streams, SInv, TypeOK, Case
<1>4. Len(conn[r].sent) \in Nat BY <1>2, LenProperties DEF Writers
<1>5. read[r] \in Nat /\ read[r] <= Len(conn[r].sent)
  <2>1. read[r] \in 0 .. Len(conn[r].sent) BY DEF SInv, TypeOK
  <2> QED BY <1>4, <2>1
<1>6. reply[r] \in Seq(Frames) BY DEF SInv, TypeOK
<1> QED BY <1>1, <1>2, <1>3, <1>4, <1>5, <1>6 DEF SInv, NodeWrote, ClientGot

-----------------------------------------------------------------------------
(* The steps of the node. *)

(***************************************************************************)
(* The handler that is running adds to its own response and no other.      *)
(***************************************************************************)
LEMMA HandlerSound ==
  ASSUME SInv, NEW r \in Requests, serving = r, NEW v,
         Advances(conn[r], v, req[r], Streams(r)), ~v.closed => Open(v),
         Handler(r, v)
  PROVE  SInv'
<1>1. /\ conn' = [conn EXCEPT ![r] = v]
      /\ serving' = IF v.closed THEN NoRequest ELSE r
      /\ UNCHANGED <<given, coordinator, backlog, alive>>
  BY DEF Handler
<1>2. /\ UNCHANGED <<req, understands, settled, at, demand, read, marked, reply>>
      /\ UNCHANGED <<backlog, alive>>
  BY <1>1 DEF given, coordinator
<1>3. /\ conn \in [Requests -> Writers] /\ v \in Writers
      /\ Written(v, req[r], Streams(r)) /\ Grows(conn[r], v)
  BY OneRequest DEF Advances
<1>4. conn' \in [Requests -> Writers] /\ conn'[r] = v
      /\ \A s \in Requests \ {r} : conn'[s] = conn[s]
  BY <1>1, <1>3
<1>5. TypeOK'
  <2>1. \A s \in Requests : read[s] \in 0 .. Len(conn'[s].sent)
    <3> TAKE s \in Requests
    <3>1. read[s] \in Nat /\ Len(conn[s].sent) \in Nat /\ read[s] <= Len(conn[s].sent)
      BY OneRequest
    <3>2. Len(v.sent) \in Nat BY <1>3, LenProperties DEF Writers
    <3> QED BY <1>3, <1>4, <3>1, <3>2 DEF Grows
  <2>2. serving' \in Requests \cup {NoRequest} BY <1>1
  <2> QED BY <1>2, <1>4, <2>1, <2>2 DEF SInv, TypeOK, Writers
<1>6. NodeWrote'
  <2>1. \A s \in Requests : Streams(s)' = Streams(s) BY <1>2 DEF Streams
  <2> QED BY <1>2, <1>3, <1>4, <2>1 DEF SInv, NodeWrote
<1>7. ClientGot'
  <2>1. Replied(reply[r], req[r], v, read[r], at[r], r \in marked)
    BY <1>3, OneRequest, RepliedStays
  <2> QED BY <1>2, <1>4, <2>1 DEF SInv, ClientGot
<1>8. Queue'
  <2>1. r # NoRequest BY NoRequestIsNone
  <2>2. conn[r].made BY <2>1 DEF SInv, Queue
  <2>3. v.made BY <1>3, <2>2 DEF Grows
  <2>4. ASSUME NEW i \in 1 .. Len(backlog)
        PROVE  /\ conn'[backlog[i]].made /\ ~conn'[backlog[i]].closed
               /\ backlog[i] # serving'
               /\ \A j \in 1 .. i - 1 : backlog[j] # backlog[i]
    <3>1. backlog[i] \in Requests BY ElementOfSeq DEF SInv, TypeOK
    <3>2. backlog[i] # r BY DEF SInv, Queue
    <3>3. backlog[i] # serving' BY <1>1, <3>1, <3>2, NoRequestIsNone
    <3> QED BY <1>4, <3>1, <3>2, <3>3 DEF SInv, Queue
  <2>5. serving' # NoRequest => conn'[serving'].made /\ ~conn'[serving'].closed
    BY <1>1, <1>4, <2>3
  <2> QED BY <1>2, <2>4, <2>5 DEF Queue
<1>9. Passed' BY <1>2, <1>3, <1>4 DEF SInv, Passed, Grows
<1> QED BY <1>5, <1>6, <1>7, <1>8, <1>9 DEF SInv

(***************************************************************************)
(* The response of the request in hand is open.                            *)
(***************************************************************************)
LEMMA InHand ==
  ASSUME SInv, NEW r \in Requests, serving = r
  PROVE  /\ conn[r].made /\ ~conn[r].closed /\ Open(conn[r])
         /\ Written(conn[r], req[r], Streams(r))
         /\ conn[r] \in Writers /\ req[r] \in Case /\ Streams(r) \in BOOLEAN
<1>1. r # NoRequest BY NoRequestIsNone
<1> QED BY <1>1, OneRequest DEF SInv, Queue

LEMMA OnTokenSound == ASSUME SInv, NEW r \in Requests, OnToken(r) PROVE SInv'
<1> DEFINE w == conn[r]
           v == [w EXCEPT !.pos = @ + 1]
<1>1. /\ serving = r /\ req[r].fate # "refuses" /\ w.pos < Len(req[r].pieces)
      /\ Handler(r, IF Streams(r) THEN WriteFrame(v, Data(req[r].pieces[v.pos])) ELSE v)
  BY DEF OnToken
<1>2. PICK u : u = IF Streams(r) THEN WriteFrame(v, Data(req[r].pieces[v.pos])) ELSE v
  OBVIOUS
<1>3. Advances(w, u, req[r], Streams(r)) /\ Open(u)
  BY <1>1, <1>2, InHand, TokenAdvances
<1> HIDE DEF v
<1>4. Handler(r, u) BY <1>1, <1>2
<1> QED BY <1>1, <1>3, <1>4, HandlerSound

LEMMA TellUsageSound == ASSUME SInv, NEW r \in Requests, TellUsage(r) PROVE SInv'
<1> DEFINE w == conn[r]
<1>1. /\ serving = r /\ w.pos = Len(req[r].pieces)
      /\ req[r].fate = "ends" /\ Streams(r) /\ req[r].route = "chat" /\ ~w.told
      /\ Handler(r, [WriteFrame(w, Usage) EXCEPT !.told = TRUE])
  BY DEF TellUsage, Generated
<1>2. PICK u : u = [WriteFrame(w, Usage) EXCEPT !.told = TRUE]
  OBVIOUS
<1>3. Advances(w, u, req[r], Streams(r)) /\ Open(u)
  BY <1>1, <1>2, InHand, UsageAdvances
<1>4. Handler(r, u) BY <1>1, <1>2
<1> QED BY <1>1, <1>3, <1>4, HandlerSound

(***************************************************************************)
(* A handler that wrote its last word is closed.                           *)
(***************************************************************************)
LEMMA HandlerClosesSound ==
  ASSUME SInv, NEW r \in Requests, serving = r, NEW v,
         Advances(conn[r], v, req[r], Streams(r)),
         Handler(r, Closed(v))
  PROVE  SInv'
<1>1. PICK u : u = Closed(v) OBVIOUS
<1>2. v \in Writers /\ v.made BY InHand DEF Advances, Grows
<1>3. Advances(conn[r], u, req[r], Streams(r)) /\ u.closed
  BY <1>1, <1>2, InHand, ClosedAdvances
<1>4. Handler(r, u) BY <1>1
<1> QED BY <1>3, <1>4, HandlerSound

LEMMA HandlerReturnsSound == ASSUME SInv, NEW r \in Requests, HandlerReturns(r) PROVE SInv'
<1> DEFINE w == conn[r]
<1>1. /\ serving = r /\ w.pos = Len(req[r].pieces) /\ req[r].fate = "ends"
      /\ Streams(r) /\ req[r].route = "chat" => w.told
      /\ Handler(r, Closed(WriteDone(IF Streams(r) THEN w
                                     ELSE WriteJsonResponse(w, Ok(req[r].pieces)))))
  BY DEF HandlerReturns, Generated, Returned
<1>2. PICK v : v = WriteDone(IF Streams(r) THEN w ELSE WriteJsonResponse(w, Ok(req[r].pieces)))
  OBVIOUS
<1>3. Advances(w, v, req[r], Streams(r))
  <2>1. CASE Streams(r) BY <1>1, <1>2, <2>1, InHand, DoneAdvances
  <2>2. CASE ~Streams(r)
    <3>1. ~w.sse BY <1>1, <2>2, InHand DEF Written, Flags
    <3>2. PICK f : f = Ok(req[r].pieces) OBVIOUS
    <3>3. LET x == WriteJsonResponse(w, f)
          IN  Advances(w, x, req[r], Streams(r)) /\ WriteDone(x) = x
      BY <1>1, <3>1, <3>2, InHand, JsonAdvances
    <3>4. v = WriteDone(WriteJsonResponse(w, f)) BY <1>2, <2>2, <3>2
    <3> QED BY <3>3, <3>4
  <2> QED BY <2>1, <2>2
<1>4. Handler(r, Closed(v)) BY <1>1, <1>2
<1> QED BY <1>1, <1>3, <1>4, HandlerClosesSound

LEMMA HandlerRefusesSound == ASSUME SInv, NEW r \in Requests, HandlerRefuses(r) PROVE SInv'
<1> DEFINE w == conn[r]
<1>1. /\ serving = r /\ req[r].fate = "refuses"
      /\ Handler(r, Closed(WriteDone(WriteJsonResponse(w, Refused))))
  BY DEF HandlerRefuses, Returned
<1>2. PICK v : v = WriteDone(WriteJsonResponse(w, Refused))
  OBVIOUS
<1>3. ~w.sse BY <1>1, InHand DEF Written, Flags
<1>4. Advances(w, v, req[r], Streams(r))
  <2>1. LET x == WriteJsonResponse(w, Refused)
        IN  Advances(w, x, req[r], Streams(r)) /\ WriteDone(x) = x
    BY <1>1, <1>3, InHand, JsonAdvances
  <2> QED BY <1>2, <2>1
<1>5. Handler(r, Closed(v)) BY <1>1, <1>2
<1> QED BY <1>1, <1>4, <1>5, HandlerClosesSound

LEMMA HandlerThrowsSound == ASSUME SInv, NEW r \in Requests, HandlerThrows(r) PROVE SInv'
<1> DEFINE w == conn[r]
<1>1. /\ serving = r /\ req[r].fate = "throws"
      /\ Handler(r, IF Streams(r) THEN Closed(WriteError(w))
                    ELSE Closed(WriteDone(WriteJsonResponse(w, Refused))))
  BY DEF HandlerThrows, Generated, Returned
<1>2. CASE Streams(r)
  <2>1. PICK v : v = WriteError(w) OBVIOUS
  <2>2. Advances(w, v, req[r], Streams(r)) BY <1>1, <2>1, InHand, ErrorAdvances
  <2>3. Handler(r, Closed(v)) BY <1>1, <1>2, <2>1
  <2> QED BY <1>1, <2>2, <2>3, HandlerClosesSound
<1>3. CASE ~Streams(r)
  <2>1. PICK v : v = WriteDone(WriteJsonResponse(w, Refused)) OBVIOUS
  <2>2. ~w.sse BY <1>1, <1>3, InHand DEF Written, Flags
  <2>3. LET x == WriteJsonResponse(w, Refused)
        IN  Advances(w, x, req[r], Streams(r)) /\ WriteDone(x) = x
    BY <1>1, <2>2, InHand, JsonAdvances
  <2>4. Advances(w, v, req[r], Streams(r)) BY <2>1, <2>3
  <2>5. Handler(r, Closed(v)) BY <1>1, <1>3, <2>1
  <2> QED BY <1>1, <2>4, <2>5, HandlerClosesSound
<1> QED BY <1>2, <1>3

(***************************************************************************)
(* A writer as it is advances by nothing.                                  *)
(***************************************************************************)
LEMMA AdvancesNothing ==
  ASSUME NEW w \in Writers, NEW q, NEW streams, Written(w, q, streams)
  PROVE  Advances(w, w, q, streams)
<1>1. Len(w.sent) \in Nat /\ w.pos \in Nat BY LenProperties DEF Writers
<1> QED BY <1>1 DEF Advances, Grows

LEMMA PeerGoneSound == ASSUME SInv, NEW r \in Requests, PeerGone(r) PROVE SInv'
<1>1. serving = r /\ Handler(r, Closed(conn[r])) BY DEF PeerGone
<1>2. PICK v : v = conn[r] OBVIOUS
<1>3. Advances(conn[r], v, req[r], Streams(r)) BY <1>1, <1>2, InHand, AdvancesNothing
<1>4. Handler(r, Closed(v)) BY <1>1, <1>2
<1> QED BY <1>1, <1>3, <1>4, HandlerClosesSound

LEMMA AcceptSound == ASSUME SInv, Accept PROVE SInv'
<1>1. /\ serving = NoRequest /\ backlog # <<>>
      /\ serving' = Head(backlog) /\ backlog' = Tail(backlog)
      /\ UNCHANGED <<req, understands, settled, at, demand, read, marked, reply, conn, alive>>
  BY DEF Accept, given, coordinator
<1>2. backlog \in Seq(Requests) /\ Len(backlog) \in Nat \ {0}
  BY <1>1, EmptySeq DEF SInv, TypeOK
<1>3. /\ serving' = backlog[1] /\ serving' \in Requests
      /\ backlog' \in Seq(Requests) /\ Len(backlog') = Len(backlog) - 1
      /\ \A i \in 1 .. Len(backlog') : backlog'[i] = backlog[i + 1]
  BY <1>1, <1>2, HeadTailProperties
<1>4. TypeOK' BY <1>1, <1>3 DEF SInv, TypeOK
<1>5. NodeWrote' /\ ClientGot' /\ Passed'
  BY <1>1 DEF SInv, NodeWrote, ClientGot, Passed, Streams
<1>6. Queue'
  <2>1. conn[serving'].made /\ ~conn[serving'].closed
    <3>1. 1 \in 1 .. Len(backlog) BY <1>2
    <3> QED BY <1>3, <3>1 DEF SInv, Queue
  <2>2. ASSUME NEW i \in 1 .. Len(backlog')
        PROVE  /\ conn[backlog'[i]].made /\ ~conn[backlog'[i]].closed
               /\ backlog'[i] # serving'
               /\ \A j \in 1 .. i - 1 : backlog'[j] # backlog'[i]
    <3>1. i + 1 \in 1 .. Len(backlog) /\ backlog'[i] = backlog[i + 1] BY <1>2, <1>3
    <3>2. /\ conn[backlog[i + 1]].made /\ ~conn[backlog[i + 1]].closed
          /\ \A j \in 1 .. (i + 1) - 1 : backlog[j] # backlog[i + 1]
      BY <3>1 DEF SInv, Queue
    <3>3. backlog[1] # backlog[i + 1] BY <3>1, <3>2
    <3>4. \A j \in 1 .. i - 1 : backlog'[j] # backlog'[i]
      <4> TAKE j \in 1 .. i - 1
      <4>1. j \in 1 .. Len(backlog') /\ j + 1 \in 1 .. (i + 1) - 1 BY <1>2, <1>3
      <4> QED BY <1>3, <3>1, <3>2, <4>1
    <3> QED BY <1>3, <3>1, <3>2, <3>3, <3>4
  <2> QED BY <1>1, <2>1, <2>2 DEF Queue
<1> QED BY <1>4, <1>5, <1>6 DEF SInv

LEMMA NodeDiesSound == ASSUME SInv, NodeDies PROVE SInv'
<1>1. /\ alive' = FALSE /\ serving' = NoRequest /\ backlog' = <<>>
      /\ conn' = [r \in Requests |-> IF conn[r].made THEN Closed(conn[r]) ELSE conn[r]]
      /\ UNCHANGED <<req, understands, settled, at, demand, read, marked, reply>>
  BY DEF NodeDies, given, coordinator
<1>2. ASSUME NEW r \in Requests
      PROVE  /\ Advances(conn[r], conn'[r], req[r], Streams(r))
             /\ conn'[r].closed \/ conn'[r] = conn[r]
  <2>1. Advances(conn[r], conn[r], req[r], Streams(r)) BY OneRequest, AdvancesNothing
  <2>2. CASE conn[r].made
    <3>1. PICK u : u = Closed(conn[r]) OBVIOUS
    <3>2. Advances(conn[r], u, req[r], Streams(r)) /\ u.closed
      BY <2>1, <2>2, <3>1, OneRequest, ClosedAdvances
    <3> QED BY <1>1, <2>2, <3>1, <3>2
  <2>3. CASE ~conn[r].made BY <1>1, <2>1, <2>3
  <2> QED BY <2>2, <2>3
<1>3. TypeOK'
  <2>1. conn' \in [Requests -> Writers] BY <1>1, <1>2 DEF Advances
  <2>2. \A r \in Requests : read[r] \in 0 .. Len(conn'[r].sent)
    <3> TAKE r \in Requests
    <3>1. read[r] \in Nat /\ Len(conn[r].sent) \in Nat /\ read[r] <= Len(conn[r].sent)
      BY OneRequest
    <3>2. Len(conn'[r].sent) \in Nat BY <2>1, LenProperties DEF Writers
    <3>3. Len(conn[r].sent) <= Len(conn'[r].sent) BY <1>2 DEF Advances, Grows
    <3> QED BY <3>1, <3>2, <3>3
  <2>3. backlog' \in Seq(Requests) BY <1>1
  <2> QED BY <1>1, <2>1, <2>2, <2>3 DEF SInv, TypeOK, Writers
<1>4. NodeWrote'
  <2>1. \A r \in Requests : Streams(r)' = Streams(r) BY <1>1 DEF Streams
  <2> QED BY <1>1, <1>2, <2>1 DEF SInv, NodeWrote, Advances
<1>5. ClientGot'
  <2> SUFFICES ASSUME NEW r \in Requests
               PROVE  Replied(reply[r], req[r], conn'[r], read[r], at[r], r \in marked)
    BY <1>1 DEF ClientGot
  <2>1. PICK v : v = conn'[r] OBVIOUS
  <2>2. Advances(conn[r], v, req[r], Streams(r)) BY <1>2, <2>1
  <2>3. Replied(reply[r], req[r], v, read[r], at[r], r \in marked)
    BY <2>2, OneRequest, RepliedStays DEF Advances
  <2> QED BY <2>1, <2>3
<1>6. Queue' BY <1>1, EmptySeq DEF Queue
<1>7. Passed' BY <1>1, <1>2 DEF SInv, Passed, Advances, Grows
<1> QED BY <1>3, <1>4, <1>5, <1>6, <1>7 DEF SInv

-----------------------------------------------------------------------------
(* The steps of the coordinator. *)

\* What a step of the handler of r leaves alone.
Others(r) ==
  /\ UNCHANGED given
  /\ \A s \in Requests \ {r} :
       /\ at'[s] = at[s] /\ read'[s] = read[s] /\ reply'[s] = reply[s]
       /\ conn'[s] = conn[s]
       /\ (s \in marked') = (s \in marked) /\ (s \in settled') = (s \in settled)
       /\ (s \in demand') = (s \in demand)

\* What it makes of its own request.
Becomes(r, a, n, w, stage) ==
  /\ at' = [at EXCEPT ![r] = stage] /\ reply' = [reply EXCEPT ![r] = a]
  /\ read'[r] = n /\ read' \in [Requests -> Nat]
  /\ conn' \in [Requests -> Writers] /\ conn'[r] = w

(***************************************************************************)
(* A step of the coordinator concerns one request: if what it sends is in  *)
(* order, so is everything.                                                *)
(***************************************************************************)
LEMMA RequestSound ==
  ASSUME SInv, NEW r \in Requests, NEW a \in Seq(Frames), NEW n \in Nat,
         NEW w \in Writers, NEW stage \in {"ready", "fetch", "relay", "ended"},
         Becomes(r, a, n, w, stage), Others(r),
         marked' \subseteq Requests, settled' \subseteq Requests, demand' \subseteq Requests,
         Written(w, req[r], Streams(r)), ~w.closed => Open(w), n <= Len(w.sent),
         Replied(a, req[r], w, n, stage, r \in marked'),
         stage = "ready" \/ w.made \/ r \in demand' => r \in settled' /\ req[r].verdict = "safe",
         backlog' \in Seq(Requests), serving' \in Requests \cup {NoRequest}, alive' \in BOOLEAN,
         Queue'
  PROVE  SInv'
<1>1. /\ UNCHANGED <<req, understands>>
      /\ at'[r] = stage /\ reply'[r] = a /\ read'[r] = n /\ conn'[r] = w
      /\ at' \in [Requests -> {"gate", "ready", "fetch", "relay", "ended"}]
      /\ reply' \in [Requests -> Seq(Frames)]
  BY DEF Becomes, Others, given, SInv, TypeOK
<1>2. \A s \in Requests : Streams(s)' = Streams(s) BY <1>1 DEF Streams
<1>3. TypeOK'
  <2>1. \A s \in Requests : read'[s] \in 0 .. Len(conn'[s].sent)
    <3>1. n \in 0 .. Len(w.sent) BY LenProperties DEF Writers
    <3> QED BY <1>1, <3>1 DEF SInv, TypeOK, Others
  <2>2. conn' \in [Requests -> Writers] /\ read' \in [Requests -> Nat] BY DEF Becomes
  <2> QED BY <1>1, <2>1, <2>2 DEF SInv, TypeOK, Writers
<1>4. NodeWrote' BY <1>1, <1>2 DEF SInv, NodeWrote, Others
<1>5. ClientGot' BY <1>1 DEF SInv, ClientGot, Others
<1>6. Passed' BY <1>1 DEF SInv, Passed, Others
<1> QED BY <1>3, <1>4, <1>5, <1>6 DEF SInv

(***************************************************************************)
(* The same when the node is left alone.                                   *)
(***************************************************************************)
LEMMA AnswerSound ==
  ASSUME SInv, NEW r \in Requests, NEW frames, NEW stage \in {"ready", "relay", "ended"},
         NEW n \in Nat, n <= Len(conn[r].sent),
         reply[r] \o frames \in Seq(Frames),
         Sends(r, frames, stage), read' = [read EXCEPT ![r] = n],
         UNCHANGED <<given, conn, node>>,
         settled' = settled \/ settled' = settled \cup {r},
         marked' = marked \/ marked' = marked \cup {r},
         demand' = demand \/ (demand' = demand \cup {r} /\ stage = "ready"),
         stage = "ready" => r \in settled' /\ req[r].verdict = "safe",
         Replied(reply[r] \o frames, req[r], conn[r], n, stage, r \in marked')
  PROVE  SInv'
<1> DEFINE a == reply[r] \o frames
<1>1. /\ UNCHANGED <<req, understands, conn, backlog, serving, alive>>
      /\ reply' = [reply EXCEPT ![r] = a] /\ at' = [at EXCEPT ![r] = stage]
  BY DEF given, node, Sends
<1>2. /\ conn \in [Requests -> Writers] /\ conn[r] \in Writers
      /\ read \in [Requests -> Nat] /\ reply \in [Requests -> Seq(Frames)]
      /\ at \in [Requests -> {"gate", "ready", "fetch", "relay", "ended"}]
      /\ settled \subseteq Requests /\ marked \subseteq Requests /\ demand \subseteq Requests
  BY OneRequest DEF SInv, TypeOK
<1> HIDE DEF a
<1>3. Becomes(r, a, n, conn[r], stage) BY <1>1, <1>2 DEF Becomes
<1>4. Others(r) BY <1>1, <1>2 DEF Others, given
<1>5. Written(conn[r], req[r], Streams(r)) /\ (~conn[r].closed => Open(conn[r]))
  BY OneRequest
<1>6. stage = "ready" \/ conn[r].made \/ r \in demand' => r \in settled' /\ req[r].verdict = "safe"
  BY DEF SInv, Passed
<1>7. Queue' BY <1>1 DEF SInv, Queue
<1>8. backlog' \in Seq(Requests) /\ serving' \in Requests \cup {NoRequest} /\ alive' \in BOOLEAN
  BY <1>1 DEF SInv, TypeOK
<1>9. a \in Seq(Frames) /\ Replied(a, req[r], conn[r], n, stage, r \in marked') BY DEF a
<1>10. PICK w : w = conn[r] OBVIOUS
<1> QED BY <1>2, <1>3, <1>4, <1>5, <1>6, <1>7, <1>8, <1>9, <1>10, RequestSound

(***************************************************************************)
(* Before it relays, the coordinator has sent nothing.                     *)
(***************************************************************************)
LEMMA NothingSent ==
  ASSUME SInv, NEW r \in Requests, at[r] \in {"gate", "ready", "fetch"}
  PROVE  /\ reply[r] = <<>> /\ read[r] = 0 /\ read = [read EXCEPT ![r] = 0]
         /\ (at[r] = "fetch") = conn[r].made
<1>1. reply[r] = <<>> /\ read[r] = 0
  BY DEF SInv, ClientGot, Replied
<1>2. (at[r] = "fetch") = conn[r].made
  BY OneRequest DEF SInv, ClientGot, Replied, Writers
<1>3. read = [read EXCEPT ![r] = read[r]] BY DEF SInv, TypeOK
<1> QED BY <1>1, <1>2, <1>3

(***************************************************************************)
(* A refusal, or a 502 that marks the driver.                              *)
(***************************************************************************)
LEMMA RefusalSound ==
  ASSUME SInv, NEW r \in Requests, at[r] \in {"gate", "ready", "fetch"},
         NEW f \in {Refused, BadGateway},
         Sends(r, <<f>>, "ended"), UNCHANGED <<given, demand, conn, node>>,
         NEW n \in {0, 1}, n <= Len(conn[r].sent), read' = [read EXCEPT ![r] = n],
         settled' = settled \/ settled' = settled \cup {r},
         marked' = marked \/ marked' = marked \cup {r},
         f = BadGateway /\ req[r].route = "generate" => r \in marked'
  PROVE  SInv'
<1>1. reply[r] = <<>> BY NothingSent
<1>2. <<>> \o <<f>> = <<f>> /\ <<f>> \in Seq(Frames) BY FramesTyped
<1>3. Replied(reply[r] \o <<f>>, req[r], conn[r], n, "ended", r \in marked')
  BY <1>1, <1>2 DEF Replied, Answered
<1>4. reply[r] \o <<f>> \in Seq(Frames) BY <1>1, <1>2
<1>5. n \in Nat OBVIOUS
<1> QED BY <1>3, <1>4, <1>5, AnswerSound

(***************************************************************************)
(* What tells the frames apart.                                            *)
(***************************************************************************)
LEMMA FrameEvents ==
  /\ SseHead.event = "sse" /\ Refused.event = "refused" /\ Usage.event = "usage"
  /\ BadGateway.event = "badgateway"
  /\ Error.event = "error" /\ Sentinel.event = "data"
  /\ \A t : Ok(t).event = "ok" /\ Ok(t).data = t
  /\ \A t : Frame("content", t).event = "content" /\ Frame("content", t).data = t
  /\ \A t : Frame("role", t).event = "role" /\ Frame("finish", t).event = "finish"
  /\ \A p : Data(p).event = "data" /\ Data(p).data = <<p>>
  /\ \A p : Data(p) = Sentinel => p = Done
BY DEF SseHead, Refused, BadGateway, Usage, Error, Sentinel, Data, Ok, Frame

(***************************************************************************)
(* The two catches: a 502, or a stream cut off behind its head; both mark. *)
(***************************************************************************)
LEMMA Throwing ==
  ASSUME SInv, NEW r \in Requests, FetchThrows(r)
  PROVE  /\ marked' = marked \/ marked' = marked \cup {r}
         /\ req[r].route = "generate" => r \in marked'
         /\ at[r] # "relay" => Sends(r, <<BadGateway>>, "ended")
         /\ at[r] = "relay" => Sends(r, <<>>, "ended")
<1>1. FetchThrows(r) => MarkDriverFailedIfTracked(r)
  BY DEF FetchThrows, StreamThrows, AnswerThrows
<1>2. /\ at[r] # "relay" => Sends(r, <<BadGateway>>, "ended")
      /\ at[r] = "relay" /\ req[r].stream => Sends(r, <<>>, "ended")
  BY DEF FetchThrows, StreamThrows, AnswerThrows
<1>3. at[r] = "relay" => req[r].stream
  <2>1. at[r] = "relay" => \/ Relays(reply[r], req[r], conn[r], read[r])
                           \/ Chatting(reply[r], req[r], conn[r], read[r])
    BY OneRequest DEF Replied
  <2> QED BY <2>1 DEF Relays, Chatting, Chunks
<1> QED BY <1>1, <1>2, <1>3 DEF MarkDriverFailedIfTracked

LEMMA BodyRejectedSound == ASSUME SInv, NEW r \in Requests, BodyRejected(r) PROVE SInv'
<1>1. /\ at[r] = "gate" /\ Sends(r, <<Refused>>, "ended")
      /\ UNCHANGED <<given, settled, demand, read, marked, conn, node>>
  BY DEF BodyRejected
<1>2. read' = [read EXCEPT ![r] = 0] /\ ~conn[r].made BY <1>1, NothingSent
<1>3. 0 <= Len(conn[r].sent) BY OneRequest
<1> QED BY <1>1, <1>2, <1>3, RefusalSound, FrameEvents

LEMMA ClassifierTimesOutSound ==
  ASSUME SInv, NEW r \in Requests, ClassifierTimesOut(r) PROVE SInv'
<1>1. /\ at[r] = "gate" /\ Sends(r, <<Refused>>, "ended")
      /\ UNCHANGED <<given, settled, demand, read, marked, conn, node>>
  BY DEF ClassifierTimesOut
<1>2. read' = [read EXCEPT ![r] = 0] /\ ~conn[r].made BY <1>1, NothingSent
<1>3. 0 <= Len(conn[r].sent) BY OneRequest
<1> QED BY <1>1, <1>2, <1>3, RefusalSound, FrameEvents

LEMMA ClassifierSettlesSound ==
  ASSUME SInv, NEW r \in Requests, ClassifierSettles(r) PROVE SInv'
<1>1. /\ settled' = settled \cup {r} /\ UNCHANGED <<given, read, marked, conn, node>>
      /\ \/ at[r] = "gate" /\ req[r].verdict = "safe" /\ Pass(r)
         \/ at[r] = "gate" /\ Sends(r, <<Refused>>, "ended") /\ UNCHANGED demand
         \/ UNCHANGED <<at, reply, demand>>
  BY DEF ClassifierSettles
<1>2. 0 <= Len(conn[r].sent) BY OneRequest
<1>3. CASE at[r] = "gate" /\ req[r].verdict = "safe" /\ Pass(r)
  <2>1. /\ reply[r] = <<>> /\ read' = [read EXCEPT ![r] = 0] /\ ~conn[r].made
    BY <1>1, <1>3, NothingSent
  <2>2. <<>> \o <<>> = <<>> /\ <<>> \in Seq(Frames) OBVIOUS
  <2>3. Replied(reply[r] \o <<>>, req[r], conn[r], 0, "ready", r \in marked')
    BY <2>1, <2>2 DEF Replied
  <2>4. /\ Sends(r, <<>>, "ready") /\ demand' = demand \cup {r} /\ r \in settled'
        /\ reply[r] \o <<>> \in Seq(Frames)
    BY <1>1, <1>3, <2>1, <2>2 DEF Pass
  <2> QED BY <1>1, <1>2, <1>3, <2>1, <2>3, <2>4, AnswerSound
<1>4. CASE at[r] = "gate" /\ Sends(r, <<Refused>>, "ended") /\ UNCHANGED demand
  <2>1. read' = [read EXCEPT ![r] = 0] /\ ~conn[r].made BY <1>1, <1>4, NothingSent
  <2> QED BY <1>1, <1>2, <1>4, <2>1, RefusalSound, FrameEvents
<1>5. CASE UNCHANGED <<at, reply, demand>>
  <2>1. UNCHANGED <<req, understands, at, demand, read, marked, reply, conn, backlog, serving,
                    alive>>
    BY <1>1, <1>5 DEF given, node
  <2> QED BY <1>1, <2>1
          DEF SInv, TypeOK, NodeWrote, ClientGot, Queue, Passed, Streams
<1> QED BY <1>1, <1>3, <1>4, <1>5

(***************************************************************************)
(* A request that connects is new to the node.                             *)
(***************************************************************************)
LEMMA ForwardSound == ASSUME SInv, NEW r \in Requests, Forward(r) PROVE SInv'
<1>1. /\ at[r] = "ready"
      /\ UNCHANGED <<given, settled, demand, read, serving, alive>>
      /\ \/ Sends(r, <<Refused>>, "ended") /\ UNCHANGED <<marked, conn, backlog>>
         \/ /\ FetchThrows(r) /\ UNCHANGED <<conn, backlog>>
         \/ /\ alive /\ Sends(r, <<>>, "fetch")
            /\ conn' = [conn EXCEPT ![r].made = TRUE]
            /\ backlog' = Append(backlog, r) /\ UNCHANGED marked
  BY DEF Forward
<1>2. /\ reply[r] = <<>> /\ read[r] = 0 /\ read' = [read EXCEPT ![r] = 0] /\ ~conn[r].made
  BY <1>1, NothingSent
<1>3. 0 <= Len(conn[r].sent) BY OneRequest
<1>4. CASE Sends(r, <<Refused>>, "ended") /\ UNCHANGED <<marked, conn, backlog>>
  <2>1. UNCHANGED <<given, demand, conn, node>> BY <1>1, <1>4 DEF node
  <2> QED BY <1>1, <1>2, <1>3, <1>4, <2>1, RefusalSound, FrameEvents
<1>5. CASE FetchThrows(r) /\ UNCHANGED <<conn, backlog>>
  <2>1. UNCHANGED <<given, demand, conn, node>> BY <1>1, <1>5 DEF node
  <2>2. /\ Sends(r, <<BadGateway>>, "ended")
        /\ marked' = marked \/ marked' = marked \cup {r}
        /\ req[r].route = "generate" => r \in marked'
    BY <1>1, <1>5, Throwing
  <2> QED BY <1>1, <1>2, <1>3, <2>1, <2>2, RefusalSound
<1>6. CASE /\ Sends(r, <<>>, "fetch") /\ conn' = [conn EXCEPT ![r].made = TRUE]
           /\ backlog' = Append(backlog, r) /\ UNCHANGED marked
  <2>1. conn[r] = NoConn BY <1>2, OneRequest DEF Written
  <2>2. PICK w : w = [NoConn EXCEPT !.made = TRUE] OBVIOUS
  <2>3. /\ w \in Writers /\ w.made /\ ~w.closed /\ Open(w) /\ w.sent = <<>> /\ w.pos = 0
        /\ ~w.sse /\ ~w.told
    <3>1. w = [made |-> TRUE, closed |-> FALSE, gone |-> FALSE, pos |-> 0, told |-> FALSE,
               sse |-> FALSE, json |-> FALSE, done |-> FALSE, error |-> FALSE, sent |-> <<>>]
      BY <2>2 DEF NoConn
    <3>2. <<>> \in Seq(Frames) OBVIOUS
    <3>3. w \in Writers BY <3>1, <3>2 DEF Writers
    <3> QED BY <3>1, <3>3 DEF Open
  <2>4. /\ conn \in [Requests -> Writers] /\ read \in [Requests -> Nat]
        /\ backlog \in Seq(Requests) /\ req[r] \in Case
        /\ marked \subseteq Requests /\ settled \subseteq Requests /\ demand \subseteq Requests
    BY OneRequest DEF SInv, TypeOK
  <2>5. conn' = [conn EXCEPT ![r] = w] BY <1>6, <2>1, <2>2
  <2>6. conn' \in [Requests -> Writers] /\ conn'[r] = w
        /\ \A s \in Requests \ {r} : conn'[s] = conn[s]
    BY <2>3, <2>4, <2>5
  <2>7. <<>> \o <<>> = <<>> /\ <<>> \in Seq(Frames) OBVIOUS
  <2>8. Becomes(r, <<>>, 0, w, "fetch")
    BY <1>1, <1>2, <1>6, <2>4, <2>6, <2>7 DEF Becomes, Sends
  <2>9. Others(r)
    <3>1. \A s \in Requests \ {r} : at'[s] = at[s] /\ reply'[s] = reply[s]
      BY <1>6 DEF Sends, SInv, TypeOK
    <3> QED BY <1>1, <1>6, <2>6, <3>1 DEF Others
  <2>10. Written(w, req[r], Streams(r))
    <3>1. Len(req[r].pieces) \in Nat BY <2>4, LenProperties DEF Case
    <3> QED BY <2>3, <3>1 DEF Written, Flags, Open
  <2>11. Replied(<<>>, req[r], w, 0, "fetch", r \in marked') BY <2>3 DEF Replied
  <2>12. r \in settled' /\ req[r].verdict = "safe" BY <1>1 DEF SInv, Passed
  <2>13. /\ backlog' \in Seq(Requests) /\ Len(backlog') = Len(backlog) + 1
         /\ backlog'[Len(backlog) + 1] = r
         /\ \A i \in 1 .. Len(backlog) : backlog'[i] = backlog[i]
         /\ Len(backlog) \in Nat
    BY <1>6, <2>4, AppendProperties, LenProperties
  <2>14. Queue'
    <3>1. serving' # NoRequest => conn'[serving'].made /\ ~conn'[serving'].closed
      BY <1>1, <2>3, <2>6 DEF SInv, Queue, TypeOK
    <3>2. ASSUME NEW i \in 1 .. Len(backlog')
          PROVE  /\ conn'[backlog'[i]].made /\ ~conn'[backlog'[i]].closed
                 /\ backlog'[i] # serving'
                 /\ \A j \in 1 .. i - 1 : backlog'[j] # backlog'[i]
      <4>1. ASSUME NEW j \in 1 .. Len(backlog)
            PROVE  /\ backlog[j] \in Requests \ {r} /\ conn[backlog[j]].made
                   /\ ~conn[backlog[j]].closed /\ backlog[j] # serving
                   /\ \A l \in 1 .. j - 1 : backlog[l] # backlog[j]
        <5>1. backlog[j] \in Requests BY <2>4, ElementOfSeq
        <5> QED BY <1>2, <5>1 DEF SInv, Queue
      <4>2. CASE i = Len(backlog) + 1
        <5>1. backlog'[i] = r /\ r # serving
          BY <1>2, <2>13, <4>2, NoRequestIsNone DEF SInv, Queue
        <5>2. \A j \in 1 .. i - 1 : backlog'[j] # r BY <2>13, <4>1, <4>2
        <5> QED BY <1>1, <2>3, <2>6, <5>1, <5>2
      <4>3. CASE i # Len(backlog) + 1
        <5>1. i \in 1 .. Len(backlog) /\ \A j \in 1 .. i - 1 : j \in 1 .. Len(backlog)
          BY <2>13, <4>3
        <5> QED BY <1>1, <2>6, <2>13, <4>1, <5>1
      <4> QED BY <4>2, <4>3
    <3> QED BY <3>1, <3>2 DEF Queue
  <2>15. /\ marked' \subseteq Requests /\ settled' \subseteq Requests /\ demand' \subseteq Requests
         /\ serving' \in Requests \cup {NoRequest} /\ alive' \in BOOLEAN
    BY <1>1, <1>6, <2>4 DEF SInv, TypeOK
  <2>16. 0 <= Len(w.sent) BY <2>3, EmptySeq
  <2>17. PICK a : a = <<>> OBVIOUS
  <2>18. a \in Seq(Frames) /\ Becomes(r, a, 0, w, "fetch")
         /\ Replied(a, req[r], w, 0, "fetch", r \in marked')
    BY <2>7, <2>8, <2>11, <2>17
  <2> QED BY <2>3, <2>9, <2>10, <2>12, <2>13, <2>14, <2>15, <2>16, <2>18, RequestSound
<1> QED BY <1>1, <1>4, <1>5, <1>6

(***************************************************************************)
(* The first frame: one answer, a head, or something that was not asked    *)
(* for.                                                                    *)
(***************************************************************************)
LEMMA FirstFrame ==
  ASSUME NEW q \in Case, NEW w \in Writers, NEW streams \in BOOLEAN, Written(w, q, streams),
         w.sent # <<>>
  PROVE  LET f == Head(w.sent)
         IN  /\ f.event = "ok" => f = Ok(q.pieces) /\ q.fate = "ends"
             /\ f.event = "sse" => f = SseHead /\ w.sse /\ w.sent[1] = SseHead
             /\ 1 <= Len(w.sent)
<1>1. w.sse \/ w.json BY DEF Written
<1>2. Head(w.sent) = w.sent[1] /\ 1 <= Len(w.sent) /\ Len(w.sent) \in Nat
  BY HeadTailProperties, EmptySeq, LenProperties DEF Writers
<1>3. CASE w.json
  <2>1. \/ w.sent[1] = Refused
        \/ w.sent[1] = Ok(q.pieces) /\ q.fate = "ends"
    BY <1>3 DEF Written
  <2>2. Refused.event = "refused" /\ Ok(q.pieces).event = "ok" BY DEF Refused, Ok, Frame
  <2> QED BY <1>2, <2>1, <2>2
<1>4. CASE w.sse
  <2>1. w.sent[1] = SseHead BY <1>4 DEF Written, StreamOf
  <2>2. SseHead.event = "sse" BY DEF SseHead, Frame
  <2> QED BY <1>2, <1>4, <2>1, <2>2
<1> QED BY <1>1, <1>3, <1>4

LEMMA ReceiveAnswerSound == ASSUME SInv, NEW r \in Requests, ReceiveAnswer(r) PROVE SInv'
<1> DEFINE w == conn[r]
           q == req[r]
           f == Head(w.sent)
<1>1. /\ at[r] = "fetch" /\ w.sent # <<>> /\ read' = [read EXCEPT ![r] = 1]
      /\ UNCHANGED <<given, settled, demand, conn, node>>
      /\ \/ f.event = "ok" /\ ~q.stream /\ Sends(r, <<f>>, "ended") /\ UNCHANGED marked
         \/ /\ f.event = "sse" /\ q.stream
            /\ Sends(r, IF q.route = "chat" THEN <<SseHead, Frame("role", <<>>)>>
                                            ELSE <<SseHead>>, "relay")
            /\ UNCHANGED marked
         \/ Sends(r, <<BadGateway>>, "ended") /\ MarkDriverFailedIfTracked(r)
  BY DEF ReceiveAnswer, StreamRefused, NotAStream, AnswerRefused
<1>2. reply[r] = <<>> /\ w.made BY <1>1, NothingSent
<1>3. /\ q \in Case /\ w \in Writers /\ Written(w, q, Streams(r)) /\ Streams(r) \in BOOLEAN
  BY OneRequest
<1>4. PICK g : g = f OBVIOUS
<1>5. /\ g.event = "ok" => g = Ok(q.pieces) /\ q.fate = "ends"
      /\ g.event = "sse" => g = SseHead /\ w.sse /\ w.sent[1] = SseHead
      /\ 1 <= Len(w.sent)
  BY <1>1, <1>3, <1>4, FirstFrame
<1> HIDE DEF f
<1>6. CASE g.event = "ok" /\ ~q.stream /\ Sends(r, <<g>>, "ended") /\ UNCHANGED marked
  <2>1. g \in Frames BY <1>3, <1>5, <1>6, FramesTyped DEF Case
  <2>2. <<>> \o <<g>> = <<g>> /\ <<g>> \in Seq(Frames) BY <2>1
  <2>3. reply[r] \o <<g>> = <<g>> /\ reply[r] \o <<g>> \in Seq(Frames) BY <1>2, <2>2
  <2>4. Replied(reply[r] \o <<g>>, q, w, 1, "ended", r \in marked')
    BY <1>5, <1>6, <2>3 DEF Replied, Answered
  <2> QED BY <1>1, <1>5, <1>6, <2>3, <2>4, AnswerSound
<1>7. ASSUME g.event = "sse", q.stream, NEW s, Sends(r, s, "relay"), UNCHANGED marked,
             s = IF q.route = "chat" THEN <<SseHead, Frame("role", <<>>)>> ELSE <<SseHead>>
      PROVE  SInv'
  <2>1. <<>> \o s = s /\ s \in Seq(Frames) BY <1>7, FramesTyped
  <2>2. Relays(s, q, w, 1) \/ Chatting(s, q, w, 1)
    <3>1. CASE q.route = "chat"
      <4>1. Len(s) = 2 /\ s[1] = SseHead /\ s[2] = Frame("role", <<>>) BY <1>7, <3>1
      <4>2. Len(q.pieces) \in Nat /\ w.pos \in Nat BY <1>3, LenProperties DEF Case, Writers
      <4>3. Chunks(s, q, 0) BY <1>7, <3>1, <4>1, <4>2 DEF Chunks
      <4> QED BY <1>5, <1>7, <4>1, <4>2, <4>3 DEF Chatting
    <3>2. CASE q.route # "chat"
      <4>1. Len(s) = 1 /\ s[1] = SseHead BY <1>7, <3>2
      <4>2. q.route = "generate" BY <1>3, <3>2 DEF Case
      <4>3. 1 \in 1 .. Len(w.sent) BY <1>3, <1>5, LenProperties DEF Writers
      <4>4. \A i \in 1 .. 1 : s[i] = w.sent[i] BY <1>5, <1>7, <4>1
      <4> QED BY <1>5, <1>7, <4>1, <4>2, <4>3, <4>4 DEF Relays
    <3> QED BY <3>1, <3>2
  <2>3. reply[r] \o s = s /\ reply[r] \o s \in Seq(Frames) BY <1>2, <2>1
  <2>4. Replied(reply[r] \o s, q, w, 1, "relay", r \in marked')
    BY <1>2, <2>2, <2>3 DEF Replied
  <2> QED BY <1>1, <1>5, <1>7, <2>3, <2>4, AnswerSound
<1>8. CASE Sends(r, <<BadGateway>>, "ended") /\ MarkDriverFailedIfTracked(r)
  <2>1. /\ marked' = marked \/ marked' = marked \cup {r}
        /\ q.route = "generate" => r \in marked'
    BY <1>8 DEF MarkDriverFailedIfTracked
  <2> QED BY <1>1, <1>5, <1>8, <2>1, RefusalSound
<1> QED BY <1>1, <1>4, <1>6, <1>7, <1>8

(***************************************************************************)
(* The next frame, relayed or made a chunk of.                             *)
(***************************************************************************)
LEMMA RelaySound == ASSUME SInv, NEW r \in Requests, Relay(r) PROVE SInv'
<1> DEFINE w == conn[r]
           q == req[r]
           n == read[r]
           a == reply[r]
           g == w.sent[n + 1]
           over == q.route = "chat" /\ (g = Sentinel \/ g.event = "error")
<1>1. /\ at[r] = "relay" /\ n < Len(w.sent) /\ read' = [read EXCEPT ![r] = n + 1]
      /\ Sends(r, Relayed(r, g), IF over THEN "ended" ELSE "relay")
      /\ UNCHANGED <<given, settled, demand, marked, conn, node>>
  BY DEF Relay
<1>2. /\ q \in Case /\ w \in Writers /\ Written(w, q, Streams(r)) /\ Streams(r) \in BOOLEAN
      /\ a \in Seq(Frames) /\ n \in Nat /\ Len(w.sent) \in Nat /\ w.made
      /\ Relays(a, q, w, n) \/ Chatting(a, q, w, n)
  BY <1>1, OneRequest DEF Replied
<1>3. n + 1 \in Nat /\ n + 1 <= Len(w.sent) BY <1>1, <1>2
<1>4. g \in Frames
  <2>1. w.sent \in Seq(Frames) /\ n + 1 \in 1 .. Len(w.sent) BY <1>2, <1>3 DEF Writers
  <2> QED BY <2>1, ElementOfSeq
<1>5. CASE Relays(a, q, w, n)
  <2>1. q.route = "generate" BY <1>5 DEF Relays
  <2>2. Relayed(r, g) = <<g>> /\ ~over BY <2>1 DEF Relayed
  <2>3. Relays(a \o <<g>>, q, w, n + 1) BY <1>1, <1>2, <1>5, RelaysNext
  <2>4. a \o <<g>> \in Seq(Frames) BY <1>2, <1>4, OneFrame
  <2>5. Replied(a \o <<g>>, q, w, n + 1, "relay", r \in marked')
    BY <1>2, <2>3 DEF Replied
  <2>6. Sends(r, <<g>>, "relay") BY <1>1, <2>2
  <2> HIDE DEF g
  <2> QED BY <1>1, <1>3, <2>4, <2>5, <2>6, AnswerSound
<1>6. CASE Chatting(a, q, w, n)
  <2>1. q.route = "chat" BY <1>6 DEF Chatting, Chunks
  <2>2. PICK s : s = Relayed(r, g) OBVIOUS
  <2>3. \/ g = Sentinel /\ s = <<Frame("finish", <<>>), Sentinel>>
        \/ g # Sentinel /\ g.event = "error" /\ s = <<Error>>
        \/ g # Sentinel /\ g.event = "usage" /\ s = <<>>
        \/ g # Sentinel /\ g.event \notin {"error", "usage"} /\ s = <<Frame("content", g.data)>>
    <3>1. Sentinel.event = "data" BY DEF Sentinel, Data, Frame
    <3> HIDE DEF g
    <3> QED BY <2>1, <2>2, <3>1 DEF Relayed
  <2>4. /\ g = Sentinel => Chatted(a \o <<Frame("finish", <<>>), Sentinel>>, q)
        /\ g.event = "error" => Chatted(a \o <<Error>>, q)
        /\ g # Sentinel /\ g.event = "usage" => Chatting(a \o <<>>, q, w, n + 1)
        /\ g # Sentinel /\ g.event \notin {"error", "usage"} =>
             Chatting(a \o <<Frame("content", g.data)>>, q, w, n + 1)
    BY <1>1, <1>2, <1>6, ChatsNext
  <2>5. over => Chatted(a \o s, q) BY <2>3, <2>4
  <2>6. ~over => Chatting(a \o s, q, w, n + 1) BY <2>1, <2>3, <2>4
  <2>7. a \o s \in Seq(Frames)
    <3>1. s \in Seq(Frames)
      <4>1. Frame("content", g.data) \in Frames
        <5>1. g.data \in Seq(Pieces) BY <1>4 DEF Frames
        <5> QED BY <5>1, FramesTyped
      <4> HIDE DEF g
      <4>2. <<Error>> \in Seq(Frames) /\ <<>> \in Seq(Frames) BY FramesTyped
      <4>3. <<Frame("finish", <<>>), Sentinel>> \in Seq(Frames) BY FramesTyped
      <4>4. <<Frame("content", g.data)>> \in Seq(Frames) BY <4>1
      <4> QED BY <2>3, <4>2, <4>3, <4>4
    <3> QED BY <1>2, <3>1, ConcatProperties
  <2> HIDE DEF g
  <2>8. CASE over
    <3>1. Replied(a \o s, q, w, n + 1, "ended", r \in marked')
      BY <2>5, <2>8 DEF Replied, Answered
    <3> QED BY <1>1, <1>3, <2>2, <2>7, <2>8, <3>1, AnswerSound
  <2>9. CASE ~over
    <3>1. Replied(a \o s, q, w, n + 1, "relay", r \in marked')
      BY <1>2, <2>6, <2>9 DEF Replied
    <3> QED BY <1>1, <1>3, <2>2, <2>7, <2>9, <3>1, AnswerSound
  <2> QED BY <2>8, <2>9
<1> QED BY <1>2, <1>5, <1>6

(***************************************************************************)
(* A reply under way, left as it is.                                       *)
(***************************************************************************)
LEMMA LeftAsItIs ==
  ASSUME SInv, NEW r \in Requests, at[r] = "relay", NEW mark
  PROVE  /\ reply[r] \o <<>> = reply[r]
         /\ Replied(reply[r], req[r], conn[r], read[r], "ended", mark)
<1>1. reply[r] \in Seq(Frames) BY OneRequest
<1>2. Relays(reply[r], req[r], conn[r], read[r]) \/ Chatting(reply[r], req[r], conn[r], read[r])
  BY OneRequest DEF Replied
<1>3. Chatting(reply[r], req[r], conn[r], read[r]) => Chatted(reply[r], req[r])
  BY DEF Chatting, Chatted
<1> QED BY <1>1, <1>2, <1>3, ConcatEmptySeq DEF Replied, Answered

LEMMA StreamEndsSound == ASSUME SInv, NEW r \in Requests, StreamEnds(r) PROVE SInv'
<1>1. /\ at[r] = "relay" /\ Sends(r, <<>>, "ended")
      /\ UNCHANGED <<given, settled, demand, read, marked, conn, node>>
  BY DEF StreamEnds
<1>2. /\ reply[r] \o <<>> = reply[r]
      /\ Replied(reply[r], req[r], conn[r], read[r], "ended", r \in marked')
  BY <1>1, LeftAsItIs
<1>3. reply[r] \in Seq(Frames) /\ read[r] \in Nat /\ read[r] <= Len(conn[r].sent)
  BY OneRequest
<1>4. read' = [read EXCEPT ![r] = read[r]] BY <1>1 DEF SInv, TypeOK
<1> QED BY <1>1, <1>2, <1>3, <1>4, AnswerSound

(***************************************************************************)
(* A connection that failed: a 502, or a reply cut off behind its head.    *)
(***************************************************************************)
LEMMA ConnectionFailsSound ==
  ASSUME SInv, NEW r \in Requests, ConnectionFails(r) PROVE SInv'
<1>1. /\ at[r] \in {"fetch", "relay"} /\ FetchThrows(r)
      /\ UNCHANGED <<given, settled, demand, read, conn, node>>
  BY DEF ConnectionFails
<1>2. /\ marked' = marked \/ marked' = marked \cup {r}
      /\ req[r].route = "generate" => r \in marked'
  BY <1>1, Throwing
<1>3. CASE at[r] = "fetch"
  <2>1. read' = [read EXCEPT ![r] = 0] BY <1>1, <1>3, NothingSent
  <2>2. 0 <= Len(conn[r].sent) BY OneRequest
  <2>3. Sends(r, <<BadGateway>>, "ended") BY <1>1, <1>3, Throwing
  <2> QED BY <1>1, <1>2, <1>3, <2>1, <2>2, <2>3, RefusalSound
<1>4. CASE at[r] = "relay"
  <2>1. Sends(r, <<>>, "ended") BY <1>1, <1>4, Throwing
  <2>2. /\ reply[r] \o <<>> = reply[r]
        /\ Replied(reply[r], req[r], conn[r], read[r], "ended", r \in marked')
    BY <1>4, LeftAsItIs
  <2>3. reply[r] \in Seq(Frames) /\ read[r] \in Nat /\ read[r] <= Len(conn[r].sent)
    BY OneRequest
  <2>4. read' = [read EXCEPT ![r] = read[r]] BY <1>1 DEF SInv, TypeOK
  <2> QED BY <1>1, <1>2, <2>1, <2>2, <2>3, <2>4, AnswerSound
<1> QED BY <1>1, <1>3, <1>4

(***************************************************************************)
(* The timer: the node keeps what it wrote, and learns that nobody reads.  *)
(***************************************************************************)
LEMMA TimesOutSound == ASSUME SInv, NEW r \in Requests, TimesOut(r) PROVE SInv'
<1>1. /\ conn' = [conn EXCEPT ![r].gone = TRUE]
      /\ \/ at[r] = "fetch" /\ Sends(r, <<BadGateway>>, "ended")
         \/ at[r] = "relay" /\ Sends(r, <<>>, "ended")
      /\ marked' = marked \/ marked' = marked \cup {r}
      /\ req[r].route = "generate" => r \in marked'
      /\ UNCHANGED <<given, settled, demand, read, node>>
  BY Throwing DEF TimesOut
<1>2. PICK w : w = [conn[r] EXCEPT !.gone = TRUE] OBVIOUS
<1>3. /\ conn[r] \in Writers /\ conn \in [Requests -> Writers] /\ conn[r].made
      /\ Written(conn[r], req[r], Streams(r)) /\ (~conn[r].closed => Open(conn[r]))
      /\ reply[r] \in Seq(Frames) /\ read[r] \in Nat /\ read[r] <= Len(conn[r].sent)
      /\ Replied(reply[r], req[r], conn[r], read[r], at[r], r \in marked)
  BY <1>1, OneRequest DEF Replied
<1>4. /\ w \in Writers /\ w.pos = conn[r].pos /\ w.sent = conn[r].sent
      /\ w.made = conn[r].made /\ w.closed = conn[r].closed /\ w.told = conn[r].told
      /\ w.sse = conn[r].sse /\ w.json = conn[r].json /\ w.done = conn[r].done
      /\ w.error = conn[r].error
  BY <1>2, <1>3 DEF Writers
<1>5. Written(w, req[r], Streams(r)) /\ (~w.closed => Open(w))
  <2>1. Body(w) = Body(conn[r]) BY <1>4 DEF Body
  <2>2. StreamOf(conn[r], req[r]) => StreamOf(w, req[r]) BY <1>4, <2>1 DEF StreamOf
  <2> QED BY <1>3, <1>4, <2>2 DEF Written, Flags, Open
<1>6. /\ conn' = [conn EXCEPT ![r] = w] /\ conn' \in [Requests -> Writers] /\ conn'[r] = w
      /\ \A s \in Requests \ {r} : conn'[s] = conn[s]
  BY <1>1, <1>2, <1>3, <1>4
<1>7. PICK a : a = reply'[r] OBVIOUS
<1>8. /\ a \in Seq(Frames) /\ Replied(a, req[r], w, read[r], "ended", r \in marked')
      /\ at' = [at EXCEPT ![r] = "ended"] /\ reply' = [reply EXCEPT ![r] = a]
  <2>1. reply \in [Requests -> Seq(Frames)] BY DEF SInv, TypeOK
  <2>2. CASE at[r] = "fetch" /\ Sends(r, <<BadGateway>>, "ended")
    <3>1. reply[r] = <<>> BY <2>2, NothingSent
    <3>2. <<>> \o <<BadGateway>> = <<BadGateway>> /\ <<BadGateway>> \in Seq(Frames) BY FramesTyped
    <3>3. reply' = [reply EXCEPT ![r] = <<BadGateway>>] /\ at' = [at EXCEPT ![r] = "ended"]
      BY <2>2, <3>1, <3>2 DEF Sends
    <3>4. a = <<BadGateway>> BY <1>7, <2>1, <3>3
    <3>6. Replied(a, req[r], w, read[r], "ended", r \in marked')
      BY <1>1, <3>4 DEF Replied, Answered
    <3> QED BY <3>2, <3>3, <3>4, <3>6
  <2>3. CASE at[r] = "relay" /\ Sends(r, <<>>, "ended")
    <3>1. /\ reply[r] \o <<>> = reply[r]
          /\ Replied(reply[r], req[r], conn[r], read[r], "ended", r \in marked')
      BY <2>3, LeftAsItIs
    <3>2. reply' = [reply EXCEPT ![r] = reply[r]] /\ at' = [at EXCEPT ![r] = "ended"]
      BY <2>3, <3>1 DEF Sends
    <3>3. a = reply[r] BY <1>7, <2>1, <3>2
    <3>4. Grows(conn[r], w) BY <1>3, <1>4, LenProperties DEF Grows, Writers
    <3>5. PICK c : c = conn[r] OBVIOUS
    <3>6. Replied(a, req[r], w, read[r], "ended", r \in marked')
      BY <1>3, <1>4, <1>5, <3>1, <3>3, <3>4, <3>5, OneRequest, RepliedStays
    <3> QED BY <1>3, <3>2, <3>3, <3>6
  <2> QED BY <1>1, <2>2, <2>3
<1>9. Becomes(r, a, read[r], w, "ended")
  BY <1>1, <1>6, <1>8 DEF Becomes, SInv, TypeOK
<1>10. /\ marked' \subseteq Requests /\ settled' \subseteq Requests /\ demand' \subseteq Requests
       /\ backlog' \in Seq(Requests) /\ serving' \in Requests \cup {NoRequest} /\ alive' \in BOOLEAN
       /\ UNCHANGED <<backlog, serving>>
  BY <1>1 DEF node, SInv, TypeOK
<1>11. Others(r)
  <2>1. \A s \in Requests \ {r} : at'[s] = at[s] /\ reply'[s] = reply[s]
    BY <1>8 DEF SInv, TypeOK
  <2>2. \A s \in Requests \ {r} : (s \in marked') = (s \in marked)
    BY <1>1
  <2> QED BY <1>1, <1>6, <2>1, <2>2 DEF Others
<1>12. r \in settled' /\ req[r].verdict = "safe" BY <1>1, <1>3 DEF SInv, Passed
<1>13. Queue'
  <2>1. \A s \in Requests : conn'[s].made = conn[s].made /\ conn'[s].closed = conn[s].closed
    BY <1>4, <1>6
  <2>2. \A i \in 1 .. Len(backlog) : backlog[i] \in Requests
    BY ElementOfSeq DEF SInv, TypeOK
  <2>3. serving # NoRequest => serving \in Requests BY DEF SInv, TypeOK
  <2> QED BY <1>10, <2>1, <2>2, <2>3 DEF SInv, Queue
<1>14. read[r] <= Len(w.sent) BY <1>3, <1>4
<1> QED BY <1>3, <1>4, <1>5, <1>8, <1>9, <1>10, <1>11, <1>12, <1>13, <1>14, RequestSound

-----------------------------------------------------------------------------
(* The specification. *)

LEMMA StepStream == SInv /\ [Next]_vars => SInv'
<1> SUFFICES ASSUME SInv, [Next]_vars PROVE SInv'
  OBVIOUS
<1>1. CASE Accept BY <1>1, AcceptSound
<1>2. CASE NodeDies BY <1>2, NodeDiesSound
<1>3. ASSUME NEW r \in Requests, Coordinator(r) PROVE SInv'
  <2>1. \/ BodyRejected(r) \/ ClassifierSettles(r) \/ ClassifierTimesOut(r) \/ Forward(r)
        \/ ReceiveAnswer(r) \/ ConnectionFails(r) \/ Relay(r) \/ StreamEnds(r) \/ TimesOut(r)
    BY <1>3 DEF Coordinator
  <2> QED BY <2>1, BodyRejectedSound, ClassifierSettlesSound, ClassifierTimesOutSound,
             ForwardSound, ReceiveAnswerSound, ConnectionFailsSound, RelaySound,
             StreamEndsSound, TimesOutSound
<1>4. ASSUME NEW r \in Requests, Node(r) PROVE SInv'
  <2>1. \/ OnToken(r) \/ TellUsage(r) \/ HandlerReturns(r)
        \/ HandlerRefuses(r) \/ HandlerThrows(r) \/ PeerGone(r)
    BY <1>4 DEF Node
  <2> QED BY <2>1, OnTokenSound, TellUsageSound, HandlerReturnsSound, HandlerRefusesSound,
             HandlerThrowsSound, PeerGoneSound
<1>5. CASE UNCHANGED vars
  BY <1>5 DEF vars, SInv, TypeOK, NodeWrote, ClientGot, Queue, Passed, Streams
<1> QED BY <1>1, <1>2, <1>3, <1>4, <1>5 DEF Next

LEMMA StreamInvariant == Spec => []SInv
BY InitStream, StepStream, PTL DEF Spec

(***************************************************************************)
(* The types, and the coordinator never reads past what was sent.          *)
(***************************************************************************)
THEOREM StreamTypes == Spec => []TypeOK
<1>1. SInv => TypeOK BY DEF SInv
<1> QED BY <1>1, StreamInvariant, PTL

(***************************************************************************)
(* No prompt is forwarded or counted before the classifier answered in     *)
(* time that it is safe (server.ts gatePrompt).                            *)
(***************************************************************************)
THEOREM TheGateFailsClosed == Spec => []OnlySafeForwarded
<1>1. SInv => OnlySafeForwarded BY DEF SInv, Passed, OnlySafeForwarded
<1> QED BY <1>1, StreamInvariant, PTL

-----------------------------------------------------------------------------
(* What a client can make of it. *)

(***************************************************************************)
(* Every frame of a stream, by its place.                                  *)
(***************************************************************************)
LEMMA StreamFrames ==
  ASSUME NEW w \in Writers, NEW q \in Case, NEW streams \in BOOLEAN,
         Written(w, q, streams), w.sse, NEW i \in 1 .. Len(w.sent)
  PROVE  \/ i = 1 /\ w.sent[i] = SseHead
         \/ i \in 2 .. w.pos + 1 /\ w.sent[i] = Data(q.pieces[i - 1])
         \/ i = w.pos + 2 /\ w.told /\ w.sent[i] = Usage
         \/ i = Len(w.sent) /\ i = Body(w) + 1 /\ w.done /\ w.sent[i] = Sentinel
         \/ i = Len(w.sent) /\ i = Body(w) + 1 /\ w.error /\ w.sent[i] = Error
<1>1. StreamOf(w, q) /\ w.pos \in Nat /\ Len(w.sent) \in Nat
  BY LenProperties DEF Written, Writers
<1>2. /\ w.told => Body(w) = w.pos + 2
      /\ ~w.told => Body(w) = w.pos + 1
  BY DEF Body
<1>3. CASE i = 1 BY <1>1, <1>3 DEF StreamOf
<1>4. CASE i \in 2 .. w.pos + 1
  <2>1. i - 1 \in 1 .. w.pos /\ i = (i - 1) + 1 BY <1>1, <1>4
  <2>2. w.sent[(i - 1) + 1] = Data(q.pieces[i - 1]) BY <1>1, <2>1 DEF StreamOf
  <2> QED BY <1>4, <2>1, <2>2
<1>5. CASE i > w.pos + 1 /\ i <= Body(w)
  BY <1>1, <1>2, <1>5 DEF StreamOf
<1>6. CASE i > Body(w)
  <2>1. (w.done \/ w.error) /\ Len(w.sent) = Body(w) + 1
    BY <1>1, <1>2, <1>6 DEF StreamOf
  <2>2. i = Len(w.sent) BY <1>1, <1>2, <1>6, <2>1
  <2> QED BY <1>1, <2>1, <2>2 DEF StreamOf
<1> QED BY <1>1, <1>2, <1>3, <1>4, <1>5, <1>6

(***************************************************************************)
(* A 502 of a /generate marks the driver, whichever of the ways led to it: *)
(* no relayed frame can be one (server.ts:898, the calls of                *)
(* markDriverFailedIfTracked).                                             *)
(***************************************************************************)
THEOREM EveryBadGatewayMarks == Spec => []BadGatewayMarks
<1>1. SInv => BadGatewayMarks
  <2> SUFFICES ASSUME SInv, NEW r \in Requests,
                      req[r].route = "generate", Contains(reply[r], BadGateway)
               PROVE  r \in marked
    BY DEF BadGatewayMarks
  <2> DEFINE a == reply[r]
             q == req[r]
             w == conn[r]
  <2>1. /\ q \in Case /\ w \in Writers /\ Written(w, q, Streams(r)) /\ Streams(r) \in BOOLEAN
        /\ Replied(a, q, w, read[r], at[r], r \in marked)
        /\ at[r] \in {"gate", "ready", "fetch", "relay", "ended"}
    BY OneRequest DEF SInv, TypeOK
  <2>2. PICK i \in 1 .. Len(a) : a[i] = BadGateway BY DEF Contains
  <2>3. at[r] \in {"relay", "ended"} BY <2>1, <2>2 DEF Replied
  <2>4. a # <<Refused>> /\ a # <<Ok(q.pieces)>> BY <2>2, FrameEvents
  <2>5. ~Relays(a, q, w, read[r])
    <3> SUFFICES ASSUME Relays(a, q, w, read[r]) PROVE FALSE
      OBVIOUS
    <3>1. w.sse /\ i \in 1 .. Len(w.sent) /\ w.sent[i] = BadGateway
      BY <2>1, <2>2, LenProperties DEF Relays, Writers
    <3> HIDE DEF w, q
    <3> QED BY <2>1, <3>1, StreamFrames, FrameEvents
  <2>6. ~Chatted(a, q) /\ ~Chatting(a, q, w, read[r])
    BY DEF Chatted, Chatting, Chunks
  <2> QED BY <2>1, <2>3, <2>4, <2>5, <2>6 DEF Answered, Replied
<1> QED BY <1>1, StreamInvariant, PTL

(***************************************************************************)
(* A response is one answer or one stream with one ending, if no token     *)
(* spells the sentinel.                                                    *)
(***************************************************************************)
LEMMA WrittenWellFormed ==
  ASSUME NEW w \in Writers, NEW q \in Case, NEW streams \in BOOLEAN,
         Written(w, q, streams), Done \notin ToSet(q.pieces)
  PROVE  WellFormed(w.sent)
<1>1. \A i \in 1 .. Len(q.pieces) : q.pieces[i] # Done BY DEF ToSet
<1>2. CASE ~w.sse /\ ~w.json
  <2>1. Len(w.sent) = 0 BY <1>2 DEF Written
  <2> QED BY <2>1 DEF WellFormed
<1>3. CASE w.json
  <2>1. PICK f : w.sent = <<f>> /\ f.event \in {"ok", "refused", "badgateway"}
    BY <1>3, FrameEvents DEF Written
  <2> QED BY <2>1 DEF WellFormed
<1>4. CASE w.sse
  <2> SUFFICES ASSUME NEW i \in 1 .. Len(w.sent)
               PROVE  /\ Ending(w.sent[i]) => i = Len(w.sent)
                      /\ (i = 1) = (w.sent[i].event \in {"sse", "ok", "refused", "badgateway"})
    BY DEF WellFormed
  <2>1. w.pos \in Nat /\ w.pos <= Len(q.pieces) /\ Len(q.pieces) \in Nat
    BY LenProperties DEF Writers, Written, Flags, Case
  <2>2. Body(w) + 1 > 1 BY <2>1 DEF Body
  <2>3. i \in 2 .. w.pos + 1 => q.pieces[i - 1] # Done BY <1>1, <2>1
  <2>4. \/ i = 1 /\ w.sent[i] = SseHead
        \/ i \in 2 .. w.pos + 1 /\ w.sent[i] = Data(q.pieces[i - 1])
        \/ i = w.pos + 2 /\ w.sent[i] = Usage
        \/ i = Len(w.sent) /\ i > 1 /\ w.sent[i] = Sentinel
        \/ i = Len(w.sent) /\ i > 1 /\ w.sent[i] = Error
    BY <1>4, <2>2, StreamFrames
  <2> QED BY <2>1, <2>3, <2>4, FrameEvents DEF Ending
<1> QED BY <1>2, <1>3, <1>4

LEMMA AnsweredWellFormed ==
  ASSUME NEW w \in Writers, NEW q \in Case, NEW streams \in BOOLEAN,
         Written(w, q, streams), Done \notin ToSet(q.pieces),
         NEW a \in Seq(Frames), NEW n, NEW mark, Answered(a, q, w, n, mark)
  PROVE  WellFormed(a)
<1>1. CASE a = <<Refused>> \/ a = <<BadGateway>> \/ a = <<Ok(q.pieces)>>
  <2>1. PICK f : a = <<f>> /\ f.event \in {"ok", "refused", "badgateway"}
    BY <1>1, FrameEvents
  <2> QED BY <2>1 DEF WellFormed
<1>2. CASE Relays(a, q, w, n)
  <2>1. WellFormed(w.sent) BY WrittenWellFormed
  <2>2. /\ Len(w.sent) \in Nat /\ Len(a) \in 1 .. Len(w.sent)
        /\ \A i \in 1 .. Len(a) : a[i] = w.sent[i]
    BY <1>2, LenProperties DEF Relays, Writers
  <2> QED BY <2>1, <2>2 DEF WellFormed
<1>3. CASE Chatted(a, q)
  <2>1. PICK k \in Nat :
          /\ Chunks(a, q, k)
          /\ \/ Len(a) = k + 2
             \/ Len(a) = k + 3 /\ a[k + 3] = Error
             \/ Finished(a, q, k)
    BY <1>3 DEF Chatted
  <2> SUFFICES ASSUME NEW i \in 1 .. Len(a)
               PROVE  /\ Ending(a[i]) => i = Len(a)
                      /\ (i = 1) = (a[i].event \in {"sse", "ok", "refused", "badgateway"})
    BY DEF WellFormed
  <2>2. CASE i <= 2 BY <2>1, <2>2, FrameEvents DEF Chunks, Ending
  <2>3. CASE i > 2 /\ i <= k + 2
    <3>1. i - 2 \in 1 .. k /\ i = (i - 2) + 2 BY <2>3
    <3>2. a[(i - 2) + 2] = Frame("content", <<q.pieces[i - 2]>>)
      BY <2>1, <3>1 DEF Chunks
    <3>3. a[i].event = "content" BY <3>1, <3>2, FrameEvents
    <3> QED BY <2>3, <3>3, FrameEvents DEF Ending
  <2>4. CASE i > k + 2
    <3>1. \/ Len(a) = k + 3 /\ i = k + 3 /\ a[i] = Error
          \/ Len(a) = k + 4 /\ i = k + 3 /\ a[i] = Frame("finish", <<>>)
          \/ Len(a) = k + 4 /\ i = k + 4 /\ a[i] = Sentinel
      BY <2>1, <2>4 DEF Finished
    <3> QED BY <2>4, <3>1, FrameEvents DEF Ending
  <2> QED BY <2>1, <2>2, <2>3, <2>4
<1> QED BY <1>1, <1>2, <1>3 DEF Answered

(***************************************************************************)
(* What a client was sent so far is a well-formed answer, or nothing.      *)
(***************************************************************************)
LEMMA SentSoFar ==
  ASSUME SInv, NEW r \in Requests
  PROVE  reply[r] = <<>> \/ Answered(reply[r], req[r], conn[r], read[r], TRUE)
<1>1. /\ Replied(reply[r], req[r], conn[r], read[r], at[r], r \in marked)
      /\ at[r] \in {"gate", "ready", "fetch", "relay", "ended"}
  BY OneRequest DEF SInv, TypeOK
<1>2. CASE at[r] \in {"gate", "ready", "fetch"} BY <1>1, <1>2 DEF Replied
<1>3. CASE at[r] = "relay"
  <2>1. Chatting(reply[r], req[r], conn[r], read[r]) => Chatted(reply[r], req[r])
    BY DEF Chatting, Chatted
  <2> QED BY <1>1, <1>3, <2>1 DEF Replied, Answered
<1>4. CASE at[r] = "ended" BY <1>1, <1>4 DEF Replied, Answered
<1> QED BY <1>1, <1>2, <1>3, <1>4

THEOREM OneAnswerOneEnding == Spec => []OneEnding
<1>1. SInv => OneEnding
  <2> SUFFICES ASSUME SInv, NEW r \in Requests, Done \notin ToSet(req[r].pieces)
               PROVE  WellFormed(reply[r]) /\ WellFormed(conn[r].sent)
    BY DEF OneEnding
  <2>1. /\ req[r] \in Case /\ conn[r] \in Writers /\ Written(conn[r], req[r], Streams(r))
        /\ Streams(r) \in BOOLEAN /\ reply[r] \in Seq(Frames)
    BY OneRequest
  <2>2. WellFormed(conn[r].sent) BY <2>1, WrittenWellFormed
  <2>3. CASE reply[r] = <<>> BY <2>2, <2>3 DEF WellFormed
  <2>4. CASE Answered(reply[r], req[r], conn[r], read[r], TRUE)
    BY <2>1, <2>2, <2>4, AnsweredWellFormed
  <2> QED BY <2>3, <2>4, SentSoFar
<1> QED BY <1>1, StreamInvariant, PTL

(***************************************************************************)
(* A set of numbers that is not empty has a least one.                     *)
(***************************************************************************)
LEMMA LeastOf ==
  ASSUME NEW T, T \subseteq Nat, T # {}
  PROVE  \E m \in T : \A y \in T : m <= y
<1>1. \E R : IsWellFoundedOn(R, Nat) /\ \A x, y \in Nat : x < y => <<x, y>> \in R
  <2>1. \A x, y \in Nat : x < y => <<x, y>> \in OpToRel(<, Nat)
    BY DEF OpToRel
  <2> QED BY <2>1, NatLessThanWellFounded, Zenon
<1>2. PICK R : IsWellFoundedOn(R, Nat) /\ \A x, y \in Nat : x < y => <<x, y>> \in R
  BY <1>1
<1>3. IsWellFoundedOn(R, Nat) BY <1>2
<1>4. \E x \in T : \A y \in T : ~(<<y, x>> \in R) BY <1>3, WFMin, Zenon
<1>5. PICK m \in T : \A y \in T : ~(<<y, m>> \in R) BY <1>4
<1>6. ASSUME NEW y \in T, ~(m <= y) PROVE FALSE
  <2>1. y \in Nat /\ m \in Nat /\ y < m BY <1>6
  <2> QED BY <1>2, <1>5, <2>1
<1> QED BY <1>6

(***************************************************************************)
(* A reply whose text begins behind the first o frames and ends at a       *)
(* sentinel reads as that text.                                            *)
(***************************************************************************)
TextOf(a, o, text) ==
  /\ \A i \in 1 .. o : a[i].event \in {"sse", "role"}
  /\ \A i \in 1 .. Len(text) :
       /\ a[i + o].event \in {"data", "content"} /\ a[i + o].data = <<text[i]>>
       /\ a[i + o] # Sentinel
  /\ \E e \in {o + Len(text) + 1, o + Len(text) + 2} :
       /\ e <= Len(a) /\ a[e] = Sentinel
       /\ e = o + Len(text) + 2 => a[o + Len(text) + 1].event = "finish"

LEMMA ReadsText ==
  ASSUME NEW r \in Requests, req[r].stream, reply[r] \in Seq(Frames),
         NEW o \in Nat, NEW text \in Seq(Pieces), TextOf(reply[r], o, text)
  PROVE  Reads(r, text)
<1> DEFINE a == reply[r]
           m == Len(text)
<1>1. m \in Nat /\ Len(a) \in Nat BY LenProperties
<1>2. PICK e \in {o + m + 1, o + m + 2} :
        /\ e <= Len(a) /\ a[e] = Sentinel
        /\ e = o + m + 2 => a[o + m + 1].event = "finish"
  BY DEF TextOf
<1>3. PICK place : place = [i \in 1 .. m |-> i + o] OBVIOUS
<1>4. \A i \in 1 .. m : place[i] = i + o /\ place[i] \in 1 .. Len(a)
  BY <1>1, <1>2, <1>3
<1>5. \A i \in 1 .. m : i + o \in TextFrames(a)
  <2> TAKE i \in 1 .. m
  <2>1. \A j \in 1 .. i + o : a[j] # Sentinel
    <3> TAKE j \in 1 .. i + o
    <3>1. CASE j <= o
      <4>1. j \in 1 .. o BY <1>1, <3>1
      <4>2. a[j].event \in {"sse", "role"} BY <4>1 DEF TextOf
      <4> QED BY <4>2, FrameEvents
    <3>2. CASE j > o
      <4>1. j - o \in 1 .. m /\ j = (j - o) + o BY <1>1, <3>2
      <4>2. a[(j - o) + o] # Sentinel BY <4>1 DEF TextOf
      <4> QED BY <4>1, <4>2
    <3> QED BY <3>1, <3>2
  <2>2. a[i + o].event \in {"data", "content"} BY DEF TextOf
  <2>3. i + o \in 1 .. Len(a) BY <1>4
  <2> QED BY <2>1, <2>2, <2>3 DEF TextFrames
<1>6. \A k \in TextFrames(a) : \E i \in 1 .. m : place[i] = k
  <2> TAKE k \in TextFrames(a)
  <2>1. /\ k \in 1 .. Len(a) /\ a[k].event \in {"data", "content"}
        /\ \A j \in 1 .. k : a[j] # Sentinel
    BY DEF TextFrames
  <2>2. k > o BY <1>1, <2>1 DEF TextOf
  <2>3. k < e BY <1>1, <1>2, <2>1
  <2>4. k <= o + m BY <1>1, <1>2, <2>1, <2>3
  <2>5. k - o \in 1 .. m BY <1>1, <2>1, <2>2, <2>4
  <2>6. place[k - o] = k BY <1>4, <2>1, <2>5
  <2> QED BY <2>5, <2>6
<1>7. place \in [1 .. m -> TextFrames(a)] BY <1>3, <1>5
<1>8. \A i, j \in 1 .. m : i < j => place[i] < place[j] BY <1>1, <1>4
<1>9. \A i \in 1 .. m : a[place[i]].data = <<text[i]>> BY <1>4 DEF TextOf
<1> QED BY <1>6, <1>7, <1>8, <1>9 DEF Reads

(***************************************************************************)
(* A reply that holds a sentinel is the whole text of a model that came to *)
(* its end, or the text before the first token that spells the sentinel.   *)
(***************************************************************************)
CutAt(q, k) == q.pieces[k] = Done /\ \A j \in 1 .. k - 1 : q.pieces[j] # Done

LEMMA ChattedWhole ==
  ASSUME NEW q \in Case, NEW a \in Seq(Frames), Chatted(a, q), Contains(a, Sentinel)
  PROVE  \/ q.fate = "ends" /\ TextOf(a, 2, q.pieces)
         \/ \E k \in 1 .. Len(q.pieces) :
              CutAt(q, k) /\ TextOf(a, 2, SubSeq(q.pieces, 1, k - 1))
<1>1. PICK k \in Nat :
        /\ Chunks(a, q, k)
        /\ \/ Len(a) = k + 2
           \/ Len(a) = k + 3 /\ a[k + 3] = Error
           \/ Finished(a, q, k)
  BY DEF Chatted
<1>2. q.pieces \in Seq(Pieces) /\ Len(q.pieces) \in Nat /\ k <= Len(q.pieces)
  BY <1>1, LenProperties DEF Case, Chunks
<1>3. /\ a[1] = SseHead /\ a[2] = Frame("role", <<>>)
      /\ \A i \in 1 .. k : a[i + 2] = Frame("content", <<q.pieces[i]>>) /\ q.pieces[i] # Done
  BY <1>1 DEF Chunks
<1>4. Finished(a, q, k)
  <2>1. PICK i \in 1 .. Len(a) : a[i] = Sentinel BY DEF Contains
  <2>2. i > 2 BY <1>3, <2>1, FrameEvents
  <2>3. ~(i <= k + 2)
    <3> SUFFICES ASSUME i <= k + 2 PROVE FALSE
      OBVIOUS
    <3>1. i - 2 \in 1 .. k /\ i = (i - 2) + 2 BY <2>2
    <3>2. a[(i - 2) + 2] = Frame("content", <<q.pieces[i - 2]>>) BY <1>3, <3>1
    <3> QED BY <2>1, <3>1, <3>2, FrameEvents
  <2>4. a[k + 3] = Error /\ Len(a) = k + 3 => FALSE
    BY <2>1, <2>3, FrameEvents
  <2> QED BY <1>1, <2>1, <2>3, <2>4
<1>5. ASSUME NEW text, Len(text) = k, \A i \in 1 .. k : text[i] = q.pieces[i]
      PROVE  TextOf(a, 2, text)
  <2>1. \A i \in 1 .. 2 : a[i].event \in {"sse", "role"} BY <1>3, FrameEvents
  <2>2. ASSUME NEW i \in 1 .. k
        PROVE  /\ a[i + 2].event \in {"data", "content"} /\ a[i + 2].data = <<text[i]>>
               /\ a[i + 2] # Sentinel
    <3>1. a[i + 2] = Frame("content", <<text[i]>>) BY <1>3, <1>5
    <3> QED BY <3>1, FrameEvents
  <2>3. Len(a) = k + 4 /\ a[k + 4] = Sentinel /\ a[k + 3].event = "finish"
    BY <1>4, FrameEvents DEF Finished
  <2>4. \E e \in {2 + k + 1, 2 + k + 2} :
          /\ e <= Len(a) /\ a[e] = Sentinel
          /\ e = 2 + k + 2 => a[2 + k + 1].event = "finish"
    <3>1. 2 + k + 2 = k + 4 /\ 2 + k + 1 = k + 3 /\ k + 4 <= Len(a) BY <2>3
    <3> QED BY <2>3, <3>1
  <2> QED BY <1>5, <2>1, <2>2, <2>4 DEF TextOf
<1>6. CASE k = Len(q.pieces)
  <2>1. q.fate = "ends" BY <1>4, <1>6 DEF Finished
  <2>2. TextOf(a, 2, q.pieces) BY <1>5, <1>6
  <2> QED BY <2>1, <2>2
<1>7. CASE k # Len(q.pieces)
  <2>1. k + 1 \in 1 .. Len(q.pieces) /\ q.pieces[k + 1] = Done /\ (k + 1) - 1 = k
    BY <1>2, <1>4, <1>7 DEF Finished
  <2>2. CutAt(q, k + 1) BY <1>3, <2>1 DEF CutAt
  <2>3. /\ Len(SubSeq(q.pieces, 1, k)) = k
        /\ \A i \in 1 .. k : SubSeq(q.pieces, 1, k)[i] = q.pieces[i]
    BY <1>2, SubSeqProperties
  <2>4. TextOf(a, 2, SubSeq(q.pieces, 1, k)) BY <1>5, <2>3
  <2> QED BY <2>1, <2>2, <2>4
<1> QED BY <1>6, <1>7

LEMMA RelayedWhole ==
  ASSUME NEW q \in Case, NEW w \in Writers, NEW streams \in BOOLEAN, Written(w, q, streams),
         NEW a \in Seq(Frames), NEW n, Relays(a, q, w, n), Contains(a, Sentinel)
  PROVE  \/ q.fate = "ends" /\ TextOf(a, 1, q.pieces)
         \/ \E k \in 1 .. Len(q.pieces) :
              CutAt(q, k) /\ TextOf(a, 1, SubSeq(q.pieces, 1, k - 1))
<1>1. /\ w.sse /\ Len(w.sent) \in Nat /\ n \in 1 .. Len(w.sent) /\ Len(a) = n
      /\ \A i \in 1 .. n : a[i] = w.sent[i]
      /\ q.pieces \in Seq(Pieces) /\ Len(q.pieces) \in Nat
      /\ w.pos \in Nat /\ w.pos <= Len(q.pieces) /\ ~w.told
      /\ w.done => w.pos = Len(q.pieces) /\ q.fate = "ends"
  BY LenProperties DEF Relays, Writers, Case, Written, Flags
<1>2. Body(w) = w.pos + 1 BY <1>1 DEF Body
<1>3. ASSUME NEW i \in 1 .. n
      PROVE  \/ i = 1 /\ a[i] = SseHead
             \/ i \in 2 .. w.pos + 1 /\ a[i] = Data(q.pieces[i - 1])
             \/ i = w.pos + 2 /\ w.done /\ a[i] = Sentinel
             \/ i = w.pos + 2 /\ a[i] = Error
  <2>1. i \in 1 .. Len(w.sent) BY <1>1
  <2> QED BY <1>1, <1>2, <2>1, StreamFrames
<1>4. ASSUME NEW i \in 1 .. w.pos, i + 1 <= n
      PROVE  a[i + 1] = Data(q.pieces[i])
  <2>1. i + 1 \in 1 .. n /\ i + 1 \in 2 .. w.pos + 1 /\ (i + 1) - 1 = i BY <1>1, <1>4
  <2>2. i + 1 # 1 /\ i + 1 # w.pos + 2 BY <1>1, <1>4
  <2> QED BY <1>3, <2>1, <2>2
<1>5. ASSUME NEW text, NEW m \in Nat, Len(text) = m, m <= w.pos, m + 2 <= n,
             \A i \in 1 .. m : text[i] = q.pieces[i] /\ q.pieces[i] # Done,
             a[m + 2] = Sentinel
      PROVE  TextOf(a, 1, text)
  <2>1. \A i \in 1 .. 1 : a[i].event \in {"sse", "role"}
    <3>1. 1 \in 1 .. n /\ 1 # w.pos + 2 BY <1>1
    <3>2. a[1] = SseHead BY <1>1, <1>3, <3>1
    <3> QED BY <3>2, FrameEvents
  <2>2. ASSUME NEW i \in 1 .. m
        PROVE  /\ a[i + 1].event \in {"data", "content"} /\ a[i + 1].data = <<text[i]>>
               /\ a[i + 1] # Sentinel
    <3>1. i \in 1 .. w.pos /\ i + 1 <= n BY <1>1, <1>5
    <3>2. a[i + 1] = Data(q.pieces[i]) /\ q.pieces[i] # Done BY <1>4, <1>5, <3>1
    <3> QED BY <1>5, <3>2, FrameEvents
  <2>3. 1 + m + 1 = m + 2 OBVIOUS
  <2>4. m + 2 # 1 + m + 2 OBVIOUS
  <2> QED BY <1>1, <1>5, <2>1, <2>2, <2>3, <2>4 DEF TextOf
<1> DEFINE T == {k \in 1 .. w.pos : q.pieces[k] = Done /\ k + 1 <= n}
<1>6. CASE T # {}
  <2>1. T \subseteq Nat BY <1>1
  <2>2. PICK k \in T : \A y \in T : k <= y
    <3> HIDE DEF T
    <3> QED BY <1>6, <2>1, LeastOf
  <2>3. k \in 1 .. w.pos /\ q.pieces[k] = Done /\ k + 1 <= n OBVIOUS
  <2>4. \A j \in 1 .. k - 1 : j \in 1 .. w.pos /\ j + 1 <= n /\ j < k BY <1>1, <2>3
  <2>5. \A j \in 1 .. k - 1 : q.pieces[j] # Done BY <1>1, <2>2, <2>4
  <2>6. a[k + 1] = Sentinel BY <1>4, <2>3 DEF Sentinel
  <2>7. PICK text : text = SubSeq(q.pieces, 1, k - 1) OBVIOUS
  <2>8. Len(text) = k - 1 /\ \A i \in 1 .. k - 1 : text[i] = q.pieces[i]
    <3>1. \A i \in 1 .. k - 1 : q.pieces[i] \in Pieces BY <1>1, <2>3
    <3> QED BY <1>1, <2>3, <2>7, <3>1, SubSeqProperties
  <2>9. PICK m \in Nat : m = k - 1 BY <1>1, <2>3
  <2>10. m <= w.pos /\ m + 2 <= n /\ m + 2 = k + 1 BY <1>1, <2>3, <2>9
  <2>11. TextOf(a, 1, text) BY <1>5, <2>5, <2>6, <2>8, <2>9, <2>10
  <2>12. k \in 1 .. Len(q.pieces) BY <1>1, <2>3
  <2>13. CutAt(q, k) BY <2>3, <2>5 DEF CutAt
  <2> HIDE DEF T
  <2> QED BY <2>7, <2>11, <2>12, <2>13
<1>7. CASE T = {}
  <2>1. PICK i \in 1 .. n : a[i] = Sentinel BY <1>1 DEF Contains
  <2>2. ~(i \in 2 .. w.pos + 1 /\ a[i] = Data(q.pieces[i - 1]))
    <3> SUFFICES ASSUME i \in 2 .. w.pos + 1, a[i] = Data(q.pieces[i - 1]) PROVE FALSE
      OBVIOUS
    <3>1. q.pieces[i - 1] = Done BY <2>1, FrameEvents
    <3>2. i - 1 \in 1 .. w.pos /\ (i - 1) + 1 <= n BY <1>1, <2>1
    <3>3. i - 1 \in T BY <3>1, <3>2
    <3> QED BY <1>7, <3>3
  <2>3. i = w.pos + 2 /\ w.done BY <1>3, <2>1, <2>2, FrameEvents
  <2>4. w.pos = Len(q.pieces) /\ q.fate = "ends" BY <1>1, <2>3
  <2>5. ASSUME NEW j \in 1 .. w.pos PROVE q.pieces[j] # Done
    <3>1. j + 1 <= n BY <1>1, <2>1, <2>3
    <3> QED BY <1>7, <3>1
  <2>6. w.pos + 2 <= n /\ a[w.pos + 2] = Sentinel BY <1>1, <2>1, <2>3
  <2>7. PICK m \in Nat : m = w.pos BY <1>1
  <2>8. TextOf(a, 1, q.pieces) BY <1>1, <1>5, <2>4, <2>5, <2>6, <2>7
  <2> QED BY <2>4, <2>8
<1> QED BY <1>6, <1>7

(***************************************************************************)
(* What the client takes for complete is the whole text: whichever frame   *)
(* the node, the engine or a timer stopped at.                             *)
(***************************************************************************)
THEOREM CompleteRepliesAreWhole == Spec => []CompleteIsWhole
<1>1. SInv => CompleteIsWhole
  <2> SUFFICES ASSUME SInv, NEW r \in Requests, Complete(r)
               PROVE  \/ req[r].fate = "ends" /\ Reads(r, req[r].pieces)
                      \/ /\ req[r].stream
                         /\ \E k \in 1 .. Len(req[r].pieces) :
                              /\ req[r].pieces[k] = Done
                              /\ \A j \in 1 .. k - 1 : req[r].pieces[j] # Done
                              /\ Reads(r, SubSeq(req[r].pieces, 1, k - 1))
    BY DEF CompleteIsWhole
  <2> DEFINE a == reply[r]
             q == req[r]
             w == conn[r]
             n == read[r]
  <2>1. /\ q \in Case /\ w \in Writers /\ Written(w, q, Streams(r)) /\ Streams(r) \in BOOLEAN
        /\ a \in Seq(Frames) /\ q.stream \in BOOLEAN /\ q.pieces \in Seq(Pieces)
    BY OneRequest DEF Case
  <2>2. a # <<>> BY <2>1, EmptySeq DEF Complete, Contains
  <2>3. Answered(a, q, w, n, TRUE) BY <2>2, SentSoFar
  <2>4. CASE ~q.stream
    <3>1. Head(a).event = "ok" BY <2>4 DEF Complete
    <3>2. ~Relays(a, q, w, n) /\ ~Chatted(a, q) BY <2>4 DEF Relays, Chatted, Chunks
    <3>3. a = <<Refused>> \/ a = <<BadGateway>> \/ (a = <<Ok(q.pieces)>> /\ q.fate = "ends")
      BY <2>3, <3>2 DEF Answered
    <3>4. a # <<Refused>> /\ a # <<BadGateway>> BY <3>1, FrameEvents
    <3>5. Head(a) = Ok(q.pieces) /\ q.fate = "ends" BY <3>3, <3>4
    <3> QED BY <2>4, <3>5, FrameEvents DEF Reads
  <2>5. CASE q.stream
    <3>1. Contains(a, Sentinel) BY <2>5 DEF Complete
    <3>2. a # <<Refused>> /\ a # <<BadGateway>> /\ a # <<Ok(q.pieces)>>
      BY <3>1, FrameEvents DEF Contains
    <3>3. Relays(a, q, w, n) \/ Chatted(a, q) BY <2>3, <3>2 DEF Answered
    <3>4. PICK o \in {1, 2} :
            \/ q.fate = "ends" /\ TextOf(a, o, q.pieces)
            \/ \E k \in 1 .. Len(q.pieces) :
                 CutAt(q, k) /\ TextOf(a, o, SubSeq(q.pieces, 1, k - 1))
      <4> HIDE DEF a, q, w, n
      <4>1. CASE Relays(a, q, w, n)
        <5>1. \/ q.fate = "ends" /\ TextOf(a, 1, q.pieces)
              \/ \E k \in 1 .. Len(q.pieces) :
                   CutAt(q, k) /\ TextOf(a, 1, SubSeq(q.pieces, 1, k - 1))
          BY <2>1, <3>1, <4>1, RelayedWhole
        <5> QED BY <5>1
      <4>2. CASE Chatted(a, q)
        <5>1. \/ q.fate = "ends" /\ TextOf(a, 2, q.pieces)
              \/ \E k \in 1 .. Len(q.pieces) :
                   CutAt(q, k) /\ TextOf(a, 2, SubSeq(q.pieces, 1, k - 1))
          BY <2>1, <3>1, <4>2, ChattedWhole
        <5> QED BY <5>1
      <4> QED BY <3>3, <4>1, <4>2
    <3>5. o \in Nat OBVIOUS
    <3>6. CASE q.fate = "ends" /\ TextOf(a, o, q.pieces)
      <4>1. Reads(r, q.pieces) BY <2>1, <2>5, <3>5, <3>6, ReadsText
      <4> QED BY <3>6, <4>1
    <3>7. ASSUME NEW k \in 1 .. Len(q.pieces), CutAt(q, k),
                 TextOf(a, o, SubSeq(q.pieces, 1, k - 1))
          PROVE  Reads(r, SubSeq(q.pieces, 1, k - 1))
      <4>1. PICK text : text = SubSeq(q.pieces, 1, k - 1) OBVIOUS
      <4>2. text \in Seq(Pieces)
        <5>1. Len(q.pieces) \in Nat BY <2>1, LenProperties
        <5>2. \A i \in 1 .. k - 1 : q.pieces[i] \in Pieces BY <2>1, <5>1
        <5> QED BY <4>1, <5>1, <5>2, SubSeqProperties
      <4>3. Reads(r, text) BY <2>1, <2>5, <3>5, <3>7, <4>1, <4>2, ReadsText
      <4> QED BY <4>1, <4>3
    <3> QED BY <2>5, <3>4, <3>6, <3>7 DEF CutAt
  <2> QED BY <2>1, <2>4, <2>5
<1> QED BY <1>1, StreamInvariant, PTL

=============================================================================
