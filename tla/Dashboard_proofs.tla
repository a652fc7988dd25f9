--------------------------- MODULE Dashboard_proofs ---------------------------
(***************************************************************************)
(* What holds of a conversation on the dashboard, for any catalogs, any    *)
(* number of messages and pieces, and polls that bring any list of models  *)
(* in between.                                                             *)
(*                                                                         *)
(* The page's own variables say less than the argument needs: what is on   *)
(* the screen, and whose turn it is, depends on whether the message that   *)
(* grows has been pushed yet, a local of sendChatMessage (request.added).  *)
(*                                                                         *)
(* And what holds of a prompt check, for any rules files and any prompts:  *)
(* the expressions find in a text what an operator means by the terms.     *)
(* Both keep the first character of each run of white space, so a place in *)
(* a text is followed into its canonical form by its rank among these.     *)
(***************************************************************************)
EXTENDS Dashboard, SequenceTheorems, FiniteSetTheorems, NaturalsInduction,
        WellFoundedInduction, TLAPS

\* What a message may say.
Parts ==
  {"typed", "blocked", "token", "refused", "piece", "no output", "error",
   "truncated", "lost", "network"}

Messages ==
  [role : {"user", "assistant"}, text : Seq(Parts),
   status : {"plain", "blocked", "error"},
   ending : {"none", "done", "frame", "cut", "reset"}]

ShownRows ==
  [role : {"user", "assistant", "thinking"}, text : Seq(Parts),
   status : {"plain", "blocked", "error"}]

ChatFields ==
  {"history", "locked", "catalog", "options", "value", "disabled", "busy", "dom"}

(***************************************************************************)
(* The conversation's fields.  Of the model list only the one selected     *)
(* matters here, whatever it is.                                           *)
(***************************************************************************)
IsChat(c) ==
  /\ DOMAIN c = ChatFields
  /\ c.history \in Seq(Messages) /\ c.dom \in Seq(ShownRows)
  /\ c.locked \in BOOLEAN /\ c.disabled \in BOOLEAN /\ c.busy \in BOOLEAN

IsRequest(r) ==
  /\ DOMAIN r = {"phase", "authorized", "model", "added", "reset"}
  /\ r.phase \in {"none", "sent", "stream"} /\ r.added \in BOOLEAN
  /\ r.added => r.phase = "stream"

\* Whose turn it is: odd while the user's message has no reply yet.
Turns(h, open) ==
  /\ Len(h) % 2 = IF open THEN 1 ELSE 0
  /\ \A i \in 1 .. Len(h) : h[i].role = IF i % 2 = 1 THEN "user" ELSE "assistant"

Screen(h, open) == IF open THEN Append(Rows(h), Thinking) ELSE Rows(h)

Endings(h) ==
  \A i \in 1 .. Len(h) : h[i].ending \in {"cut", "frame"} => h[i].status = "error"

\* What a conversation has been sent to is the model selected, and stays so.
KeepsModel(c, models) ==
  models # {} => c.locked /\ c.disabled /\ models = {c.value}

Talk(c, open, models) ==
  IsChat(c) /\ Turns(c.history, open) /\ Endings(c.history) /\ KeepsModel(c, models)

\* A reply is awaited and has no row of its own.
Open(r) == r.phase # "none" /\ ~r.added

Conversation(c, r, models) ==
  /\ Talk(c, Open(r), models) /\ IsRequest(r)
  /\ c.busy <=> r.phase # "none"
  /\ c.busy => c.history # <<>>
  /\ c.dom = Screen(c.history, Open(r))

DInv == Conversation(chat, request, asked)

-------------------------------------------------------------------------------
(* What each part of a handler does to the conversation. *)

\* The last message has something more behind its text.
Longer(h, part) == [h EXCEPT ![Len(h)].text = Append(@, part)]

SameControls(c, d) ==
  /\ d.locked = c.locked /\ d.disabled = c.disabled /\ d.busy = c.busy
  /\ d.value = c.value

(***************************************************************************)
(* Rows are rows, one for each message.                                    *)
(***************************************************************************)
LEMMA RowsTyped ==
  ASSUME NEW h \in Seq(Messages)
  PROVE  /\ Rows(h) \in Seq(ShownRows) /\ Len(Rows(h)) = Len(h)
         /\ DOMAIN h = 1 .. Len(h) /\ Len(h) \in Nat
         /\ \A i \in 1 .. Len(h) : Rows(h)[i] = Row(h[i])
<1>1. DOMAIN h = 1 .. Len(h) /\ Len(h) \in Nat BY LenProperties
<1>2. ASSUME NEW i \in 1 .. Len(h) PROVE Row(h[i]) \in ShownRows
  <2>1. h[i] \in Messages BY ElementOfSeq
  <2> QED BY <2>1 DEF Row, Messages, ShownRows
<1>3. Rows(h) \in [1 .. Len(h) -> ShownRows] BY <1>1, <1>2 DEF Rows
<1>4. Rows(h) \in Seq(ShownRows) BY <1>1, <1>3, IsASeq
<1>5. Len(Rows(h)) = Len(h) BY <1>1, <1>3, <1>4, LenProperties
<1> QED BY <1>1, <1>4, <1>5 DEF Rows

LEMMA PushMessageEffect ==
  ASSUME NEW c, IsChat(c), NEW m \in Messages, NEW d, d = PushMessage(c, m)
  PROVE  /\ IsChat(d) /\ SameControls(c, d) /\ d.dom = c.dom
         /\ d.history = Append(c.history, m)
<1>1. Append(c.history, m) \in Seq(Messages) BY AppendProperties DEF IsChat
<1> QED BY <1>1 DEF PushMessage, IsChat, SameControls, ChatFields

LEMMA RenderEffect ==
  ASSUME NEW c, IsChat(c), NEW d, d = RenderChatHistory(c)
  PROVE  /\ IsChat(d) /\ SameControls(c, d) /\ d.dom = Rows(c.history)
         /\ d.history = c.history
<1>1. Rows(c.history) \in Seq(ShownRows) BY RowsTyped DEF IsChat
<1> QED BY <1>1 DEF RenderChatHistory, IsChat, SameControls, ChatFields

(***************************************************************************)
(* setChatBusy(true) puts the placeholder below the rows.                  *)
(***************************************************************************)
LEMMA BusyEffect ==
  ASSUME NEW c, IsChat(c), \A i \in 1 .. Len(c.dom) : c.dom[i] # Thinking,
         NEW d, d = SetChatBusy(c, TRUE)
  PROVE  /\ IsChat(d) /\ d.busy /\ d.locked /\ d.disabled /\ d.value = c.value
         /\ d.history = c.history /\ d.dom = Append(c.dom, Thinking)
<1>1. Thinking \in ShownRows
  BY EmptySeq DEF Thinking, ShownRows
<1>2. Append(c.dom, Thinking) \in Seq(ShownRows) BY <1>1, AppendProperties DEF IsChat
<1>3. ~Contains(c.dom, Thinking) BY DEF Contains
<1> QED BY <1>2, <1>3 DEF SetChatBusy, IsChat, ChatFields

(***************************************************************************)
(* The last two statements of a request leave the rows alone on the page   *)
(* and the model list as locked as the conversation is.                    *)
(***************************************************************************)
LEMMA FinishedEffect ==
  ASSUME NEW c, IsChat(c), NEW d, d = Finished(c)
  PROVE  /\ IsChat(d) /\ ~d.busy /\ d.locked = c.locked /\ d.disabled = c.locked
         /\ d.value = c.value
         /\ d.history = c.history /\ d.dom = Rows(c.history)
<1>1. Rows(c.history) \in Seq(ShownRows) BY RowsTyped DEF IsChat
<1> QED BY <1>1 DEF Finished, RenderChatHistory, SetChatBusy, IsChat, ChatFields

LEMMA LastMessage ==
  ASSUME NEW h \in Seq(Messages), h # <<>>
  PROVE  /\ Len(h) \in Nat /\ DOMAIN h = 1 .. Len(h) /\ Len(h) \in 1 .. Len(h)
         /\ h[Len(h)] \in Messages
<1>1. Len(h) \in Nat /\ DOMAIN h = 1 .. Len(h) BY LenProperties
<1>2. Len(h) # 0 BY EmptySeq
<1> QED BY <1>1, <1>2, ElementOfSeq

LEMMA RowOfGrown ==
  ASSUME NEW m \in Messages, NEW t
  PROVE  [Row(m) EXCEPT !.text = t] = Row([m EXCEPT !.text = t])
<1>1. /\ [m EXCEPT !.text = t].role = m.role
      /\ [m EXCEPT !.text = t].text = t
      /\ [m EXCEPT !.text = t].status = m.status
  BY DEF Messages
<1>2. [Row(m) EXCEPT !.text = t] = [role |-> m.role, text |-> t, status |-> m.status]
  BY DEF Row
<1> QED BY <1>1, <1>2 DEF Row

(***************************************************************************)
(* The last message of a conversation with something more behind its text, *)
(* and the last row of the page likewise: rows stay those of the messages. *)
(***************************************************************************)
LEMMA GrownEffect ==
  ASSUME NEW c, IsChat(c), c.history # <<>>, NEW part \in Parts,
         NEW d, d = Grown(c, part)
  PROVE  /\ IsChat(d) /\ SameControls(c, d) /\ d.dom = c.dom
         /\ Len(d.history) = Len(c.history)
         /\ \A i \in 1 .. Len(c.history) :
              /\ d.history[i].role = c.history[i].role
              /\ d.history[i].status = c.history[i].status
              /\ d.history[i].ending = c.history[i].ending
         /\ d.history = Longer(c.history, part)
<1> DEFINE h == c.history
           n == Len(h)
           g == [h EXCEPT ![n].text = Append(@, part)]
<1>1. h \in Seq(Messages) /\ n \in Nat /\ DOMAIN h = 1 .. n /\ n \in 1 .. n
  BY LastMessage DEF IsChat
<1>2. h[n] \in Messages BY LastMessage DEF IsChat
<1>3. Append(h[n].text, part) \in Seq(Parts) BY <1>2, AppendProperties DEF Messages
<1>4. [h[n] EXCEPT !.text = Append(@, part)] \in Messages BY <1>2, <1>3 DEF Messages
<1>5. g \in Seq(Messages) /\ Len(g) = n
  <2>1. g = [h EXCEPT ![n] = [h[n] EXCEPT !.text = Append(@, part)]]
    BY <1>1
  <2> QED BY <1>1, <1>4, <2>1, ExceptSeq
<1>6. d.history = g /\ DOMAIN d = ChatFields /\ SameControls(c, d) /\ d.dom = c.dom
  BY DEF Grown, IsChat, ChatFields, SameControls
<1>8. g = Longer(c.history, part) BY DEF Longer
<1>7. \A i \in 1 .. n :
         g[i].role = h[i].role /\ g[i].status = h[i].status /\ g[i].ending = h[i].ending
  BY <1>1, <1>2 DEF Messages
<1> HIDE DEF g
<1> QED BY <1>5, <1>6, <1>7, <1>8 DEF IsChat, SameControls

LEMMA PatchEffect ==
  ASSUME NEW c, IsChat(c), NEW h \in Seq(Messages), h # <<>>, c.dom = Rows(h),
         NEW part \in Parts, NEW d, d = AppendToLastChatMessage(c, part)
  PROVE  /\ IsChat(d) /\ SameControls(c, d) /\ d.history = c.history
         /\ d.dom = Rows(Longer(h, part))
<1> DEFINE n == Len(h)
           g == [h EXCEPT ![n].text = Append(@, part)]
           r == [c.dom EXCEPT ![n].text = Append(@, part)]
<1>1. n \in Nat /\ DOMAIN h = 1 .. n /\ n \in 1 .. n
  BY LenProperties, EmptySeq
<1>2. /\ c.dom \in Seq(ShownRows) /\ Len(c.dom) = n /\ DOMAIN c.dom = 1 .. n
      /\ \A i \in 1 .. n : c.dom[i] = Row(h[i])
  BY RowsTyped, <1>1, LenProperties DEF IsChat
<1>3. h[n] \in Messages /\ c.dom[n] \in ShownRows BY <1>1, <1>2, ElementOfSeq
<1>4. Append(c.dom[n].text, part) \in Seq(Parts) BY <1>3, AppendProperties DEF ShownRows
<1>5. [c.dom[n] EXCEPT !.text = Append(@, part)] \in ShownRows BY <1>3, <1>4 DEF ShownRows
<1>6. r \in Seq(ShownRows)
  <2>1. r = [c.dom EXCEPT ![n] = [c.dom[n] EXCEPT !.text = Append(@, part)]]
    BY <1>2
  <2> QED BY <1>1, <1>2, <1>5, <2>1, ExceptSeq
<1>7. r = Rows(g)
  <2>1. DOMAIN g = 1 .. n /\ DOMAIN r = 1 .. n BY <1>1, <1>2
  <2>2. r = [i \in 1 .. n |-> r[i]] BY <2>1, <1>6, <1>2
  <2>3. [c.dom[n] EXCEPT !.text = Append(@, part)] = Row([h[n] EXCEPT !.text = Append(@, part)])
    <3>1. c.dom[n] = Row(h[n]) /\ c.dom[n].text = h[n].text BY <1>1, <1>2 DEF Row
    <3> QED BY <1>3, <3>1, RowOfGrown
  <2>4. \A i \in 1 .. n : r[i] = Row(g[i])
    BY <1>1, <1>2, <2>3
  <2> HIDE DEF r, g
  <2> QED BY <2>1, <2>2, <2>4 DEF Rows
<1>8. c.dom # <<>> BY <1>1, <1>2, EmptySeq
<1>9. d = [c EXCEPT !.dom[n].text = Append(@, part)]
  BY <1>2, <1>8 DEF AppendToLastChatMessage
<1>10. d.dom = r /\ DOMAIN d = ChatFields /\ SameControls(c, d) /\ d.history = c.history
  BY <1>9 DEF IsChat, ChatFields, SameControls
<1>11. g = Longer(h, part) BY DEF Longer
<1> HIDE DEF g
<1> QED BY <1>6, <1>7, <1>10, <1>11 DEF IsChat, SameControls

(***************************************************************************)
(* The last message gets a status and an ending.                           *)
(***************************************************************************)
LEMMA EndedEffect ==
  ASSUME NEW c, IsChat(c), c.history # <<>>,
         NEW flag \in {"plain", "error"}, NEW ending \in {"done", "frame", "cut", "reset"},
         NEW d, d = Ended(c, flag, ending)
  PROVE  /\ IsChat(d) /\ SameControls(c, d) /\ d.dom = c.dom
         /\ Len(d.history) = Len(c.history)
         /\ \A i \in 1 .. Len(c.history) : d.history[i].role = c.history[i].role
         /\ \A i \in 1 .. Len(c.history) - 1 : d.history[i] = c.history[i]
         /\ d.history[Len(c.history)].status = flag
         /\ d.history[Len(c.history)].ending = ending
<1> DEFINE h == c.history
           n == Len(h)
           m == [h[n] EXCEPT !.status = flag, !.ending = ending]
           g == [h EXCEPT ![n] = m]
<1>1. h \in Seq(Messages) /\ n \in Nat /\ DOMAIN h = 1 .. n /\ n \in 1 .. n
  BY LastMessage DEF IsChat
<1>2. h[n] \in Messages BY LastMessage DEF IsChat
<1>3. m \in Messages /\ m.status = flag /\ m.ending = ending /\ m.role = h[n].role
  BY <1>2 DEF Messages
<1> HIDE DEF m
<1>4. g \in Seq(Messages) /\ Len(g) = n
  BY <1>1, <1>3, ExceptSeq
<1>5. \A i \in 1 .. n : g[i] = IF i = n THEN m ELSE h[i]
  BY <1>1
<1>6. d.history = g
  BY <1>1, <1>2 DEF m, Ended, IsChat, ChatFields, Messages
<1>7. DOMAIN d = ChatFields /\ SameControls(c, d) /\ d.dom = c.dom
  BY DEF Ended, IsChat, ChatFields, SameControls
<1> HIDE DEF g
<1>8. g[n] = m /\ \A i \in 1 .. n : g[i].role = h[i].role BY <1>1, <1>3, <1>5
<1>9. ASSUME NEW i \in 1 .. n - 1 PROVE g[i] = h[i]
  <2>1. i \in 1 .. n /\ i # n BY <1>1
  <2> QED BY <2>1, <1>5
<1>10. IsChat(d) BY <1>4, <1>6, <1>7 DEF IsChat, SameControls
<1> HIDE DEF IsChat, SameControls
<1> QED BY <1>3, <1>4, <1>6, <1>7, <1>8, <1>9, <1>10

(***************************************************************************)
(* A list of models never touches a conversation, nor the model of one     *)
(* that has begun.                                                         *)
(***************************************************************************)
LEMMA PopulateEffect ==
  ASSUME NEW c, IsChat(c), NEW catalog,
         NEW d, d = PopulateModelSelect([c EXCEPT !.catalog = catalog])
  PROVE  /\ IsChat(d) /\ d.locked = c.locked /\ d.disabled = c.disabled /\ d.busy = c.busy
         /\ d.history = c.history /\ d.dom = c.dom
         /\ c.locked => d.value = c.value
<1> DEFINE b == [c EXCEPT !.catalog = catalog]
<1>1. IsChat(b) /\ SameControls(c, b) /\ b.history = c.history /\ b.dom = c.dom
  BY DEF IsChat, ChatFields, SameControls
<1> HIDE DEF b
<1>2. CASE b.locked
  BY <1>1, <1>2 DEF PopulateModelSelect, b, SameControls
<1>3. CASE ~b.locked
  <2>1. PICK x, y : d = [b EXCEPT !.options = x, !.value = y]
    BY <1>3 DEF PopulateModelSelect, b
  <2> QED BY <1>1, <1>3, <2>1 DEF IsChat, ChatFields, SameControls
<1> QED BY <1>2, <1>3

-------------------------------------------------------------------------------
(* What they do to a conversation in order. *)

LEMMA Parity ==
  ASSUME NEW n \in Nat
  PROVE  /\ n % 2 \in {0, 1}
         /\ n % 2 = 0 => (n + 1) % 2 = 1
         /\ n % 2 = 1 => (n + 1) % 2 = 0
OBVIOUS

(***************************************************************************)
(* A message of the one whose turn it is.                                  *)
(***************************************************************************)
LEMMA TurnsTaken ==
  ASSUME NEW h \in Seq(Messages), NEW open \in BOOLEAN, Turns(h, open), Endings(h),
         NEW m \in Messages, m.role = IF open THEN "assistant" ELSE "user",
         m.ending \in {"cut", "frame"} => m.status = "error",
         NEW g, g = Append(h, m)
  PROVE  Turns(g, ~open) /\ Endings(g) /\ g # <<>>
<1>1. /\ g \in Seq(Messages) /\ Len(g) = Len(h) + 1 /\ g[Len(h) + 1] = m
      /\ \A i \in 1 .. Len(h) : g[i] = h[i]
  BY AppendProperties
<1>2. Len(h) \in Nat BY LenProperties
<1>3. g # <<>> BY <1>1, <1>2, EmptySeq
<1>4. Len(g) % 2 = IF open THEN 0 ELSE 1 BY <1>1, <1>2, Parity DEF Turns
<1>5. ASSUME NEW i \in 1 .. Len(g)
      PROVE  /\ g[i].role = IF i % 2 = 1 THEN "user" ELSE "assistant"
             /\ g[i].ending \in {"cut", "frame"} => g[i].status = "error"
  <2>1. CASE i \in 1 .. Len(h) BY <2>1, <1>1 DEF Turns, Endings
  <2>2. CASE i = Len(h) + 1
    <3>1. g[i] = m /\ i % 2 = IF open THEN 0 ELSE 1 BY <2>2, <1>1, <1>4
    <3> QED BY <3>1
  <2> QED BY <1>1, <1>2, <2>1, <2>2
<1> QED BY <1>3, <1>4, <1>5 DEF Turns, Endings

LEMMA Pushes ==
  ASSUME NEW c, NEW models, Talk(c, TRUE, models), NEW m \in Messages,
         m.role = "assistant", m.ending \in {"cut", "frame"} => m.status = "error",
         NEW d, d = PushMessage(c, m)
  PROVE  Talk(d, FALSE, models) /\ d.history # <<>>
<1>1. IsChat(d) /\ SameControls(c, d) /\ d.history = Append(c.history, m)
  BY PushMessageEffect DEF Talk
<1>2. c.history \in Seq(Messages) BY DEF Talk, IsChat
<1>3. Turns(d.history, ~TRUE) /\ Endings(d.history) /\ d.history # <<>>
  BY <1>1, <1>2, TurnsTaken DEF Talk
<1>4. KeepsModel(d, models) BY <1>1 DEF Talk, KeepsModel, SameControls
<1> QED BY <1>1, <1>3, <1>4 DEF Talk

LEMMA Grows ==
  ASSUME NEW c, NEW models, Talk(c, FALSE, models), c.history # <<>>,
         NEW part \in Parts, NEW d, d = Grown(c, part)
  PROVE  Talk(d, FALSE, models) /\ d.history # <<>>
<1>0. IsChat(c) BY DEF Talk
<1>1. /\ IsChat(d) /\ SameControls(c, d) /\ Len(d.history) = Len(c.history)
      /\ \A i \in 1 .. Len(c.history) :
           /\ d.history[i].role = c.history[i].role
           /\ d.history[i].status = c.history[i].status
           /\ d.history[i].ending = c.history[i].ending
  BY <1>0, GrownEffect
<1>2. Turns(d.history, FALSE) /\ Endings(d.history)
  BY <1>1 DEF Talk, Turns, Endings
<1>3. d.history # <<>> BY <1>1, EmptySeq, LastMessage DEF Talk, IsChat
<1>4. KeepsModel(d, models) BY <1>1 DEF Talk, KeepsModel, SameControls
<1> QED BY <1>1, <1>2, <1>3, <1>4 DEF Talk

LEMMA Ends ==
  ASSUME NEW c, NEW models, Talk(c, FALSE, models), c.history # <<>>,
         NEW flag \in {"plain", "error"}, NEW ending \in {"done", "frame", "cut", "reset"},
         ending \in {"cut", "frame"} => flag = "error",
         NEW d, d = Ended(c, flag, ending)
  PROVE  Talk(d, FALSE, models)
<1>1. /\ IsChat(d) /\ SameControls(c, d) /\ Len(d.history) = Len(c.history)
      /\ \A i \in 1 .. Len(c.history) : d.history[i].role = c.history[i].role
      /\ \A i \in 1 .. Len(c.history) - 1 : d.history[i] = c.history[i]
      /\ d.history[Len(c.history)].status = flag
      /\ d.history[Len(c.history)].ending = ending
  BY EndedEffect DEF Talk
<1>2. Turns(d.history, FALSE) BY <1>1 DEF Talk, Turns
<1>3. Endings(d.history)
  <2>1. Len(c.history) \in Nat BY LenProperties DEF Talk, IsChat
  <2>2. ASSUME NEW i \in 1 .. Len(d.history), d.history[i].ending \in {"cut", "frame"}
        PROVE  d.history[i].status = "error"
    <3>1. CASE i = Len(c.history) BY <3>1, <2>2, <1>1
    <3>2. CASE i \in 1 .. Len(c.history) - 1 BY <3>2, <2>1, <2>2, <1>1 DEF Talk, Endings
    <3> QED BY <1>1, <2>1, <3>1, <3>2
  <2> QED BY <2>2 DEF Endings
<1>4. KeepsModel(d, models) BY <1>1 DEF Talk, KeepsModel, SameControls
<1> QED BY <1>1, <1>2, <1>3, <1>4 DEF Talk

(***************************************************************************)
(* However a request ends, it leaves a conversation in order behind.       *)
(***************************************************************************)
LEMMA Finishes ==
  ASSUME NEW c, NEW models, Talk(c, FALSE, models), NEW d, d = Finished(c)
  PROVE  Conversation(d, NoRequest, models)
<1>1. /\ IsChat(d) /\ ~d.busy /\ d.locked = c.locked /\ d.disabled = c.locked
      /\ d.value = c.value /\ d.history = c.history /\ d.dom = Rows(c.history)
  BY FinishedEffect DEF Talk
<1>2. IsRequest(NoRequest) /\ NoRequest.phase = "none" /\ ~NoRequest.added
  BY DEF IsRequest, NoRequest
<1>3. Talk(d, FALSE, models) BY <1>1 DEF Talk, KeepsModel
<1>4. Open(NoRequest) = FALSE BY <1>2 DEF Open
<1> QED BY <1>1, <1>2, <1>3, <1>4 DEF Conversation, Screen

-------------------------------------------------------------------------------
(* The actions. *)

LEMMA MessageTyped ==
  ASSUME NEW role \in {"user", "assistant"}, NEW text \in Seq(Parts),
         NEW flag \in {"plain", "blocked", "error"},
         NEW ending \in {"none", "done", "frame", "cut", "reset"},
         NEW m, m = Message(role, text, flag, ending)
  PROVE  m \in Messages /\ m.role = role /\ m.status = flag /\ m.ending = ending
BY DEF Message, Messages

LEMMA OnePart ==
  \A part \in Parts : <<part>> \in Seq(Parts)
OBVIOUS

(***************************************************************************)
(* The rows of messages are none of them the placeholder.                  *)
(***************************************************************************)
LEMMA NoRowThinks ==
  ASSUME NEW h \in Seq(Messages)
  PROVE  \A i \in 1 .. Len(h) : Rows(h)[i] # Thinking
<1>1. ASSUME NEW i \in 1 .. Len(h) PROVE Rows(h)[i].role # "thinking"
  <2>1. h[i] \in Messages BY ElementOfSeq
  <2>2. h[i].role # "thinking" BY <2>1 DEF Messages
  <2>3. Rows(h)[i] = Row(h[i]) BY RowsTyped
  <2> QED BY <2>2, <2>3 DEF Row
<1> QED BY <1>1 DEF Thinking

(***************************************************************************)
(* Sending: the model is the one selected, and stays so.                   *)
(***************************************************************************)
LEMMA Sends ==
  ASSUME NEW c, NEW r, NEW models, Conversation(c, r, models), ~c.busy,
         NEW d, d = SetChatBusy(RenderChatHistory(
                      PushMessage(c, Message("user", <<"typed">>, "plain", "none"))), TRUE),
         NEW q, IsRequest(q), q.phase = "sent", ~q.added
  PROVE  Conversation(d, q, models \cup {c.value})
<1> DEFINE m == Message("user", <<"typed">>, "plain", "none")
<1>1. m \in Messages /\ m.role = "user" /\ m.ending = "none"
  <2>1. PICK text \in Seq(Parts) : text = <<"typed">> BY OnePart DEF Parts
  <2>2. m = Message("user", text, "plain", "none") BY <2>1
  <2> HIDE DEF m
  <2> QED BY <2>2, MessageTyped
<1> HIDE DEF m
<1>2. PICK a : a = PushMessage(c, m) OBVIOUS
<1>3. PICK b : b = RenderChatHistory(a) OBVIOUS
<1>4. d = SetChatBusy(b, TRUE) BY <1>2, <1>3 DEF m
<1>5. IsChat(c) /\ Talk(c, FALSE, models) /\ c.history \in Seq(Messages)
  BY DEF Conversation, Open, Talk, IsChat
<1>6. IsChat(a) /\ SameControls(c, a) /\ a.history = Append(c.history, m)
  BY <1>1, <1>2, <1>5, PushMessageEffect
<1>7. Turns(a.history, TRUE) /\ Endings(a.history) /\ a.history # <<>>
  <2>1. Turns(a.history, ~FALSE) /\ Endings(a.history) /\ a.history # <<>>
    BY <1>1, <1>5, <1>6, TurnsTaken DEF Talk
  <2> QED BY <2>1
<1>8. IsChat(b) /\ SameControls(a, b) /\ b.history = a.history /\ b.dom = Rows(a.history)
  BY <1>3, <1>6, RenderEffect
<1>9. \A i \in 1 .. Len(b.dom) : b.dom[i] # Thinking
  BY <1>6, <1>8, NoRowThinks, RowsTyped DEF IsChat
<1>10. /\ IsChat(d) /\ d.busy /\ d.locked /\ d.disabled /\ d.value = b.value
       /\ d.history = b.history /\ d.dom = Append(b.dom, Thinking)
  BY <1>4, <1>8, <1>9, BusyEffect
<1>11. d.value = c.value BY <1>6, <1>8, <1>10 DEF SameControls
<1>12. KeepsModel(d, models \cup {c.value})
  <2>1. models = {} \/ models = {c.value} BY <1>5 DEF Talk, KeepsModel
  <2> QED BY <2>1, <1>10, <1>11 DEF KeepsModel
<1>13. Open(q) = TRUE /\ q.phase # "none" BY DEF Open
<1> QED BY <1>7, <1>8, <1>10, <1>12, <1>13 DEF Conversation, Talk, Screen

(***************************************************************************)
(* A request that ends with a message of its own.                          *)
(***************************************************************************)
LEMMA Replies ==
  ASSUME NEW c, NEW r, NEW models, Conversation(c, r, models),
         r.phase # "none", ~r.added,
         NEW part \in Parts, NEW flag \in {"plain", "blocked", "error"},
         NEW ending \in {"none", "done", "frame", "cut", "reset"},
         ending \in {"cut", "frame"} => flag = "error",
         NEW d, d = Finished(PushMessage(c, Message("assistant", <<part>>, flag, ending)))
  PROVE  Conversation(d, NoRequest, models)
<1>1. PICK m : m = Message("assistant", <<part>>, flag, ending) OBVIOUS
<1>2. m \in Messages /\ m.role = "assistant" /\ m.status = flag /\ m.ending = ending
  <2>1. PICK text \in Seq(Parts) : text = <<part>> BY OnePart
  <2>2. m = Message("assistant", text, flag, ending) BY <1>1, <2>1
  <2> QED BY <2>2, MessageTyped
<1>3. PICK a : a = PushMessage(c, m) OBVIOUS
<1>4. Open(r) = TRUE BY DEF Open
<1>5. Talk(c, TRUE, models) BY <1>4 DEF Conversation
<1>6. Talk(a, FALSE, models) BY <1>2, <1>3, <1>5, Pushes
<1> QED BY <1>1, <1>3, <1>6, Finishes

(***************************************************************************)
(* A piece: with the row of its message, or behind it.                     *)
(***************************************************************************)
LEMMA FirstPiece ==
  ASSUME NEW c, NEW r, NEW models, Conversation(c, r, models),
         r.phase = "stream", ~r.added, NEW d, d = FirstPieceShown(c),
         NEW q, IsRequest(q), q.phase = "stream", q.added
  PROVE  Conversation(d, q, models)
<1>1. PICK m : m = Message("assistant", <<"piece">>, "plain", "none") OBVIOUS
<1>2. m \in Messages /\ m.role = "assistant" /\ m.ending = "none"
  <2>1. PICK text \in Seq(Parts) : text = <<"piece">> BY OnePart DEF Parts
  <2>2. m = Message("assistant", text, "plain", "none") BY <1>1, <2>1
  <2> QED BY <2>2, MessageTyped
<1>3. PICK a : a = PushMessage(c, m) OBVIOUS
<1>4. Open(r) = TRUE BY DEF Open
<1>5. Talk(c, TRUE, models) BY <1>4 DEF Conversation
<1>6. Talk(a, FALSE, models) /\ a.history # <<>> BY <1>2, <1>3, <1>5, Pushes
<1>7. IsChat(a) BY <1>6 DEF Talk
<1>8. d = RenderChatHistory(a) BY <1>1, <1>3 DEF FirstPieceShown
<1>9. IsChat(d) /\ SameControls(a, d) /\ d.dom = Rows(a.history) /\ d.history = a.history
  BY <1>7, <1>8, RenderEffect
<1>10. SameControls(c, a) BY <1>2, <1>3, <1>5, PushMessageEffect DEF Talk
<1>11. d.busy = c.busy BY <1>9, <1>10 DEF SameControls
<1>12. Talk(d, FALSE, models) BY <1>6, <1>9 DEF Talk, KeepsModel, SameControls
<1>13. Open(q) = FALSE BY DEF Open
<1> QED BY <1>6, <1>9, <1>11, <1>12, <1>13 DEF Conversation, Screen

LEMMA LaterPiece ==
  ASSUME NEW c, NEW r, NEW models, Conversation(c, r, models),
         r.phase = "stream", r.added,
         NEW d, d = AppendToLastChatMessage(Grown(c, "piece"), "piece"),
         NEW q, IsRequest(q), q.phase = "stream", q.added
  PROVE  Conversation(d, q, models)
<1>1. PICK a : a = Grown(c, "piece") OBVIOUS
<1>2. Open(r) = FALSE /\ Open(q) = FALSE BY DEF Open
<1>3. Talk(c, FALSE, models) /\ c.history # <<>> /\ c.dom = Rows(c.history) /\ c.busy
  BY <1>2 DEF Conversation, Screen
<1>0. "piece" \in Parts BY DEF Parts
<1>4. Talk(a, FALSE, models) /\ a.history # <<>> BY <1>0, <1>1, <1>3, Grows
<1>5. IsChat(c) /\ IsChat(a) /\ c.history \in Seq(Messages) BY <1>3, <1>4 DEF Talk, IsChat
<1>6. /\ SameControls(c, a) /\ a.dom = Rows(c.history)
      /\ a.history = Longer(c.history, "piece")
  BY <1>0, <1>1, <1>3, <1>5, GrownEffect
<1>7. /\ IsChat(d) /\ SameControls(a, d) /\ d.history = a.history
      /\ d.dom = Rows(Longer(c.history, "piece"))
  BY <1>0, <1>1, <1>3, <1>5, <1>6, PatchEffect
<1>8. d.dom = Rows(d.history) /\ d.busy BY <1>3, <1>6, <1>7 DEF SameControls
<1>9. Talk(d, FALSE, models) BY <1>4, <1>7 DEF Talk, KeepsModel, SameControls
<1> QED BY <1>2, <1>4, <1>7, <1>8, <1>9 DEF Conversation, Screen

(***************************************************************************)
(* A request that ends with what it added last.                            *)
(***************************************************************************)
LEMMA Concludes ==
  ASSUME NEW c, NEW r, NEW models, Conversation(c, r, models), r.added,
         NEW flag \in {"plain", "error"}, NEW ending \in {"done", "frame", "cut", "reset"},
         ending \in {"cut", "frame"} => flag = "error",
         NEW b, \/ b = c
                \/ \E part \in Parts : b = Grown(c, part)
  PROVE  /\ Conversation(Finished(Ended(b, flag, ending)), NoRequest, models)
         /\ Conversation(Finished(RenderChatHistory(Ended(b, flag, ending))),
                         NoRequest, models)
<1>1. Open(r) = FALSE /\ r.phase # "none" BY DEF Open, Conversation, IsRequest
<1>2. Talk(c, FALSE, models) /\ c.history # <<>> BY <1>1 DEF Conversation
<1>3. Talk(b, FALSE, models) /\ b.history # <<>> BY <1>2, Grows
<1>4. PICK a : a = Ended(b, flag, ending) OBVIOUS
<1>5. Talk(a, FALSE, models) BY <1>3, <1>4, Ends
<1>6. PICK d : d = RenderChatHistory(a) OBVIOUS
<1>7. IsChat(d) /\ SameControls(a, d) /\ d.history = a.history
  BY <1>5, <1>6, RenderEffect DEF Talk
<1>8. Talk(d, FALSE, models) BY <1>5, <1>7 DEF Talk, KeepsModel, SameControls
<1>9. PICK e, f : e = Finished(a) /\ f = Finished(d) OBVIOUS
<1>10. Conversation(e, NoRequest, models) /\ Conversation(f, NoRequest, models)
  BY <1>5, <1>8, <1>9, Finishes
<1> QED BY <1>4, <1>6, <1>9, <1>10

-------------------------------------------------------------------------------
(* The invariant. *)

LEMMA InitConversation == Init => DInv
<1> SUFFICES ASSUME Init PROVE DInv OBVIOUS
<1>1. /\ chat.history = <<>> /\ chat.dom = <<>> /\ ~chat.busy /\ DOMAIN chat = ChatFields
      /\ chat.locked \in BOOLEAN /\ chat.disabled \in BOOLEAN /\ chat.busy \in BOOLEAN
  BY DEF Init, ChatFields
<1>2. request = NoRequest /\ asked = {} BY DEF Init
<1>3. IsChat(chat) BY <1>1, EmptySeq DEF IsChat
<1>4. IsRequest(request) /\ request.phase = "none" BY <1>2 DEF IsRequest, NoRequest
<1>5. Open(request) = FALSE BY <1>4 DEF Open
<1>6. Turns(chat.history, FALSE) /\ Endings(chat.history)
  BY <1>1, EmptySeq DEF Turns, Endings
<1>7. Rows(chat.history) = <<>>
  <2>1. chat.history \in Seq(Messages) /\ Len(chat.history) = 0 BY <1>1, EmptySeq
  <2>2. PICK h : h = chat.history OBVIOUS
  <2>3. Rows(h) \in Seq(ShownRows) /\ Len(Rows(h)) = 0 BY <2>1, <2>2, RowsTyped
  <2> QED BY <2>2, <2>3, EmptySeq
<1>8. KeepsModel(chat, asked) BY <1>2 DEF KeepsModel
<1> QED BY <1>1, <1>3, <1>4, <1>5, <1>6, <1>7, <1>8 DEF DInv, Conversation, Talk, Screen

(***************************************************************************)
(* A conversation nobody touches, whatever else of its request changes.    *)
(***************************************************************************)
LEMMA Untouched ==
  ASSUME NEW c, NEW r, NEW models, Conversation(c, r, models),
         NEW d, IsChat(d), d.history = c.history, d.dom = c.dom, d.busy = c.busy,
         d.locked = c.locked, d.disabled = c.disabled, c.locked => d.value = c.value,
         NEW q, IsRequest(q), q.added = r.added,
         (q.phase = "none") <=> (r.phase = "none")
  PROVE  Conversation(d, q, models)
<1>1. Open(q) = Open(r) BY DEF Open
<1>2. KeepsModel(d, models) BY DEF Conversation, Talk, KeepsModel
<1> QED BY <1>1, <1>2 DEF Conversation, Talk

LEMMA AskedForModel ==
  ASSUME DInv, SendChatMessage
  PROVE  DInv'
<1>1. PICK c, r, models, d, q :
        c = chat /\ r = request /\ models = asked /\ d = chat' /\ q = request'
  OBVIOUS
<1>2. Conversation(c, r, models) /\ ~c.busy BY <1>1 DEF DInv, SendChatMessage
<1>3. d = SetChatBusy(RenderChatHistory(
            PushMessage(c, Message("user", <<"typed">>, "plain", "none"))), TRUE)
  BY <1>1 DEF SendChatMessage
<1>4. IsRequest(q) /\ q.phase = "sent" /\ ~q.added
  BY <1>1 DEF SendChatMessage, NoRequest, IsRequest
<1>5. asked' = models \cup {c.value} BY <1>1 DEF SendChatMessage
<1>6. Conversation(d, q, models \cup {c.value}) BY <1>2, <1>3, <1>4, Sends
<1> QED BY <1>1, <1>5, <1>6 DEF DInv

(***************************************************************************)
(* Every way a request ends before its first piece.                        *)
(***************************************************************************)
LEMMA EndsWithReply ==
  ASSUME DInv, request.phase # "none", ~request.added,
         NEW part \in Parts, NEW flag \in {"plain", "blocked", "error"},
         NEW ending \in {"none", "done", "frame", "cut", "reset"},
         ending \in {"cut", "frame"} => flag = "error",
         chat' = Finished(PushMessage(chat, Message("assistant", <<part>>, flag, ending))),
         request' = NoRequest, asked' = asked
  PROVE  DInv'
<1>1. PICK c, r, models, d :
        c = chat /\ r = request /\ models = asked /\ d = chat'
  OBVIOUS
<1>2. /\ Conversation(c, r, models) /\ r.phase # "none" /\ ~r.added
      /\ d = Finished(PushMessage(c, Message("assistant", <<part>>, flag, ending)))
  BY <1>1 DEF DInv
<1>3. Conversation(d, NoRequest, models) BY <1>2, Replies
<1> QED BY <1>1, <1>3 DEF DInv

(***************************************************************************)
(* Every way it ends after it, with more behind its text or not.           *)
(***************************************************************************)
LEMMA EndsWithMessage ==
  ASSUME DInv, request.added,
         NEW flag \in {"plain", "error"}, NEW ending \in {"done", "frame", "cut", "reset"},
         ending \in {"cut", "frame"} => flag = "error",
         NEW b, b = chat \/ \E part \in Parts : b = Grown(chat, part),
         \/ chat' = Finished(Ended(b, flag, ending))
         \/ chat' = Finished(RenderChatHistory(Ended(b, flag, ending))),
         request' = NoRequest, asked' = asked
  PROVE  DInv'
<1>1. PICK c, r, models, d :
        c = chat /\ r = request /\ models = asked /\ d = chat'
  OBVIOUS
<1>2. /\ Conversation(c, r, models) /\ r.added
      /\ b = c \/ \E part \in Parts : b = Grown(c, part)
  BY <1>1 DEF DInv
<1>3. /\ Conversation(Finished(Ended(b, flag, ending)), NoRequest, models)
      /\ Conversation(Finished(RenderChatHistory(Ended(b, flag, ending))), NoRequest, models)
  BY <1>2, Concludes
<1>4. Conversation(d, NoRequest, models) BY <1>1, <1>3
<1> QED BY <1>1, <1>4 DEF DInv

LEMMA Replying ==
  ASSUME DInv, ChatSteps
  PROVE  DInv'
<1>1. IsRequest(request) BY DEF DInv, Conversation
<1>2. \A phase \in {"sent", "none"} : request.phase = phase => ~request.added
  BY <1>1 DEF IsRequest
<1> USE DEF Reply, ReplyEnds, Generating
<1>3. CASE Blocked
  <2>1. "blocked" \in Parts BY DEF Parts
  <2> QED BY <1>2, <1>3, <2>1, EndsWithReply DEF Blocked
<1>4. CASE Unauthorized
  <2>1. "token" \in Parts BY DEF Parts
  <2> QED BY <1>2, <1>4, <2>1, EndsWithReply DEF Unauthorized
<1>5. CASE Refused
  <2>1. "refused" \in Parts BY DEF Parts
  <2> QED BY <1>2, <1>5, <2>1, EndsWithReply DEF Refused
<1>6. CASE StreamOpens
  <2>1. /\ IsRequest(request') /\ request'.added = request.added
        /\ request'.phase # "none" /\ request.phase # "none"
    BY <1>1, <1>6 DEF StreamOpens, IsRequest
  <2>2. PICK c, r, q : c = chat /\ r = request /\ q = request' OBVIOUS
  <2>3. Conversation(c, r, asked) /\ IsChat(c) BY <2>2 DEF DInv, Conversation, Talk
  <2>4. PICK models : models = asked OBVIOUS
  <2>5. Conversation(c, q, models) BY <2>1, <2>2, <2>3, <2>4, Untouched
  <2> QED BY <1>6, <2>2, <2>4, <2>5 DEF StreamOpens, DInv
<1>7. CASE PieceArrives
  <2>1. PICK c, r, models, d, q :
          c = chat /\ r = request /\ models = asked /\ d = chat' /\ q = request'
    OBVIOUS
  <2>2. Conversation(c, r, models) /\ r.phase = "stream" BY <1>7, <2>1 DEF DInv, PieceArrives
  <2>3. IsRequest(q) /\ q.phase = "stream" /\ q.added
    BY <1>1, <1>7, <2>1 DEF PieceArrives, IsRequest
  <2>4. CASE r.added
    <3>1. d = AppendToLastChatMessage(Grown(c, "piece"), "piece")
      BY <1>7, <2>1, <2>4 DEF PieceArrives
    <3>2. Conversation(d, q, models) BY <2>2, <2>3, <2>4, <3>1, LaterPiece
    <3> QED BY <1>7, <2>1, <3>2 DEF PieceArrives, DInv
  <2>5. CASE ~r.added
    <3>1. d = FirstPieceShown(c) BY <1>7, <2>1, <2>5 DEF PieceArrives
    <3>2. Conversation(d, q, models) BY <2>2, <2>3, <2>5, <3>1, FirstPiece
    <3> QED BY <1>7, <2>1, <3>2 DEF PieceArrives, DInv
  <2> QED BY <2>4, <2>5
<1>8. CASE DoneArrives
  <2>1. CASE request.added
    <3>1. PICK b : b = chat OBVIOUS
    <3>2. chat' = Finished(Ended(b, "plain", "done")) /\ request' = NoRequest /\ asked' = asked
      BY <1>8, <2>1, <3>1 DEF DoneArrives
    <3> QED BY <2>1, <3>1, <3>2, EndsWithMessage
  <2>2. CASE ~request.added
    <3>1. "no output" \in Parts BY DEF Parts
    <3> QED BY <1>8, <2>2, <3>1, EndsWithReply DEF DoneArrives
  <2> QED BY <2>1, <2>2
<1>9. CASE ErrorArrives
  <2>0. "error" \in Parts BY DEF Parts
  <2>1. CASE request.added
    <3>1. PICK b : b = Grown(chat, "error") OBVIOUS
    <3>2. /\ chat' = Finished(RenderChatHistory(Ended(b, "error", "frame")))
          /\ request' = NoRequest /\ asked' = asked
      BY <1>9, <2>1, <3>1 DEF ErrorArrives
    <3> QED BY <2>0, <2>1, <3>1, <3>2, EndsWithMessage
  <2>2. CASE ~request.added
    BY <1>9, <2>0, <2>2, EndsWithReply DEF ErrorArrives
  <2> QED BY <2>1, <2>2
<1>10. CASE StreamEndsEarly
  <2>0. "truncated" \in Parts /\ "lost" \in Parts BY DEF Parts
  <2>1. CASE request.added
    <3>1. PICK b : b = Grown(chat, "truncated") OBVIOUS
    <3>2. /\ chat' = Finished(Ended(b, "error", "cut"))
          /\ request' = NoRequest /\ asked' = asked
      BY <1>10, <2>1, <3>1 DEF StreamEndsEarly, FlagOfCleanEnd
    <3> QED BY <2>0, <2>1, <3>1, <3>2, EndsWithMessage
  <2>2. CASE ~request.added
    BY <1>10, <2>0, <2>2, EndsWithReply DEF StreamEndsEarly
  <2> QED BY <2>1, <2>2
<1>11. CASE RequestRejects
  <2>1. CASE request.added
    <3>1. PICK b : b = chat OBVIOUS
    <3>2. chat' = Finished(Ended(b, "plain", "reset")) /\ request' = NoRequest /\ asked' = asked
      BY <1>11, <2>1, <3>1 DEF RequestRejects, Caught, FailedReply
    <3> QED BY <2>1, <3>1, <3>2, EndsWithMessage
  <2>2. CASE ~request.added
    <3>1. "network" \in Parts BY DEF Parts
    <3>2. chat' = Finished(PushMessage(chat,
                    Message("assistant", <<"network">>, "error", "reset")))
      BY <1>11, <2>2 DEF RequestRejects, Caught, FailedReply
    <3> QED BY <1>11, <2>2, <3>1, <3>2, EndsWithReply DEF RequestRejects
  <2> QED BY <2>1, <2>2
<1> HIDE DEF Reply, ReplyEnds, Generating
<1> QED BY <1>3, <1>4, <1>5, <1>6, <1>7, <1>8, <1>9, <1>10, <1>11 DEF ChatSteps

(***************************************************************************)
(* A new conversation.                                                     *)
(***************************************************************************)
LEMMA StartsAnew ==
  ASSUME DInv, ResetChat
  PROVE  DInv'
<1>1. PICK c, d : c = chat /\ d = chat' OBVIOUS
<1>2. IsChat(c) /\ IsRequest(request) /\ ~c.busy /\ request.phase = "none"
  BY <1>1 DEF DInv, Conversation, Talk, ResetChat
<1>3. PICK a : a = RenderChatHistory([c EXCEPT !.history = <<>>, !.locked = FALSE]) OBVIOUS
<1>4. Rows(<<>>) = <<>>
  <2>1. <<>> \in Seq(Messages) /\ Len(<<>>) = 0 BY EmptySeq
  <2>2. PICK h : h = <<>> /\ h \in Seq(Messages) /\ Len(h) = 0 BY <2>1
  <2>3. Rows(h) \in Seq(ShownRows) /\ Len(Rows(h)) = 0 BY <2>2, RowsTyped
  <2> QED BY <2>2, <2>3, EmptySeq
<1>5. /\ DOMAIN a = ChatFields /\ a.history = <<>> /\ a.dom = <<>> /\ ~a.locked
      /\ a.disabled \in BOOLEAN /\ a.locked \in BOOLEAN
  BY <1>2, <1>3, <1>4 DEF RenderChatHistory, IsChat, ChatFields
<1>6. PICK b : b = PopulateModelSelect(a) OBVIOUS
<1>7. /\ DOMAIN b = ChatFields /\ b.history = <<>> /\ b.dom = <<>> /\ ~b.locked
      /\ b.locked \in BOOLEAN
  BY <1>5, <1>6 DEF PopulateModelSelect, ChatFields
<1>8. d = SetChatBusy(b, FALSE) BY <1>1, <1>3, <1>6 DEF ResetChat, Cleared
<1>9. RemoveFirst(b.dom, Thinking) = <<>>
  BY <1>7, EmptySeq DEF RemoveFirst
<1>10. /\ DOMAIN d = ChatFields /\ d.history = <<>> /\ d.dom = <<>> /\ ~d.busy
       /\ d.locked \in BOOLEAN /\ d.disabled \in BOOLEAN /\ d.busy \in BOOLEAN
  BY <1>7, <1>8, <1>9 DEF SetChatBusy, ChatFields
<1>11. IsChat(d) /\ Turns(d.history, FALSE) /\ Endings(d.history)
  BY <1>10, EmptySeq DEF IsChat, Turns, Endings
<1>12. asked' = {} /\ request' = request BY DEF ResetChat
<1>13. Open(request') = FALSE /\ IsRequest(request') BY <1>2, <1>12 DEF Open
<1>14. Rows(d.history) = <<>> BY <1>4, <1>10
<1>15. KeepsModel(d, {}) BY DEF KeepsModel
<1> QED BY <1>1, <1>2, <1>10, <1>11, <1>12, <1>13, <1>14, <1>15
        DEF DInv, Conversation, Talk, Screen

(***************************************************************************)
(* Polls, which may bring another list of models, the selection of a       *)
(* model, and all that goes on elsewhere.                                  *)
(***************************************************************************)
LEMMA PollArrives ==
  ASSUME DInv, NEW i, RefreshStatus(i)
  PROVE  DInv'
<1>1. PICK c, r, models, d : c = chat /\ r = request /\ models = asked /\ d = chat'
  OBVIOUS
<1>2. Conversation(c, r, models) /\ IsChat(c) /\ IsRequest(r)
  BY <1>1 DEF DInv, Conversation, Talk
<1>3. request' = r /\ asked' = models BY <1>1 DEF RefreshStatus
<1>4. CASE d = c BY <1>1, <1>2, <1>3, <1>4 DEF DInv
<1>5. CASE \E catalog : d = PopulateModelSelect([c EXCEPT !.catalog = catalog])
  <2>1. PICK catalog : d = PopulateModelSelect([c EXCEPT !.catalog = catalog]) BY <1>5
  <2>2. /\ IsChat(d) /\ d.locked = c.locked /\ d.disabled = c.disabled /\ d.busy = c.busy
        /\ d.history = c.history /\ d.dom = c.dom /\ (c.locked => d.value = c.value)
    BY <1>2, <2>1, PopulateEffect
  <2>3. Conversation(d, r, models) BY <1>2, <2>2, Untouched
  <2> QED BY <1>1, <1>3, <2>3 DEF DInv
<1>6. d = c \/ \E catalog : d = PopulateModelSelect([c EXCEPT !.catalog = catalog])
  BY <1>1 DEF RefreshStatus
<1> QED BY <1>4, <1>5, <1>6

LEMMA Selects ==
  ASSUME DInv, NEW m, SelectModel(m)
  PROVE  DInv'
<1>1. PICK c, r, models, d : c = chat /\ r = request /\ models = asked /\ d = chat'
  OBVIOUS
<1>2. Conversation(c, r, models) /\ IsChat(c) /\ IsRequest(r) /\ KeepsModel(c, models)
  BY <1>1 DEF DInv, Conversation, Talk
<1>3. models = {} BY <1>1, <1>2 DEF SelectModel, KeepsModel
<1>4. /\ DOMAIN d = ChatFields /\ d.history = c.history /\ d.dom = c.dom
      /\ d.locked = c.locked /\ d.disabled = c.disabled /\ d.busy = c.busy
  BY <1>1, <1>2 DEF SelectModel, IsChat, ChatFields
<1>5. IsChat(d) BY <1>2, <1>4 DEF IsChat
<1>6. KeepsModel(d, models) BY <1>3 DEF KeepsModel
<1>7. Conversation(d, r, models) BY <1>2, <1>4, <1>5, <1>6 DEF Conversation, Talk
<1> QED BY <1>1, <1>7 DEF SelectModel, DInv

LEMMA Elsewhere ==
  ASSUME DInv, chat' = chat, asked' = asked,
         \/ request' = request
         \/ request' = [request EXCEPT !.reset = @ \/ request.phase # "none"]
  PROVE  DInv'
<1>1. PICK c, r, models, q : c = chat /\ r = request /\ models = asked /\ q = request'
  OBVIOUS
<1>2. Conversation(c, r, models) /\ IsChat(c) /\ IsRequest(r)
  BY <1>1 DEF DInv, Conversation, Talk
<1>3. IsRequest(q) /\ q.added = r.added /\ q.phase = r.phase
  <2>1. CASE q = r BY <1>2, <2>1
  <2>2. CASE \E x : q = [r EXCEPT !.reset = x] BY <1>2, <2>2 DEF IsRequest
  <2> QED BY <1>1, <2>1, <2>2
<1>4. Conversation(c, q, models) BY <1>2, <1>3, Untouched
<1> QED BY <1>1, <1>4 DEF DInv

LEMMA StepConversation == DInv /\ [Next]_vars => DInv'
<1> SUFFICES ASSUME DInv, [Next]_vars PROVE DInv' OBVIOUS
<1>1. CASE PollTimer BY <1>1, Elsewhere DEF PollTimer
<1>2. CASE StatusSteps
  <2>1. CASE \E i \in DOMAIN polls : CapacityAnswers(i) \/ CatalogCounts(i) \/ CatalogAnswers(i)
    BY <2>1, Elsewhere DEF CapacityAnswers, CatalogCounts, CatalogAnswers
  <2>2. CASE \E i \in DOMAIN polls : RefreshStatus(i) BY <2>2, PollArrives
  <2> QED BY <1>2, <2>1, <2>2 DEF StatusSteps
<1>3. CASE User
  <2>1. CASE \E t \in Tokens : SaveToken(t) BY <2>1, Elsewhere DEF SaveToken
  <2>2. CASE \E m \in Models : SelectModel(m) BY <2>2, Selects
  <2>3. CASE SendChatMessage BY <2>3, AskedForModel
  <2>4. CASE ResetChat BY <2>4, StartsAnew
  <2>5. CASE \E text \in Prompts : ClassifyPrompt(text) BY <2>5, Elsewhere DEF ClassifyPrompt
  <2> QED BY <1>3, <2>1, <2>2, <2>3, <2>4, <2>5 DEF User
<1>4. CASE ChatSteps BY <1>4, Replying
<1>5. CASE CheckSteps
  BY <1>5, Elsewhere DEF CheckSteps, CheckAnswers, CheckArrives
<1>6. CASE Environment
  <2>1. CASE \E n \in 0 .. MaxNodes : NodesChange(n)
    BY <2>1, Elsewhere DEF NodesChange, Changes
  <2>2. CASE \E n \in 0 .. MaxPeerNodes : PeersChange(n)
    BY <2>2, Elsewhere DEF PeersChange, Changes
  <2>3. CASE CoordinatorCrashes BY <2>3, Elsewhere DEF CoordinatorCrashes, Changes
  <2>4. CASE \E catalog \in Catalogs, file \in RuleFiles, t \in Tokens :
               CoordinatorStarts(catalog, file, t)
    BY <2>4, Elsewhere DEF CoordinatorStarts
  <2> QED BY <1>6, <2>1, <2>2, <2>3, <2>4 DEF Environment
<1>7. CASE UNCHANGED vars BY <1>7, Elsewhere DEF vars
<1> QED BY <1>1, <1>2, <1>3, <1>4, <1>5, <1>6, <1>7 DEF Next

LEMMA ConversationInvariant == Spec => []DInv
<1> QED BY InitConversation, StepConversation, PTL DEF Spec

-------------------------------------------------------------------------------
(* The claims. *)

(***************************************************************************)
(* What the page shows is the conversation, although sendChatMessage       *)
(* rebuilds rows on some paths and patches the last one on others.         *)
(***************************************************************************)
THEOREM TheScreenShowsTheHistory == Spec => []ScreenShowsHistory
<1>1. DInv => ScreenShowsHistory
  <2> SUFFICES ASSUME DInv PROVE ScreenShowsHistory OBVIOUS
  <2>1. chat.dom = Screen(chat.history, Open(request)) /\ (chat.busy <=> request.phase # "none")
    BY DEF DInv, Conversation
  <2>2. CASE Open(request) BY <2>1, <2>2 DEF Screen, ScreenShowsHistory, Open
  <2>3. CASE ~Open(request) BY <2>1, <2>3 DEF Screen, ScreenShowsHistory
  <2> QED BY <2>2, <2>3
<1> QED BY <1>1, ConversationInvariant, PTL

(***************************************************************************)
(* Every message of the user gets exactly one reply, whichever of its nine *)
(* ways sendChatMessage ends, and while none is awaited none is missing.   *)
(***************************************************************************)
THEOREM EveryMessageIsAnswered == Spec => []EveryTurnAnswered
<1>1. DInv => EveryTurnAnswered
  <2> SUFFICES ASSUME DInv PROVE EveryTurnAnswered OBVIOUS
  <2>1. PICK h : h = chat.history OBVIOUS
  <2>2. h \in Seq(Messages) /\ Turns(h, Open(request)) /\ (chat.busy <=> request.phase # "none")
    BY <2>1 DEF DInv, Conversation, Talk, IsChat
  <2>3. DOMAIN h = 1 .. Len(h) BY <2>2, LenProperties
  <2>4. \A i \in DOMAIN h : h[i].role = (IF i % 2 = 1 THEN "user" ELSE "assistant")
    BY <2>2, <2>3 DEF Turns
  <2>5. Len(h) % 2 = 1 => chat.busy
    <3>1. CASE Open(request) BY <2>2, <3>1 DEF Open
    <3>2. CASE ~Open(request) BY <2>2, <3>2 DEF Turns
    <3> QED BY <3>1, <3>2
  <2> QED BY <2>1, <2>4, <2>5 DEF EveryTurnAnswered
<1> QED BY <1>1, ConversationInvariant, PTL

(***************************************************************************)
(* A reply that ended without [DONE] is flagged, and so left out of every  *)
(* prompt that follows, for any number of pieces and messages.             *)
(***************************************************************************)
THEOREM CutRepliesAreFlagged == Spec => []CutIsFlagged
<1>1. DInv => CutIsFlagged
  <2> SUFFICES ASSUME DInv, NEW i \in DOMAIN chat.history,
                      chat.history[i].ending \in {"cut", "frame"}
               PROVE  /\ chat.history[i].status = "error"
                      /\ i \notin BuildChatPrompt(chat.history)
    BY DEF CutIsFlagged
  <2>1. chat.history \in Seq(Messages) /\ Endings(chat.history)
    BY DEF DInv, Conversation, Talk, IsChat
  <2>2. i \in 1 .. Len(chat.history) BY <2>1, LenProperties
  <2>3. chat.history[i].status = "error" BY <2>1, <2>2 DEF Endings
  <2> QED BY <2>3 DEF BuildChatPrompt
<1> QED BY <1>1, ConversationInvariant, PTL

(***************************************************************************)
(* A conversation stays with the model it began with, whatever catalogs    *)
(* polls bring in between: the list is locked from the first message on,   *)
(* by a flag for populateModelSelect and by the control for the user.      *)
(***************************************************************************)
THEOREM ConversationsKeepTheirModel == Spec => []OneModelPerConversation
<1>1. DInv => OneModelPerConversation
  <2>1. DInv => asked = {} \/ asked = {chat.value}
    BY DEF DInv, Conversation, Talk, KeepsModel
  <2>2. Cardinality({}) = 0 /\ \A x : Cardinality({x}) = 1
    BY FS_EmptySet, FS_Singleton
  <2> QED BY <2>1, <2>2 DEF OneModelPerConversation
<1> QED BY <1>1, ConversationInvariant, PTL

-------------------------------------------------------------------------------
(* Positions of a sequence that are kept, and their ranks. *)

\* A set of numbers with a member has a least one.
LEMMA LeastOf ==
  ASSUME NEW T, T \subseteq Nat, T # {}
  PROVE  \E m \in T : \A y \in T : m <= y
<1>1. \E R : IsWellFoundedOn(R, Nat) /\ \A x, y \in Nat : x < y => <<x, y>> \in R
  <2>1. \A x, y \in Nat : x < y => <<x, y>> \in OpToRel(<, Nat)
    BY DEF OpToRel
  <2> QED BY <2>1, NatLessThanWellFounded, Zenon
<1>2. PICK R : IsWellFoundedOn(R, Nat) /\ \A x, y \in Nat : x < y => <<x, y>> \in R
  BY <1>1
<1>3. IsWellFoundedOn(R, Nat) BY <1>2
<1>4. \E x \in T : \A y \in T : ~(<<y, x>> \in R) BY <1>3, WFMin, Zenon
<1>5. PICK m \in T : \A y \in T : ~(<<y, m>> \in R) BY <1>4
<1>6. ASSUME NEW y \in T, ~(m <= y) PROVE FALSE
  <2>1. y \in Nat /\ m \in Nat /\ y < m BY <1>6
  <2> QED BY <1>2, <1>5, <2>1
<1> QED BY <1>6

\* White space, and letters, can be told from the plain form of a character.
LEMMA PlainKinds ==
  ASSUME NEW c \in AllChars
  PROVE  /\ Plain(c) = "space" <=> c \in WhiteSpace
         /\ Plain(c) \in Letters <=> c \in Letters
BY DEF AllChars, Plain, Lower, Letters, WhiteSpace, Apostrophes

\* What a widened space matches is what reads as one.
LEMMA SpaceReads ==
  ASSUME NEW c \in AllChars
  PROVE  Matches(Class(WhiteSpace, TRUE), c) <=> Plain(c) = "space"
BY DEF AllChars, Plain, Lower, Letters, WhiteSpace, Apostrophes, Matches, Class

\* What any other character of a term is compiled to matches what reads like it.
LEMMA LetterReads ==
  ASSUME NEW d \in TermChars, d # "space", NEW c \in AllChars
  PROVE  Matches(IF d \in Apostrophes THEN Class(Apostrophes, FALSE) ELSE Class({d}, FALSE), c)
           <=> Plain(c) = Plain(d)
<1>1. Class({d}, FALSE).chars = {d} /\ Class(Apostrophes, FALSE).chars = Apostrophes
  BY DEF Class
<1>2. Matches(Class({d}, FALSE), c) <=> Lower(c) = Lower(d)
  BY <1>1 DEF Matches
<1>3. Matches(Class(Apostrophes, FALSE), c) <=> c \in Apostrophes
  BY <1>1 DEF Matches, AllChars, Lower, Letters, Apostrophes, WhiteSpace
<1>4. CASE d \in Apostrophes
  BY <1>3, <1>4 DEF AllChars, Plain, Lower, Letters, WhiteSpace, Apostrophes
<1>5. CASE d \notin Apostrophes
  BY <1>2, <1>5 DEF TermChars, AllChars, Plain, Lower, Letters, WhiteSpace, Apostrophes
<1> QED BY <1>4, <1>5

\* How ranks go up.
LEMMA Ranks ==
  ASSUME NEW n \in Nat, NEW S \in SUBSET (1..n)
  PROVE  /\ IsFiniteSet(S) /\ Cardinality(S) \in Nat
         /\ Rank(S, 0) = 0 /\ Rank(S, n) = Cardinality(S)
         /\ \A i \in 0..n : Rank(S, i) \in Nat
         /\ \A i \in 1..n : Rank(S, i) = IF i \in S THEN Rank(S, i - 1) + 1 ELSE Rank(S, i - 1)
         /\ \A i, j \in 0..n : i <= j => Rank(S, i) <= Rank(S, j)
<1>0. \A j \in S : j \in Int /\ 1 <= j /\ j <= n OBVIOUS
<1>1. IsFiniteSet(S) /\ Cardinality(S) \in Nat
  <2>1. S \in SUBSET Nat /\ \A s \in S : s <= n OBVIOUS
  <2> QED BY <2>1, FS_BoundedSetOfNaturals, FS_CardinalityType
<1>2. \A i : IsFiniteSet({j \in S : j <= i}) /\ Rank(S, i) \in Nat
  <2> TAKE i
  <2>1. {j \in S : j <= i} \in SUBSET S OBVIOUS
  <2> QED BY <1>1, <2>1, FS_Subset, FS_CardinalityType DEF Rank
<1>3. Rank(S, 0) = 0
  <2>1. \A j \in S : ~(j <= 0) BY <1>0
  <2> QED BY <2>1, FS_EmptySet DEF Rank
<1>4. Rank(S, n) = Cardinality(S)
  <2>1. {j \in S : j <= n} = S BY <1>0
  <2> QED BY <2>1 DEF Rank
<1>5. ASSUME NEW i \in 1..n
      PROVE  Rank(S, i) = IF i \in S THEN Rank(S, i - 1) + 1 ELSE Rank(S, i - 1)
  <2> DEFINE T == {j \in S : j <= i - 1}
  <2>1. i \notin T OBVIOUS
  <2>2. CASE i \in S
    <3>1. {j \in S : j <= i} = T \cup {i}
      <4>1. \A j \in S : j <= i <=> j <= i - 1 \/ j = i BY <1>0
      <4> QED BY <2>2, <4>1
    <3>2. IsFiniteSet(T) BY <1>2
    <3> HIDE DEF T
    <3>3. Cardinality(T \cup {i}) = Cardinality(T) + 1 BY <2>1, <3>2, FS_AddElement
    <3> QED BY <2>2, <3>1, <3>3 DEF Rank, T
  <2>3. CASE i \notin S
    <3>1. {j \in S : j <= i} = T
      <4>1. \A j \in S : j <= i <=> j <= i - 1 BY <1>0, <2>3
      <4> QED BY <4>1
    <3> QED BY <2>3, <3>1 DEF Rank
  <2> QED BY <2>2, <2>3
<1>6. ASSUME NEW i \in 0..n, NEW j \in 0..n, i <= j PROVE Rank(S, i) <= Rank(S, j)
  <2>1. \A k \in S : k <= i => k <= j BY <1>0, <1>6
  <2>2. {k \in S : k <= i} \in SUBSET {k \in S : k <= j} BY <2>1
  <2> QED BY <1>2, <2>2, FS_Subset DEF Rank
<1> QED BY <1>1, <1>2, <1>3, <1>4, <1>5, <1>6

\* Between two of the positions ranks stay.
LEMMA RanksStay ==
  ASSUME NEW n \in Nat, NEW S \in SUBSET (1..n), NEW p \in 0..n, NEW q \in 0..n,
         p <= q, \A i \in p + 1..q : i \notin S
  PROVE  Rank(S, p) = Rank(S, q)
<1>0. \A j \in S : j \in Int /\ 1 <= j /\ j <= n OBVIOUS
<1>1. \A j \in S : j <= p <=> j <= q BY <1>0
<1> QED BY <1>1 DEF Rank

\* Every rank is taken.
LEMMA RanksOnto ==
  ASSUME NEW n \in Nat, NEW S \in SUBSET (1..n), NEW k \in 1..Cardinality(S)
  PROVE  \E i \in S : Rank(S, i) = k
<1> DEFINE T == {i \in 0..n : Rank(S, i) >= k}
<1>1. n \in T BY Ranks
<1>2. T \subseteq Nat OBVIOUS
<1>3. PICK i \in T : \A j \in T : i <= j
  <2> HIDE DEF T
  <2> QED BY <1>1, <1>2, LeastOf
<1>4. i # 0 BY Ranks
<1>5. i - 1 \in 0..n /\ i \in 1..n /\ i - 1 \notin T BY <1>3, <1>4
<1>6. Rank(S, i - 1) < k /\ Rank(S, i) >= k BY <1>5, Ranks
<1>7. i \in S => Rank(S, i) = k BY <1>5, <1>6, Ranks
<1>8. Rank(S, i) \in Nat /\ Rank(S, i - 1) \in Nat BY <1>5, Ranks
<1>10. Rank(S, i) = IF i \in S THEN Rank(S, i - 1) + 1 ELSE Rank(S, i - 1)
  BY <1>5, Ranks
<1>9. i \in S BY <1>6, <1>8, <1>10
<1> QED BY <1>7, <1>9

\* What At makes of a sequence.
LEMMA AtPositions ==
  ASSUME NEW n \in Nat, NEW S \in SUBSET (1..n), NEW s
  PROVE  /\ At(s, S) \in Seq({s[i] : i \in S}) /\ Len(At(s, S)) = Cardinality(S)
         /\ Cardinality(S) \in Nat
         /\ \A i \in S : Rank(S, i) \in 1..Cardinality(S) /\ At(s, S)[Rank(S, i)] = s[i]
<1>1. Cardinality(S) \in Nat BY Ranks
<1>2. ASSUME NEW i \in S PROVE Rank(S, i) \in 1..Cardinality(S)
  <2>1. Rank(S, i) = Rank(S, i - 1) + 1 /\ Rank(S, i) \in Nat /\ Rank(S, i - 1) \in Nat
        /\ Rank(S, i) <= Rank(S, n)
    BY Ranks
  <2> QED BY <2>1, Ranks
<1>3. ASSUME NEW i \in S, NEW j \in S, Rank(S, i) = Rank(S, j), i < j PROVE FALSE
  <2>1. i \in 0..n /\ j - 1 \in 0..n /\ i <= j - 1 /\ j \in 1..n BY <1>3
  <2>2. Rank(S, j) = Rank(S, j - 1) + 1 /\ Rank(S, i) \in Nat /\ Rank(S, j - 1) \in Nat
    BY <2>1, Ranks
  <2>3. Rank(S, i) <= Rank(S, j - 1) BY <2>1, Ranks
  <2> QED BY <1>3, <2>2, <2>3
<1>4. \A i, j \in S : Rank(S, i) = Rank(S, j) => i = j
  <2> SUFFICES ASSUME NEW i \in S, NEW j \in S, Rank(S, i) = Rank(S, j), i # j PROVE FALSE
    OBVIOUS
  <2>1. i < j \/ j < i OBVIOUS
  <2> QED BY <2>1, <1>3
<1> DEFINE pos(k) == CHOOSE i \in S : Rank(S, i) = k
<1>5. \A k \in 1..Cardinality(S) : pos(k) \in S /\ Rank(S, pos(k)) = k
  BY RanksOnto
<1>6. \A i \in S : pos(Rank(S, i)) = i BY <1>2, <1>4, <1>5
<1>7. At(s, S) = [k \in 1..Cardinality(S) |-> s[pos(k)]] BY DEF At
<1> HIDE DEF pos
<1>8. At(s, S) \in [1..Cardinality(S) -> {s[i] : i \in S}] BY <1>5, <1>7
<1>9. At(s, S) \in Seq({s[i] : i \in S}) BY <1>1, <1>8, IsASeq
<1>10. Len(At(s, S)) = Cardinality(S) BY <1>1, <1>8, <1>9, LenProperties
<1>11. \A i \in S : At(s, S)[Rank(S, i)] = s[i] BY <1>2, <1>6, <1>7
<1> QED BY <1>1, <1>2, <1>9, <1>10, <1>11

\* The positions of a text that its canonical form keeps, and how many of them
\* are not behind i.
Kept(x) == Collapsed(Len(x), {i \in DOMAIN x : x[i] \in WhiteSpace})
Where(x, i) == Rank(Kept(x), i)

\* Of a run of white space the first character is kept, and all else is.
LEMMA KeptOf ==
  ASSUME NEW x \in Seq(AllChars)
  PROVE  /\ Len(x) \in Nat /\ DOMAIN x = 1..Len(x) /\ Kept(x) \in SUBSET (1..Len(x))
         /\ \A i \in 1..Len(x) : x[i] \in AllChars
         /\ \A i \in 1..Len(x) :
              i \in Kept(x) <=> (x[i] \in WhiteSpace => i = 1 \/ x[i - 1] \notin WhiteSpace)
<1>1. Len(x) \in Nat /\ DOMAIN x = 1..Len(x) /\ \A i \in 1..Len(x) : x[i] \in AllChars
  BY LenProperties, ElementOfSeq
<1>2. Kept(x) \in SUBSET (1..Len(x)) BY DEF Kept, Collapsed
<1>3. ASSUME NEW i \in 1..Len(x)
      PROVE  i \in Kept(x) <=> (x[i] \in WhiteSpace => i = 1 \/ x[i - 1] \notin WhiteSpace)
  <2>1. i - 1 \in 1..Len(x) <=> i # 1 BY <1>1
  <2> QED BY <1>1, <2>1 DEF Kept, Collapsed
<1> QED BY <1>1, <1>2, <1>3

\* How far the canonical form is at a position of the text.
LEMMA WhereRises ==
  ASSUME NEW x \in Seq(AllChars)
  PROVE  /\ Len(Canonical(x)) \in Nat
         /\ Where(x, 0) = 0 /\ Where(x, Len(x)) = Len(Canonical(x))
         /\ \A i \in 0..Len(x) : Where(x, i) \in 0..Len(Canonical(x))
         /\ \A i \in 1..Len(x) :
              Where(x, i) = IF i \in Kept(x) THEN Where(x, i - 1) + 1 ELSE Where(x, i - 1)
         /\ \A i, j \in 0..Len(x) : i <= j => Where(x, i) <= Where(x, j)
<1> DEFINE n == Len(x)
           S == Kept(x)
<1>1. n \in Nat /\ S \in SUBSET (1..n) BY KeptOf
<1> HIDE DEF n, S
<1>2. /\ Cardinality(S) \in Nat /\ Rank(S, 0) = 0 /\ Rank(S, n) = Cardinality(S)
      /\ \A i \in 0..n : Rank(S, i) \in Nat
      /\ \A i \in 1..n : Rank(S, i) = IF i \in S THEN Rank(S, i - 1) + 1 ELSE Rank(S, i - 1)
      /\ \A i, j \in 0..n : i <= j => Rank(S, i) <= Rank(S, j)
  BY <1>1, Ranks
<1>3. Len(Canonical(x)) = Cardinality(S)
  BY <1>1, AtPositions DEF Canonical, S, n, Kept
<1>4. \A i \in 0..n : Rank(S, i) <= Rank(S, n)
  BY <1>1, <1>2
<1>5. \A i \in 0..n : Rank(S, i) \in 0..Cardinality(S)
  BY <1>2, <1>4
<1> QED BY <1>2, <1>3, <1>5 DEF Where, S, n

\* A run of white space stands where its first character does.
LEMMA WhereReads ==
  ASSUME NEW x \in Seq(AllChars), NEW i \in 1..Len(x)
  PROVE  Where(x, i) \in 1..Len(Canonical(x)) /\ Canonical(x)[Where(x, i)] = Plain(x[i])
<1> DEFINE t == Canonical(x)
           Good(j) == Where(x, j) \in 1..Len(t) /\ t[Where(x, j)] = Plain(x[j])
           Bad == {j \in 1..Len(x) : ~Good(j)}
<1>1. \A j \in Kept(x) : Good(j)
  <2> DEFINE s == [j \in DOMAIN x |-> Plain(x[j])]
  <2>1. t = At(s, Kept(x)) BY DEF Canonical, Kept
  <2>2. \A j \in Kept(x) : s[j] = Plain(x[j]) BY KeptOf
  <2>3. Len(x) \in Nat /\ Kept(x) \in SUBSET (1..Len(x)) BY KeptOf
  <2> HIDE DEF t, s
  <2>4. /\ Len(t) = Cardinality(Kept(x))
        /\ \A j \in Kept(x) : Rank(Kept(x), j) \in 1..Cardinality(Kept(x))
                              /\ t[Rank(Kept(x), j)] = s[j]
    BY <2>1, <2>3, AtPositions
  <2> QED BY <2>2, <2>4 DEF Where
<1> SUFFICES ASSUME Bad # {} PROVE FALSE OBVIOUS
<1>2. Bad \subseteq Nat OBVIOUS
<1>3. PICK j \in Bad : \A k \in Bad : j <= k
  <2> HIDE DEF Bad
  <2> QED BY <1>2, LeastOf
<1>4. j \in 1..Len(x) /\ ~Good(j) /\ j \notin Kept(x) /\ Len(x) \in Nat BY <1>1, <1>3, KeptOf
<1>5. x[j] \in WhiteSpace /\ j # 1 /\ x[j - 1] \in WhiteSpace BY <1>4, KeptOf
<1>6. j - 1 \in 1..Len(x) BY <1>4, <1>5
<1>7. Good(j - 1) BY <1>3, <1>4, <1>6
<1>8. Where(x, j) = Where(x, j - 1) BY <1>4, WhereRises
<1>9. Plain(x[j]) = "space" /\ Plain(x[j - 1]) = "space" BY <1>4, <1>5, <1>6, KeptOf, PlainKinds
<1> QED BY <1>4, <1>7, <1>8, <1>9

\* Words begin and end at the same places.
LEMMA BoundaryReads ==
  ASSUME NEW x \in Seq(AllChars), NEW i \in 0..Len(x)
  PROVE  /\ Boundary(x, i) => i = Len(x) \/ i + 1 \in Kept(x)
         /\ i = Len(x) \/ i + 1 \in Kept(x)
              => (Boundary(Canonical(x), Where(x, i)) <=> Boundary(x, i))
<1> DEFINE t == Canonical(x)
<1>0. /\ Len(x) \in Nat /\ DOMAIN x = 1..Len(x) /\ Kept(x) \in SUBSET (1..Len(x))
      /\ Len(t) \in Nat /\ DOMAIN t = 1..Len(t) /\ Where(x, i) \in 0..Len(t)
  <2>1. \E X : t \in Seq(X) BY KeptOf, AtPositions DEF Canonical, Kept
  <2> QED BY <2>1, KeptOf, WhereRises, LenProperties
<1>1. ASSUME i # Len(x), i + 1 \notin Kept(x) PROVE ~Boundary(x, i)
  <2>3. Len(x) \in Nat BY <1>0
  <2>4. i # Len(x) BY <1>1
  <2>0. i \in Int /\ 0 <= i /\ i < Len(x) BY <2>3, <2>4
  <2>1. i + 1 \in 1..Len(x) BY <1>0, <2>0
  <2>2. x[i + 1] \in WhiteSpace /\ i # 0 /\ x[i] \in WhiteSpace
    <3>1. x[i + 1] \in WhiteSpace /\ i + 1 # 1 /\ x[(i + 1) - 1] \in WhiteSpace
      BY <1>1, <2>1, KeptOf
    <3>2. (i + 1) - 1 = i BY <1>0
    <3> QED BY <3>1, <3>2
  <2>5. \A c \in WhiteSpace : c \notin Letters BY DEF WhiteSpace, Letters
  <2> QED BY <2>2, <2>5 DEF Boundary, IsWord
<1>2. ASSUME i = Len(x) \/ i + 1 \in Kept(x)
      PROVE  Boundary(t, Where(x, i)) <=> Boundary(x, i)
  <2>1. IsWord(t, Where(x, i)) <=> IsWord(x, i)
    <3>1. CASE i = 0
      <4>1. Where(x, 0) = 0 BY WhereRises
      <4>2. 0 \notin DOMAIN t /\ 0 \notin DOMAIN x BY <1>0
      <4> QED BY <3>1, <4>1, <4>2 DEF IsWord
    <3>2. CASE i # 0
      <4>1. i \in 1..Len(x) BY <1>0, <3>2
      <4>2. Where(x, i) \in DOMAIN t /\ i \in DOMAIN x /\ t[Where(x, i)] = Plain(x[i])
        BY <1>0, <4>1, WhereReads
      <4>3. Plain(x[i]) \in Letters <=> x[i] \in Letters BY <4>1, KeptOf, PlainKinds
      <4> HIDE DEF t
      <4> QED BY <4>2, <4>3 DEF IsWord
    <3> QED BY <3>1, <3>2
  <2>2. IsWord(t, Where(x, i) + 1) <=> IsWord(x, i + 1)
    <3>1. CASE i = Len(x)
      <4>1. Where(x, i) = Len(t) BY <3>1, WhereRises
      <4>2. Where(x, i) + 1 \notin DOMAIN t /\ i + 1 \notin DOMAIN x BY <1>0, <3>1, <4>1
      <4> QED BY <4>2 DEF IsWord
    <3>2. CASE i + 1 \in Kept(x)
      <4>1. i + 1 \in 1..Len(x) BY <1>0, <3>2
      <4>2. Where(x, i + 1) = Where(x, i) + 1
        <5>1. Where(x, i + 1) = Where(x, (i + 1) - 1) + 1 BY <3>2, <4>1, WhereRises
        <5>2. (i + 1) - 1 = i BY <1>0
        <5> QED BY <5>1, <5>2
      <4>3. Where(x, i + 1) \in DOMAIN t /\ i + 1 \in DOMAIN x
            /\ t[Where(x, i + 1)] = Plain(x[i + 1])
        BY <1>0, <4>1, WhereReads
      <4>4. Plain(x[i + 1]) \in Letters <=> x[i + 1] \in Letters
        BY <4>1, KeptOf, PlainKinds
      <4> HIDE DEF t
      <4> QED BY <4>2, <4>3, <4>4 DEF IsWord
    <3> QED BY <1>2, <3>1, <3>2
  <2>3. \A y, p : IsWord(y, p) \in BOOLEAN BY DEF IsWord
  <2> QED BY <2>1, <2>2, <2>3, Zenon DEF Boundary
<1> QED BY <1>1, <1>2

\* Every place of the canonical form is one of the text, before a position kept.
LEMMA PlaceOf ==
  ASSUME NEW x \in Seq(AllChars), NEW k \in 0..Len(Canonical(x))
  PROVE  \E i \in 0..Len(x) : Where(x, i) = k /\ (i = Len(x) \/ i + 1 \in Kept(x))
<1> DEFINE t == Canonical(x)
<1>0. Len(x) \in Nat /\ Kept(x) \in SUBSET (1..Len(x)) /\ Len(t) \in Nat
      /\ Len(t) = Cardinality(Kept(x))
  BY KeptOf, WhereRises, AtPositions DEF Canonical, Kept
<1>1. CASE k = Len(t)
  <2>1. Where(x, Len(x)) = k /\ Len(x) \in 0..Len(x) BY <1>0, <1>1, WhereRises
  <2> QED BY <2>1
<1>2. CASE k # Len(t)
  <2>1. k + 1 \in 1..Cardinality(Kept(x)) BY <1>0, <1>2
  <2>2. PICK i \in Kept(x) : Rank(Kept(x), i) = k + 1 BY <1>0, <2>1, RanksOnto
  <2>3. i \in 1..Len(x) /\ i - 1 \in 0..Len(x) /\ (i - 1) + 1 = i BY <1>0, <2>2
  <2>4. Where(x, i) = k + 1 /\ Where(x, i) = Where(x, i - 1) + 1 /\ Where(x, i - 1) \in Int
    BY <2>2, <2>3, WhereRises DEF Where
  <2>5. Where(x, i - 1) = k BY <2>4
  <2> QED BY <2>2, <2>3, <2>5
<1> QED BY <1>1, <1>2

\* The compiled classes stand one for one with the canonical form of the term.
LEMMA CompiledTerm ==
  ASSUME NEW w \in Seq(TermChars), NEW cl, cl = CompileTerm(w).classes,
         NEW u, u = Canonical(w)
  PROVE  /\ w \in Seq(AllChars) /\ Len(cl) = Len(u) /\ Len(u) \in Nat
         /\ \A k \in 1..Len(u) :
              /\ \A c \in AllChars : Matches(cl[k], c) <=> Plain(c) = u[k]
              /\ cl[k].many <=> u[k] = "space"
              /\ u[k] = "space" /\ k > 1 => u[k - 1] # "space"
<1>1. w \in Seq(AllChars) /\ Len(w) \in Nat /\ DOMAIN w = 1..Len(w)
      /\ \A i \in 1..Len(w) : w[i] \in TermChars /\ w[i] \in AllChars
  <2>1. Len(w) \in Nat /\ DOMAIN w = 1..Len(w) /\ \A i \in 1..Len(w) : w[i] \in TermChars
    BY LenProperties, ElementOfSeq
  <2>2. TermChars \subseteq AllChars BY DEF TermChars, AllChars, WhiteSpace
  <2>3. w \in [1..Len(w) -> AllChars] BY <2>1, <2>2, LenProperties
  <2>4. w \in Seq(AllChars) BY <2>1, <2>3, IsASeq
  <2> QED BY <2>1, <2>2, <2>4
<1>2. \A i \in 1..Len(w) : w[i] \in WhiteSpace <=> w[i] = "space"
  BY <1>1 DEF TermChars, WhiteSpace
<1> DEFINE lit(i) == IF w[i] \in Apostrophes THEN Class(Apostrophes, FALSE)
                     ELSE Class({w[i]}, FALSE)
           esc == WidenApostrophes(EscapeRegExp(w))
           spaces == {i \in DOMAIN esc : esc[i].chars = {"space"}}
           g == [i \in DOMAIN esc |-> IF i \in spaces THEN Class(WhiteSpace, TRUE) ELSE esc[i]]
<1>3. esc = [i \in 1..Len(w) |-> lit(i)]
  <2>1. EscapeRegExp(w) = [i \in 1..Len(w) |-> Class({w[i]}, FALSE)]
    BY <1>1 DEF EscapeRegExp
  <2>2. \A i \in 1..Len(w) : EscapeRegExp(w)[i].chars = {w[i]}
    BY <2>1 DEF Class
  <2>3. \A i \in 1..Len(w) : {w[i]} \cap Apostrophes # {} <=> w[i] \in Apostrophes
    OBVIOUS
  <2> QED BY <2>1, <2>2, <2>3 DEF WidenApostrophes
<1>4. DOMAIN esc = 1..Len(w) /\ Len(esc) = Len(w)
  <2>1. DOMAIN esc = 1..Len(w) BY <1>3
  <2>2. \A i \in 1..Len(w) : esc[i] = lit(i) BY <1>3
  <2> HIDE DEF esc, lit
  <2>3. esc \in Seq({esc[i] : i \in 1..Len(w)})
    <3>1. esc \in [1..Len(w) -> {esc[i] : i \in 1..Len(w)}] BY <1>3, <2>1
    <3> QED BY <1>1, <3>1, IsASeq
  <2> QED BY <1>1, <2>1, <2>3, LenProperties
<1>5. \A i \in 1..Len(w) : esc[i].chars = {"space"} <=> w[i] \in WhiteSpace
  <2> SUFFICES ASSUME NEW i \in 1..Len(w) PROVE esc[i].chars = {"space"} <=> w[i] \in WhiteSpace
    OBVIOUS
  <2>1. esc[i] = lit(i) BY <1>3
  <2> HIDE DEF esc
  <2>2. CASE w[i] \in Apostrophes
    <3>1. esc[i].chars = Apostrophes BY <2>1, <2>2 DEF Class
    <3> QED BY <1>2, <2>2, <3>1 DEF Apostrophes
  <2>3. CASE w[i] \notin Apostrophes
    <3>1. esc[i].chars = {w[i]} BY <2>1, <2>3 DEF Class
    <3> QED BY <1>2, <3>1
  <2> QED BY <2>2, <2>3
<1>6. spaces = {i \in DOMAIN w : w[i] \in WhiteSpace}
  <2> HIDE DEF esc
  <2> QED BY <1>1, <1>4, <1>5
<1>7. cl = At(g, Kept(w))
  <2>1. cl = WidenWhitespace(esc) BY DEF CompileTerm
  <2>2. WidenWhitespace(esc) = At(g, Collapsed(Len(esc), spaces)) BY DEF WidenWhitespace
  <2> HIDE DEF esc, spaces, g
  <2> QED BY <1>4, <1>6, <2>1, <2>2 DEF Kept
<1>8. \A i \in 1..Len(w) : g[i] = IF w[i] = "space" THEN Class(WhiteSpace, TRUE) ELSE lit(i)
  <2>1. \A i \in 1..Len(w) : esc[i] = lit(i) BY <1>3
  <2>2. \A i \in 1..Len(w) : i \in spaces <=> w[i] = "space" BY <1>1, <1>2, <1>6
  <2> HIDE DEF esc, spaces, lit
  <2> QED BY <1>4, <2>1, <2>2
<1>9. /\ Kept(w) \in SUBSET (1..Len(w)) /\ Len(cl) = Cardinality(Kept(w))
      /\ Len(u) = Cardinality(Kept(w)) /\ Len(u) \in Nat
      /\ \A i \in Kept(w) : cl[Where(w, i)] = g[i]
  <2>1. Kept(w) \in SUBSET (1..Len(w)) BY <1>1, KeptOf
  <2>2. u = At([i \in DOMAIN w |-> Plain(w[i])], Kept(w)) BY DEF Canonical, Kept
  <2> HIDE DEF g
  <2> QED BY <1>1, <1>7, <2>1, <2>2, AtPositions DEF Where
<1> HIDE DEF lit, esc, spaces, g
<1>10. ASSUME NEW k \in 1..Len(u)
       PROVE  /\ \A c \in AllChars : Matches(cl[k], c) <=> Plain(c) = u[k]
              /\ cl[k].many <=> u[k] = "space"
              /\ u[k] = "space" /\ k > 1 => u[k - 1] # "space"
  <2>1. PICK i \in Kept(w) : Where(w, i) = k
    BY <1>1, <1>9, RanksOnto DEF Where
  <2>2. i \in 1..Len(w) /\ w[i] \in TermChars /\ w[i] \in AllChars BY <1>1, <1>9, <2>1
  <2>3. u[k] = Plain(w[i]) BY <1>1, <2>1, <2>2, WhereReads
  <2>4. cl[k] = IF w[i] = "space" THEN Class(WhiteSpace, TRUE) ELSE lit(i)
    BY <1>8, <1>9, <2>1, <2>2
  <2>5. u[k] = "space" <=> w[i] = "space" BY <1>2, <2>2, <2>3, PlainKinds
  <2>6. \A c \in AllChars : Matches(cl[k], c) <=> Plain(c) = u[k]
    <3>1. CASE w[i] = "space"
      <4>1. cl[k] = Class(WhiteSpace, TRUE) BY <2>4, <3>1
      <4> QED BY <2>5, <3>1, <4>1, SpaceReads
    <3>2. CASE w[i] # "space"
      <4>1. cl[k] = IF w[i] \in Apostrophes THEN Class(Apostrophes, FALSE)
                    ELSE Class({w[i]}, FALSE)
        BY <2>4, <3>2 DEF lit
      <4>2. \A c \in AllChars :
              Matches(IF w[i] \in Apostrophes THEN Class(Apostrophes, FALSE)
                      ELSE Class({w[i]}, FALSE), c) <=> Plain(c) = Plain(w[i])
        BY <2>2, <3>2, LetterReads
      <4> QED BY <2>3, <4>1, <4>2
    <3> QED BY <3>1, <3>2
  <2>7. cl[k].many <=> u[k] = "space"
    <3>1. Class(WhiteSpace, TRUE).many = TRUE BY DEF Class
    <3>2. lit(i).many = FALSE BY DEF Class, lit
    <3> QED BY <2>4, <2>5, <3>1, <3>2
  <2>8. ASSUME u[k] = "space", k > 1 PROVE u[k - 1] # "space"
    <3>1. Where(w, i) = Where(w, i - 1) + 1 /\ Where(w, i - 1) \in Nat
      <4>1. Where(w, i) = Where(w, i - 1) + 1 BY <1>1, <2>1, <2>2, WhereRises
      <4>2. i - 1 \in 0..Len(w) BY <1>1, <2>2
      <4>3. Where(w, i - 1) \in 0..Len(u) BY <1>1, <4>2, WhereRises
      <4> QED BY <1>9, <4>1, <4>3
    <3>2. Where(w, i - 1) = k - 1 /\ i # 1
      <4>1. Where(w, i - 1) = k - 1 BY <2>1, <3>1
      <4>2. Where(w, 0) = 0 BY <1>1, WhereRises
      <4>3. i = 1 => i - 1 = 0 OBVIOUS
      <4>5. k > 1 BY <2>8
      <4>6. Len(u) \in Nat BY <1>9
      <4>4. k - 1 # 0 BY <4>5, <4>6
      <4> QED BY <4>1, <4>2, <4>3, <4>4
    <3>3. i - 1 \in 1..Len(w) /\ w[i - 1] \notin WhiteSpace
      <4>1. i - 1 \in 1..Len(w) BY <1>1, <2>2, <3>2
      <4>2. w[i] \in WhiteSpace BY <1>2, <2>2, <2>5, <2>8
      <4> QED BY <1>1, <2>1, <2>2, <3>2, <4>1, <4>2, KeptOf
    <3>4. u[k - 1] = Plain(w[i - 1]) BY <1>1, <3>2, <3>3, WhereReads
    <3> QED BY <1>1, <3>3, <3>4, PlainKinds
  <2> QED BY <2>6, <2>7, <2>8
<1> QED BY <1>1, <1>9, <1>10

PlainChars == {Plain(c) : c \in AllChars}

\* A canonical form consists of plain characters.
LEMMA CanonicalTyped ==
  ASSUME NEW x \in Seq(AllChars)
  PROVE  Canonical(x) \in Seq(PlainChars)
<1> DEFINE s == [j \in DOMAIN x |-> Plain(x[j])]
           S == {s[i] : i \in Kept(x)}
<1>1. /\ Kept(x) \in SUBSET (1..Len(x)) /\ DOMAIN x = 1..Len(x) /\ Len(x) \in Nat
      /\ \A i \in 1..Len(x) : x[i] \in AllChars
  BY KeptOf
<1>2. S \subseteq PlainChars BY <1>1 DEF PlainChars
<1>3. Canonical(x) = At(s, Kept(x)) BY DEF Canonical, Kept
<1> HIDE DEF s
<1>4. Canonical(x) \in Seq(S) BY <1>1, <1>3, AtPositions
<1> HIDE DEF S
<1>5. Canonical(x) \in Seq(PlainChars)
  <2>1. DOMAIN Canonical(x) = 1..Len(Canonical(x)) /\ Len(Canonical(x)) \in Nat
        /\ Canonical(x) \in [1..Len(Canonical(x)) -> S]
    BY <1>4, LenProperties
  <2>2. Canonical(x) \in [1..Len(Canonical(x)) -> PlainChars] BY <1>2, <2>1
  <2> QED BY <2>1, <2>2, IsASeq
<1> QED BY <1>5

\* A part of a sequence is another where all its places agree.
LEMMA ReadsAt ==
  ASSUME NEW S, NEW t \in Seq(S), NEW u \in Seq(S), NEW p \in 0..Len(t) - Len(u)
  PROVE  SubSeq(t, p + 1, p + Len(u)) = u <=> \A k \in 1..Len(u) : t[p + k] = u[k]
<1> DEFINE n == Len(u)
           v == SubSeq(t, p + 1, p + n)
<1>1. n \in Nat /\ Len(t) \in Nat BY LenProperties
<1>2. \A i \in p + 1..p + n : i \in 1..Len(t) BY <1>1
<1>3. \A i \in p + 1..p + n : t[i] \in S BY <1>2, ElementOfSeq
<1>4. p + 1 \in Int /\ p + n \in Int BY <1>1
<1>5. /\ v \in Seq(S) /\ Len(v) = IF p + 1 <= p + n THEN (p + n) - (p + 1) + 1 ELSE 0
      /\ \A i \in 1..(p + n) - (p + 1) + 1 : v[i] = t[(p + 1) + i - 1]
  <2> HIDE DEF n
  <2> QED BY <1>3, <1>4, SubSeqProperties
<1> HIDE DEF n, v
<1>6. Len(v) = n /\ \A i \in 1..n : v[i] = t[p + i]
  <2>1. (p + n) - (p + 1) + 1 = n /\ \A i \in 1..n : (p + 1) + i - 1 = p + i BY <1>1
  <2>2. p + 1 <= p + n <=> n # 0 BY <1>1
  <2> QED BY <1>1, <1>5, <2>1, <2>2
<1>7. (\A k \in 1..n : t[p + k] = u[k]) => v = u
  BY <1>5, <1>6, SeqEqual DEF n
<1> QED BY <1>6, <1>7 DEF n, v

\* The class matches what reads as a, a run of it for white space.
ReadsAs(class, a) ==
  /\ \A c \in AllChars : Matches(class, c) <=> Plain(c) = a
  /\ class.many <=> a = "space"

\* A class takes the text one character further in its canonical form.
LEMMA ClassAdvances ==
  ASSUME NEW x \in Seq(AllChars), NEW class, NEW a, NEW p \in 0..Len(x), NEW q \in 0..Len(x),
         Spans(class, x, p, q), ReadsAs(class, a), a = "space" => p + 1 \in Kept(x)
  PROVE  /\ q \in 1..Len(x) /\ p < q
         /\ Where(x, q) = Where(x, p) + 1 /\ Plain(x[q]) = a
<1>1. \A i \in 1..Len(x) : x[i] \in AllChars BY KeptOf
<1>0. Len(x) \in Nat BY KeptOf
<1>2. p < q /\ q \in 1..Len(x) /\ p \in Nat /\ (a # "space" => q = p + 1)
  <2>1. (a = "space" /\ p < q) \/ (a # "space" /\ q = p + 1) BY DEF Spans, ReadsAs
  <2>2. p \in Nat /\ q \in Nat /\ q <= Len(x) BY <1>0
  <2> QED BY <1>0, <2>1, <2>2
<1>3. \A i \in p + 1..q : i \in 1..Len(x) /\ x[i] \in AllChars /\ Plain(x[i]) = a
  <2> SUFFICES ASSUME NEW i \in p + 1..q
               PROVE  i \in 1..Len(x) /\ x[i] \in AllChars /\ Plain(x[i]) = a
    OBVIOUS
  <2>1. i \in 1..Len(x) BY <1>0, <1>2
  <2>2. Matches(class, x[i]) BY DEF Spans
  <2> QED BY <1>1, <2>1, <2>2 DEF ReadsAs
<1>4. p + 1 \in p + 1..q /\ q \in p + 1..q BY <1>2
<1>5. p + 1 \in 1..Len(x) /\ x[p + 1] \in AllChars /\ Plain(x[p + 1]) = a BY <1>3, <1>4
<1>6. p + 1 \in Kept(x)
  <2>1. CASE a # "space"
    <3>1. x[p + 1] \notin WhiteSpace BY <1>5, <2>1, PlainKinds
    <3> QED BY <1>5, <3>1, KeptOf
  <2> QED BY <2>1
<1>7. Where(x, p + 1) = Where(x, p) + 1
  <2>1. Where(x, p + 1) = Where(x, (p + 1) - 1) + 1 BY <1>5, <1>6, WhereRises
  <2>2. (p + 1) - 1 = p BY <1>2
  <2> QED BY <2>1, <2>2
<1>8. Where(x, q) = Where(x, p + 1)
  <2>1. ASSUME NEW i \in p + 2..q PROVE i \notin Kept(x)
    <3>0. i \in Int /\ q \in Int /\ p + 2 <= i /\ i <= q BY <1>0, <1>2
    <3>1. a = "space" BY <1>2, <3>0
    <3>2. i \in p + 1..q /\ i - 1 \in p + 1..q /\ i # 1 BY <1>2, <3>0
    <3>3. x[i] \in WhiteSpace /\ x[i - 1] \in WhiteSpace BY <1>3, <3>1, <3>2, PlainKinds
    <3> QED BY <1>3, <3>2, <3>3, KeptOf
  <2>2. p + 1 \in 0..Len(x) /\ p + 1 <= q /\ (p + 1) + 1 = p + 2 BY <1>0, <1>2
  <2>3. \A i \in (p + 1) + 1..q : i \notin Kept(x) BY <2>1, <2>2
  <2>4. Kept(x) \in SUBSET (1..Len(x)) BY KeptOf
  <2> DEFINE from == p + 1
             S == Kept(x)
             n == Len(x)
  <2>5. /\ n \in Nat /\ S \in SUBSET (1..n) /\ from \in 0..n /\ q \in 0..n /\ from <= q
        /\ \A i \in from + 1..q : i \notin S
    BY <1>0, <2>2, <2>3, <2>4
  <2> HIDE DEF from, S, n
  <2>6. Rank(S, from) = Rank(S, q) BY <2>5, RanksStay
  <2> QED BY <2>6 DEF Where, from, S
<1> QED BY <1>2, <1>3, <1>4, <1>7, <1>8

\* What a term's expression finds reads like the term.
LEMMA FoundReads ==
  ASSUME NEW w \in Seq(TermChars), NEW x \in Seq(AllChars), Test(CompileTerm(w), x)
  PROVE  Mentions(x, w)
<1> DEFINE cl == CompileTerm(w).classes
           u == Canonical(w)
           t == Canonical(x)
           n == Len(u)
<1>1. Len(cl) = n /\ \A k \in 1..n : u[k] = "space" /\ k > 1 => u[k - 1] # "space"
  BY CompiledTerm
<1>12. \A k \in 1..n : /\ \A c \in AllChars : Matches(cl[k], c) <=> Plain(c) = u[k]
                       /\ cl[k].many <=> u[k] = "space"
  BY CompiledTerm
<1>0. w \in Seq(AllChars) /\ n \in Nat BY CompiledTerm
<1>2. CompileTerm(w).bounded BY DEF CompileTerm
<1>3. PICK stops \in [0..n -> 0..Len(x)] :
        /\ \A k \in 1..n : Spans(cl[k], x, stops[k - 1], stops[k])
        /\ Boundary(x, stops[0]) /\ Boundary(x, stops[n])
  BY <1>0, <1>1, <1>2 DEF Test
<1>4. /\ Len(x) \in Nat /\ Len(t) \in Nat
      /\ \A i \in 0..Len(x) : Where(x, i) \in 0..Len(t)
      /\ \A i \in 1..Len(x) : x[i] \in AllChars
  BY KeptOf, WhereRises
<1>5. t \in Seq(PlainChars) /\ u \in Seq(PlainChars)
  BY <1>0, CanonicalTyped
<1> HIDE DEF cl, u, t, n
<1> DEFINE from == Where(x, stops[0])
           Good(k) == /\ Where(x, stops[k]) = from + k
                      /\ k > 0 => stops[k] \in 1..Len(x) /\ Plain(x[stops[k]]) = u[k]
           Bad == {k \in 0..n : ~Good(k)}
<1>6. \A k \in 0..n : stops[k] \in 0..Len(x) /\ Where(x, stops[k]) \in 0..Len(t)
  BY <1>3, <1>4
<1>7. \A k \in 0..n : Good(k)
  <2> SUFFICES ASSUME Bad # {} PROVE FALSE OBVIOUS
  <2>1. Bad \subseteq Nat OBVIOUS
  <2>2. PICK k \in Bad : \A j \in Bad : k <= j
    <3> HIDE DEF Bad
    <3> QED BY <2>1, LeastOf
  <2>3. k # 0
    <3>1. 0 \in 0..n BY <1>0, <1>1
    <3>2. Good(0) BY <1>6, <3>1
    <3> QED BY <2>2, <3>2
  <2>4. k \in 1..n /\ k - 1 \in 0..n /\ ~Good(k) BY <1>0, <1>1, <2>2, <2>3
  <2>5. Good(k - 1) BY <2>2, <2>4
  <2> DEFINE p == stops[k - 1]
             q == stops[k]
  <2>6. p \in 0..Len(x) /\ q \in 0..Len(x) /\ Spans(cl[k], x, p, q) BY <1>3, <1>6, <2>4
  <2>7. u[k] = "space" => p + 1 \in Kept(x)
    <3> SUFFICES ASSUME u[k] = "space" PROVE p + 1 \in Kept(x) OBVIOUS
    <3>1. p < q /\ q <= Len(x) /\ p + 1 \in 1..Len(x) /\ p # Len(x)
      <4>1. cl[k].many BY <1>12, <2>4
      <4> HIDE DEF p, q
      <4>2. p < q BY <2>6, <4>1 DEF Spans
      <4>3. p \in Nat /\ q \in Nat /\ q <= Len(x) BY <1>4, <2>6
      <4> QED BY <1>4, <4>2, <4>3
    <3>2. CASE k = 1
      <4>1. p = stops[0] BY <3>2
      <4> QED BY <1>3, <2>6, <3>1, <4>1, BoundaryReads
    <3>3. CASE k # 1
      <4>1. k > 1 /\ k - 1 > 0 BY <2>4, <3>3
      <4>2. p \in 1..Len(x) /\ Plain(x[p]) = u[k - 1] /\ u[k - 1] # "space"
        BY <1>0, <1>1, <2>4, <2>5, <4>1
      <4>3. x[p] \notin WhiteSpace BY <1>4, <4>2, PlainKinds
      <4>4. (p + 1) - 1 = p BY <1>4, <4>2
      <4> QED BY <3>1, <4>3, <4>4, KeptOf
    <3> QED BY <3>2, <3>3
  <2>8. q \in 1..Len(x) /\ Where(x, q) = Where(x, p) + 1 /\ Plain(x[q]) = u[k]
    <3> DEFINE class == cl[k]
               a == u[k]
    <3>1. ReadsAs(class, a) BY <1>12, <2>4 DEF ReadsAs
    <3>2. Spans(class, x, p, q) /\ (a = "space" => p + 1 \in Kept(x)) BY <2>6, <2>7
    <3> HIDE DEF p, q, class, a
    <3>4. p \in 0..Len(x) /\ q \in 0..Len(x) BY <2>6
    <3>3. Where(x, q) = Where(x, p) + 1 /\ Plain(x[q]) = a /\ q \in 1..Len(x)
      BY <3>4, <3>1, <3>2, ClassAdvances
    <3> QED BY <3>3 DEF a
  <2>9. Where(x, p) = from + (k - 1) /\ from \in Nat
    <3>1. 0 \in 0..n BY <1>0, <1>1
    <3> QED BY <1>6, <2>5, <3>1
  <2>10. Good(k) BY <2>4, <2>8, <2>9
  <2> QED BY <2>4, <2>10
<1>8. from \in Nat /\ from + n <= Len(t) /\ from \in 0..Len(t) - n
  <2>1. 0 \in 0..n /\ n \in 0..n BY <1>0, <1>1
  <2>2. from \in 0..Len(t) /\ from + n \in 0..Len(t) BY <1>6, <1>7, <2>1
  <2> QED BY <1>0, <1>1, <1>4, <2>2
<1>9. \A k \in 1..n : t[from + k] = u[k]
  <2> SUFFICES ASSUME NEW k \in 1..n PROVE t[from + k] = u[k] OBVIOUS
  <2>1. k \in 0..n /\ k > 0 BY <1>0, <1>1
  <2>2. Where(x, stops[k]) = from + k /\ stops[k] \in 1..Len(x) /\ Plain(x[stops[k]]) = u[k]
    BY <1>7, <2>1
  <2> QED BY <2>2, WhereReads DEF t
<1>10. SubSeq(t, from + 1, from + n) = u
  BY <1>0, <1>1, <1>4, <1>5, <1>8, <1>9, ReadsAt DEF n
<1>11. Boundary(t, from) /\ Boundary(t, from + n)
  <2>1. 0 \in 0..n /\ n \in 0..n BY <1>0, <1>1
  <2>2. stops[0] \in 0..Len(x) /\ stops[n] \in 0..Len(x) /\ Where(x, stops[n]) = from + n
    BY <1>6, <1>7, <2>1
  <2>3. Boundary(t, Where(x, stops[0])) /\ Boundary(t, Where(x, stops[n]))
    BY <1>3, <2>2, BoundaryReads DEF t
  <2> QED BY <2>2, <2>3
<1>13. ~InsideWord(t, from) /\ ~InsideWord(t, from + n)
  <2>1. \A q : IsWord(t, q) \in BOOLEAN BY DEF IsWord
  <2> QED BY <1>11, <2>1, Zenon DEF Boundary, InsideWord
<1> QED BY <1>8, <1>10, <1>13 DEF Mentions, t, u, n

\* Where a word reads like the term, it begins and ends there.
LEMMA WordsEndThere ==
  ASSUME NEW w \in Seq(TermChars), WordEnds(w), NEW x \in Seq(AllChars),
         NEW p \in 0..Len(Canonical(x)) - Len(Canonical(w)),
         \A k \in 1..Len(Canonical(w)) : Canonical(x)[p + k] = Canonical(w)[k],
         ~InsideWord(Canonical(x), p), ~InsideWord(Canonical(x), p + Len(Canonical(w)))
  PROVE  Boundary(Canonical(x), p) /\ Boundary(Canonical(x), p + Len(Canonical(w)))
<1> DEFINE u == Canonical(w)
           t == Canonical(x)
           n == Len(u)
<1>1. /\ w \in Seq(AllChars) /\ n \in Nat /\ Len(t) \in Nat
      /\ t \in Seq(PlainChars) /\ u \in Seq(PlainChars)
  BY CompiledTerm, WhereRises, CanonicalTyped
<1>2. DOMAIN t = 1..Len(t) BY <1>1, LenProperties
<1>3. 1 \in 1..Len(w) /\ Len(w) \in 1..Len(w) /\ Len(w) \in Nat
      /\ w[1] \in Letters /\ w[Len(w)] \in Letters
  BY <1>1, LenProperties DEF WordEnds, IsWord
<1>4. n \in 1..n /\ u[n] \in Letters
  <2>1. Where(w, Len(w)) = n BY <1>1, WhereRises
  <2>2. Where(w, Len(w)) \in 1..n /\ u[Where(w, Len(w))] = Plain(w[Len(w)])
    BY <1>1, <1>3, WhereReads
  <2>3. Plain(w[Len(w)]) \in Letters BY <1>1, <1>3, KeptOf, PlainKinds
  <2> HIDE DEF u, n
  <2> QED BY <2>1, <2>2, <2>3
<1>5. 1 \in 1..n /\ u[1] \in Letters
  <2>1. 1 \in Kept(w)
    <3>1. w[1] \notin WhiteSpace BY <1>3 DEF Letters, WhiteSpace
    <3> QED BY <1>1, <1>3, <3>1, KeptOf
  <2>2. Where(w, 1) = Where(w, 1 - 1) + 1 /\ Where(w, 0) = 0
    BY <1>1, <1>3, <2>1, WhereRises
  <2>3. Where(w, 1) \in 1..n /\ u[Where(w, 1)] = Plain(w[1]) BY <1>1, <1>3, WhereReads
  <2>4. Plain(w[1]) \in Letters BY <1>1, <1>3, KeptOf, PlainKinds
  <2> HIDE DEF u, n
  <2> QED BY <2>2, <2>3, <2>4
<1> HIDE DEF u, t, n
<1>6. /\ p \in Nat /\ p + n <= Len(t)
      /\ \A k \in 1..n : t[p + k] = u[k]
      /\ ~InsideWord(t, p) /\ ~InsideWord(t, p + n)
  BY <1>1 DEF u, t, n
<1>7. IsWord(t, p + 1)
  <2>1. t[p + 1] = u[1] /\ p + 1 \in 1..Len(t) BY <1>1, <1>5, <1>6
  <2> QED BY <1>2, <1>5, <2>1 DEF IsWord
<1>8. IsWord(t, p + n)
  <2>1. t[p + n] = u[n] /\ p + n \in 1..Len(t) BY <1>1, <1>4, <1>6
  <2> QED BY <1>2, <1>4, <2>1 DEF IsWord
<1>9. \A q : IsWord(t, q) \in BOOLEAN BY DEF IsWord
<1>10. Boundary(t, p) BY <1>6, <1>7, <1>9, Zenon DEF Boundary, InsideWord
<1>11. Boundary(t, p + n) BY <1>6, <1>8, <1>9, Zenon DEF Boundary, InsideWord
<1> QED BY <1>10, <1>11 DEF u, t, n

\* A class spans what lies between two places of the canonical form.
LEMMA ClassSpans ==
  ASSUME NEW x \in Seq(AllChars), NEW class, NEW a, NEW p \in 0..Len(x), NEW q \in 0..Len(x),
         ReadsAs(class, a), Where(x, q) = Where(x, p) + 1,
         p = Len(x) \/ p + 1 \in Kept(x), Canonical(x)[Where(x, q)] = a
  PROVE  Spans(class, x, p, q)
<1>0. /\ Len(x) \in Nat /\ p \in Nat /\ q \in Nat /\ p <= Len(x) /\ q <= Len(x)
      /\ \A i \in 1..Len(x) : x[i] \in AllChars
      /\ \A i \in 0..Len(x) : Where(x, i) \in Int
  <2>1. \A i \in 0..Len(x) : Where(x, i) \in 0..Len(Canonical(x)) BY WhereRises
  <2> QED BY <2>1, KeptOf
<1>1. p < q /\ p + 1 \in Kept(x) /\ p + 1 \in 1..Len(x)
  <2>1. q <= p => Where(x, q) <= Where(x, p) BY WhereRises
  <2>2. p < q BY <1>0, <2>1
  <2> QED BY <1>0, <2>2
<1>2. Where(x, p + 1) = Where(x, p) + 1
  <2>1. Where(x, p + 1) = Where(x, (p + 1) - 1) + 1 BY <1>1, WhereRises
  <2>2. (p + 1) - 1 = p BY <1>0
  <2> QED BY <2>1, <2>2
<1>3. ASSUME NEW i \in p + 1..q
      PROVE  i \in 1..Len(x) /\ x[i] \in AllChars /\ Where(x, i) = Where(x, q) /\ Plain(x[i]) = a
  <2>1. i \in 1..Len(x) /\ i \in 0..Len(x) /\ p + 1 \in 0..Len(x) /\ p + 1 <= i /\ i <= q
    BY <1>0, <1>1
  <2>2. Where(x, p + 1) <= Where(x, i) /\ Where(x, i) <= Where(x, q) BY <2>1, WhereRises
  <2>3. Where(x, i) = Where(x, q) BY <1>0, <1>2, <2>1, <2>2
  <2>4. Plain(x[i]) = a BY <2>1, <2>3, WhereReads
  <2> QED BY <1>0, <2>1, <2>3, <2>4
<1>4. ASSUME a # "space" PROVE q = p + 1
  <2> SUFFICES ASSUME q # p + 1 PROVE FALSE OBVIOUS
  <2>1. p + 2 \in p + 1..q /\ p + 1 \in p + 1..q /\ (p + 2) - 1 = p + 1 BY <1>0, <1>1
  <2>2. x[p + 2] \notin WhiteSpace BY <1>3, <1>4, <2>1, PlainKinds
  <2>3. p + 2 \in 1..Len(x) BY <1>3, <2>1
  <2>4. p + 2 \in Kept(x) BY <2>2, <2>3, KeptOf
  <2>5. Where(x, p + 2) = Where(x, p + 1) + 1
    <3>1. Where(x, p + 2) = Where(x, (p + 2) - 1) + 1 BY <2>3, <2>4, WhereRises
    <3> QED BY <2>1, <3>1
  <2>6. Where(x, p + 2) = Where(x, q) /\ Where(x, p + 1) = Where(x, q) BY <1>3, <2>1
  <2> QED BY <1>0, <2>5, <2>6
<1>5. \A i \in p + 1..q : Matches(class, x[i]) BY <1>3 DEF ReadsAs
<1>6. class.many <=> a = "space" BY DEF ReadsAs
<1>7. IF class.many THEN p < q ELSE q = p + 1 BY <1>1, <1>4, <1>6
<1> QED BY <1>5, <1>7 DEF Spans

\* What reads like a term that begins and ends in a word, its expression finds.
LEMMA ReadsFound ==
  ASSUME NEW w \in Seq(TermChars), WordEnds(w), NEW x \in Seq(AllChars), Mentions(x, w)
  PROVE  Test(CompileTerm(w), x)
<1> DEFINE cl == CompileTerm(w).classes
           u == Canonical(w)
           t == Canonical(x)
           n == Len(u)
<1>1. Len(cl) = n /\ w \in Seq(AllChars) /\ n \in Nat /\ Len(t) \in Nat /\ Len(x) \in Nat
  BY CompiledTerm, WhereRises, KeptOf
<1>2. \A k \in 1..n : ReadsAs(cl[k], u[k]) BY CompiledTerm DEF ReadsAs
<1>3. t \in Seq(PlainChars) /\ u \in Seq(PlainChars) BY <1>1, CanonicalTyped
<1>10. PICK from \in 0..Len(t) - n :
         /\ SubSeq(t, from + 1, from + n) = u
         /\ ~InsideWord(t, from) /\ ~InsideWord(t, from + n)
  BY DEF Mentions
<1> HIDE DEF cl, u, t, n
<1>5. \A k \in 1..n : t[from + k] = u[k] BY <1>3, <1>10, ReadsAt DEF n
<1>4. Boundary(t, from) /\ Boundary(t, from + n)
  BY <1>5, <1>10, WordsEndThere DEF u, t, n
<1> DEFINE At0(i, k) == Where(x, i) = from + k /\ (i = Len(x) \/ i + 1 \in Kept(x))
           stops == [k \in 0..n |-> CHOOSE i \in 0..Len(x) : At0(i, k)]
<1>6. \A k \in 0..n : stops[k] \in 0..Len(x) /\ At0(stops[k], k)
  <2> SUFFICES ASSUME NEW k \in 0..n PROVE stops[k] \in 0..Len(x) /\ At0(stops[k], k)
    OBVIOUS
  <2>1. from + k \in 0..Len(t) BY <1>1
  <2>2. \E i \in 0..Len(x) : At0(i, k) BY <2>1, PlaceOf DEF t
  <2>3. stops[k] = CHOOSE i \in 0..Len(x) : At0(i, k) OBVIOUS
  <2> HIDE DEF stops, At0
  <2> QED BY <2>2, <2>3
<1>7. stops \in [0..n -> 0..Len(x)]
  <2>1. DOMAIN stops = 0..n /\ stops = [k \in 0..n |-> stops[k]] OBVIOUS
  <2> HIDE DEF stops, At0
  <2> QED BY <1>6, <2>1
<1> HIDE DEF stops
<1>8. ASSUME NEW k \in 1..n PROVE Spans(cl[k], x, stops[k - 1], stops[k])
  <2>1. k \in 0..n /\ k - 1 \in 0..n /\ from + k = (from + (k - 1)) + 1 BY <1>1
  <2> DEFINE p == stops[k - 1]
             q == stops[k]
             class == cl[k]
             a == u[k]
  <2>2. /\ p \in 0..Len(x) /\ q \in 0..Len(x) /\ Where(x, q) = Where(x, p) + 1
        /\ (p = Len(x) \/ p + 1 \in Kept(x))
    BY <1>6, <2>1
  <2>3. Canonical(x)[Where(x, q)] = a BY <1>5, <1>6, <2>1 DEF t
  <2>4. ReadsAs(class, a) BY <1>2
  <2> HIDE DEF p, q, class, a
  <2>5. Spans(class, x, p, q) BY <2>2, <2>3, <2>4, ClassSpans
  <2> QED BY <2>5 DEF p, q, class
<1>9. Boundary(x, stops[0]) /\ Boundary(x, stops[n])
  <2>1. 0 \in 0..n /\ n \in 0..n /\ from + 0 = from BY <1>1
  <2>2. /\ stops[0] \in 0..Len(x) /\ Where(x, stops[0]) = from
        /\ stops[0] = Len(x) \/ stops[0] + 1 \in Kept(x)
        /\ stops[n] \in 0..Len(x) /\ Where(x, stops[n]) = from + n
        /\ stops[n] = Len(x) \/ stops[n] + 1 \in Kept(x)
    BY <1>6, <2>1
  <2> QED BY <1>4, <2>2, BoundaryReads DEF t
<1> QED BY <1>1, <1>7, <1>8, <1>9 DEF Test, cl

(***************************************************************************)
(* The expression loadSafetyRules compiles a term to finds no text that    *)
(* does not mention the term; and when the term begins and ends in a word, *)
(* as the loader advises, it finds every text that does.                   *)
(***************************************************************************)
THEOREM TermsAreFound ==
  ASSUME NEW w \in Seq(TermChars), NEW x \in Seq(AllChars)
  PROVE  /\ Test(CompileTerm(w), x) => Mentions(x, w)
         /\ WordEnds(w) /\ Mentions(x, w) => Test(CompileTerm(w), x)
BY FoundReads, ReadsFound

-------------------------------------------------------------------------------
(* From the expressions to the answer. *)

\* UniqueCategories keeps each category, and keeps it once.
LEMMA UniqueOnce ==
  ASSUME NEW F, NEW c \in Seq(F)
  PROVE  /\ UniqueCategories(c) \in Seq(F) /\ ToSet(UniqueCategories(c)) = ToSet(c)
         /\ Len(UniqueCategories(c)) = Cardinality(ToSet(c))
<1> DEFINE m == Len(c)
           S == {i \in 1..m : \A j \in 1..i - 1 : c[j] # c[i]}
           d == UniqueCategories(c)
<1>1. m \in Nat /\ DOMAIN c = 1..m /\ \A i \in 1..m : c[i] \in F
  BY LenProperties, ElementOfSeq
<1>2. d = At(c, S) BY <1>1 DEF UniqueCategories
<1>3. S \in SUBSET (1..m) OBVIOUS
<1>4. ASSUME NEW i \in 1..m PROVE \E k \in S : c[k] = c[i]
  <2> DEFINE T == {j \in 1..m : c[j] = c[i]}
  <2>1. i \in T /\ T \subseteq Nat OBVIOUS
  <2>2. PICK k \in T : \A j \in T : k <= j
    <3> HIDE DEF T
    <3> QED BY <2>1, LeastOf
  <2>3. k \in 1..m /\ c[k] = c[i] BY <2>2
  <2>4. \A j \in 1..k - 1 : j \in 1..m /\ j < k BY <1>1, <2>3
  <2>5. \A j \in 1..k - 1 : c[j] # c[k]
    <3> SUFFICES ASSUME NEW j \in 1..k - 1, c[j] = c[k] PROVE FALSE OBVIOUS
    <3>1. j \in T BY <2>3, <2>4
    <3> QED BY <1>1, <2>2, <2>3, <2>4, <3>1
  <2> QED BY <2>3, <2>5
<1>5. \A i, j \in S : c[i] = c[j] => i = j
  <2> SUFFICES ASSUME NEW i \in S, NEW j \in S, c[i] = c[j], i # j PROVE FALSE OBVIOUS
  <2>1. i \in 1..j - 1 \/ j \in 1..i - 1 BY <1>1
  <2> QED BY <2>1
<1>6. ToSet(c) = {c[i] : i \in S}
  <2>1. ToSet(c) = {c[i] : i \in 1..m} BY <1>1 DEF ToSet
  <2> HIDE DEF S
  <2> QED BY <1>3, <1>4, <2>1
<1> DEFINE T == {c[i] : i \in S}
<1>11. \A i \in S : c[i] \in T /\ c[i] \in F BY <1>1
<1>12. \A v \in T : \E i \in S : c[i] = v OBVIOUS
<1>13. T \subseteq F BY <1>1
<1> HIDE DEF m, S, d
<1>7. /\ d \in Seq(T) /\ Len(d) = Cardinality(S) /\ Cardinality(S) \in Nat /\ IsFiniteSet(S)
      /\ \A i \in S : Rank(S, i) \in 1..Cardinality(S) /\ d[Rank(S, i)] = c[i]
  <2>1. At(c, S) \in Seq(T) BY <1>1, <1>3, AtPositions
  <2>2. IsFiniteSet(S) BY <1>1, <1>3, Ranks
  <2> HIDE DEF T
  <2>3. /\ Len(At(c, S)) = Cardinality(S) /\ Cardinality(S) \in Nat
        /\ \A i \in S : Rank(S, i) \in 1..Cardinality(S) /\ At(c, S)[Rank(S, i)] = c[i]
    BY <1>1, <1>3, AtPositions
  <2> QED BY <1>2, <2>1, <2>2, <2>3
<1> HIDE DEF T
<1>8. DOMAIN d = 1..Cardinality(S) /\ \A k \in 1..Cardinality(S) : d[k] \in T
  BY <1>7, LenProperties, ElementOfSeq
<1>9. ToSet(d) = T BY <1>7, <1>8, <1>12 DEF ToSet
<1>10. Cardinality(S) = Cardinality(T)
  <2> DEFINE f == [i \in S |-> c[i]]
  <2>1. f \in [S -> T] /\ DOMAIN f = S /\ \A i \in S : f[i] = c[i] BY <1>11
  <2> HIDE DEF f
  <2>2. IsInjective(f) BY <1>5, <2>1 DEF IsInjective
  <2>3. f \in Injection(S, T) BY <2>1, <2>2 DEF Injection
  <2>4. f \in Surjection(S, T) BY <1>12, <2>1 DEF Surjection
  <2> QED BY <1>7, <2>3, <2>4, FS_Surjection
<1>14. d \in Seq(F)
  <2>1. d \in [1..Cardinality(S) -> F] BY <1>7, <1>8, <1>13, LenProperties
  <2> QED BY <1>7, <2>1, IsASeq
<1> QED BY <1>6, <1>7, <1>9, <1>10, <1>14 DEF T, d

Categories ==
  {"classifier_error"} \cup UNION {{file[i].category : i \in DOMAIN file} : file \in Loadable}

Verdicts == [safe : BOOLEAN, categories : Seq(Categories)]

\* A verdict against what the rules in force say.
Exact(answer, flagged) ==
  \/ answer = ClassifierError
  \/ /\ answer.safe = (answer.categories = <<>>)
     /\ flagged.must \subseteq ToSet(answer.categories)
     /\ ToSet(answer.categories) \subseteq flagged.may
     /\ Len(answer.categories) = Cardinality(ToSet(answer.categories))

Flaggings == [must : SUBSET Categories, may : SUBSET Categories]

\* The classifier flags what the rules' terms and patterns flag, but perhaps for
\* terms that do not begin and end in a word.
LEMMA ClassifierIsExact ==
  ASSUME NEW file \in Loadable, NEW text \in Prompts,
         NEW result, result = Classify(LoadSafetyRules(file), text)
  PROVE  LET unique == UniqueCategories(result.categories)
         IN  /\ result.safe = (unique = <<>>)
             /\ FlaggedFor(file, AsAdvised(file), text) \subseteq ToSet(unique)
             /\ ToSet(unique) \subseteq FlaggedFor(file, DOMAIN file, text)
             /\ FlaggedFor(file, DOMAIN file, text) \subseteq Categories
             /\ Len(unique) = Cardinality(ToSet(unique))
             /\ unique \in Seq(Categories)
<1> DEFINE n == Len(file)
           rules == LoadSafetyRules(file)
           hits == {i \in 1..n : Test(rules[i].pattern, text)}
           cats == [i \in 1..n |-> rules[i].category]
           c == result.categories
           F == {file[i].category : i \in hits}
           unique == UniqueCategories(c)
<1>1. n \in Nat /\ DOMAIN file = 1..n /\ text \in Seq(AllChars)
  BY TextsAssumption, LenProperties DEF Loadable
<1>2. /\ DOMAIN rules = 1..n
      /\ \A i \in 1..n :
           /\ rules[i].category = file[i].category
           /\ rules[i].pattern = IF Has(file[i], "term") THEN CompileTerm(file[i].term)
                                 ELSE CompilePattern(file[i].pattern)
  BY <1>1 DEF LoadSafetyRules
<1>3. result.safe = (hits = {}) /\ c = At(cats, hits)
  <2> HIDE DEF rules
  <2> QED BY <1>2 DEF Classify, rules
<1>4. \A j \in 1..n :
        /\ Test(rules[j].pattern, text) => Flags(file[j], text)
        /\ j \in AsAdvised(file) /\ Flags(file[j], text) => Test(rules[j].pattern, text)
  <2> HIDE DEF rules
  <2> SUFFICES ASSUME NEW j \in 1..n
               PROVE  /\ Test(rules[j].pattern, text) => Flags(file[j], text)
                      /\ j \in AsAdvised(file) /\ Flags(file[j], text)
                            => Test(rules[j].pattern, text)
    OBVIOUS
  <2>1. CASE Has(file[j], "term")
    <3>1. file[j].term \in Seq(TermChars) BY <1>1, <2>1, TextsAssumption DEF Loadable
    <3>2. j \in AsAdvised(file) => WordEnds(file[j].term) BY <2>1 DEF AsAdvised
    <3>3. rules[j].pattern = CompileTerm(file[j].term) BY <1>2, <2>1
    <3>4. Flags(file[j], text) <=> Mentions(text, file[j].term) BY <2>1 DEF Flags
    <3> QED BY <1>1, <3>1, <3>2, <3>3, <3>4, TermsAreFound
  <2>2. CASE ~Has(file[j], "term")
    BY <1>2, <2>2 DEF Flags
  <2> QED BY <2>1, <2>2
<1>5. /\ FlaggedFor(file, AsAdvised(file), text) \subseteq F
      /\ F \subseteq FlaggedFor(file, DOMAIN file, text)
  <2>1. \A j \in AsAdvised(file) : Flags(file[j], text) => j \in hits
    <3> SUFFICES ASSUME NEW j \in AsAdvised(file), Flags(file[j], text) PROVE j \in hits
      OBVIOUS
    <3>1. j \in 1..n BY <1>1 DEF AsAdvised
    <3> HIDE DEF rules, n
    <3>2. Test(rules[j].pattern, text) BY <1>4, <3>1
    <3> QED BY <3>1, <3>2
  <2>2. \A j \in hits : j \in DOMAIN file /\ Flags(file[j], text)
    <3> SUFFICES ASSUME NEW j \in hits PROVE j \in DOMAIN file /\ Flags(file[j], text)
      OBVIOUS
    <3>1. j \in 1..n /\ Test(rules[j].pattern, text)
      <4> HIDE DEF rules, n
      <4> QED OBVIOUS
    <3> HIDE DEF rules, n, hits
    <3>2. Flags(file[j], text) BY <1>4, <3>1
    <3> QED BY <1>1, <3>1, <3>2
  <2> HIDE DEF hits
  <2> QED BY <2>1, <2>2 DEF FlaggedFor
<1>17. FlaggedFor(file, DOMAIN file, text) \subseteq Categories
  <2>1. \A i \in DOMAIN file : file[i].category \in Categories BY <1>1 DEF Categories
  <2> QED BY <2>1 DEF FlaggedFor
<1>18. F = {file[i].category : i \in hits} OBVIOUS
<1>6. hits \in SUBSET (1..n) OBVIOUS
<1>7. \A i \in hits : cats[i] = file[i].category BY <1>2
<1>8. \A i \in hits : file[i].category \in Categories
  <2>1. \A i \in 1..n : file[i].category \in Categories BY <1>1 DEF Categories
  <2> HIDE DEF hits
  <2> QED BY <1>6, <2>1
<1> HIDE DEF n, rules, hits, cats, c, F
<1>9. F = {cats[i] : i \in hits} BY <1>18, <1>7
<1>16. c \in Seq({cats[i] : i \in hits}) BY <1>1, <1>3, <1>6, AtPositions
<1>10. /\ c \in Seq(F) /\ Len(c) = Cardinality(hits) /\ Cardinality(hits) \in Nat
       /\ \A i \in hits : Rank(hits, i) \in 1..Cardinality(hits) /\ c[Rank(hits, i)] = cats[i]
  <2>1. c \in Seq(F) BY <1>9, <1>16
  <2>2. /\ Len(At(cats, hits)) = Cardinality(hits) /\ Cardinality(hits) \in Nat
        /\ \A i \in hits : Rank(hits, i) \in 1..Cardinality(hits)
                            /\ At(cats, hits)[Rank(hits, i)] = cats[i]
    BY <1>1, <1>6, AtPositions
  <2> QED BY <1>3, <2>1, <2>2
<1>11. ToSet(c) = F
  <2>1. DOMAIN c = 1..Cardinality(hits) /\ \A k \in 1..Cardinality(hits) : c[k] \in F
    BY <1>10, LenProperties, ElementOfSeq
  <2>2. \A v \in F : \E i \in hits : cats[i] = v BY <1>9
  <2> QED BY <1>10, <2>1, <2>2 DEF ToSet
<1>12. hits = {} <=> F = {} BY <1>9
<1>13. F \subseteq Categories BY <1>8, <1>18
<1>14. UniqueCategories(c) \in Seq(F) /\ ToSet(UniqueCategories(c)) = ToSet(c)
       /\ Len(UniqueCategories(c)) = Cardinality(ToSet(c))
  BY <1>10, UniqueOnce
<1>15. UniqueCategories(c) \in Seq(Categories)
  <2> DEFINE d == UniqueCategories(c)
  <2> HIDE DEF d
  <2>1. d \in Seq(F) BY <1>14 DEF d
  <2>2. Len(d) \in Nat /\ d \in [1..Len(d) -> F] BY <2>1, LenProperties
  <2>3. d \in [1..Len(d) -> Categories] BY <1>13, <2>2
  <2>4. d \in Seq(Categories) BY <2>2, <2>3, IsASeq
  <2> QED BY <2>4 DEF d
<1>19. unique = <<>> <=> F = {}
  <2> DEFINE d == unique
  <2>1. d \in Seq(F) /\ ToSet(d) = F BY <1>11, <1>14
  <2> HIDE DEF d
  <2>2. DOMAIN d = 1..Len(d) /\ Len(d) \in Nat BY <2>1, LenProperties
  <2>3. F = {} => d = <<>> BY <2>1, <2>2, EmptySeq DEF ToSet
  <2>4. d = <<>> => F = {}
    <3>1. DOMAIN <<>> = {} OBVIOUS
    <3> QED BY <2>1, <3>1 DEF ToSet
  <2> QED BY <2>3, <2>4 DEF d
<1> QED BY <1>3, <1>5, <1>11, <1>12, <1>14, <1>15, <1>17, <1>19 DEF c

-------------------------------------------------------------------------------
(* The checks under way. *)

\* What a check can be: sent, lost, turned away, or answered by a verdict that
\* is exact for the rules in force when it was given.
CheckStates ==
  [at : {"sent", "rejected"}, authorized : BOOLEAN, text : Prompts]
    \cup [at : {"rejected", "unauthorized"}]
    \cup {c \in [at : {"answered"}, answer : Verdicts, flagged : Flaggings] :
            Exact(c.answer, c.flagged)}

VerdictStates ==
  [shown : {"none", "Checking...", "rejected", "unauthorized"}]
    \cup {v \in [shown : {"verdict"}, answer : Verdicts, flagged : Flaggings] :
            Exact(v.answer, v.flagged)}

WorldFields == {"up", "catalog", "file", "token", "nodes", "peers", "changes"}

RulesInForce(w) == DOMAIN w = WorldFields /\ w.file \in Loadable

VInv == RulesInForce(world) /\ checks \in Seq(CheckStates) /\ verdict \in VerdictStates

\* An answer of the handler is exact for the rules in force.
LEMMA AnswersAreExact ==
  ASSUME RulesInForce(world), NEW text \in Prompts, NEW answer \in ClassifyAnswers(text)
  PROVE  /\ answer \in Verdicts /\ Flagged[world.file][text] \in Flaggings
         /\ Exact(answer, Flagged[world.file][text])
<1> DEFINE file == world.file
           F == [must |-> FlaggedFor(file, AsAdvised(file), text),
                 may |-> FlaggedFor(file, DOMAIN file, text)]
           result == Classify(LoadSafetyRules(file), text)
           cats == UniqueCategories(result.categories)
<1>1. file \in Loadable BY DEF RulesInForce
<1>2. Results[file][text] = result /\ Flagged[file][text] = F BY <1>1 DEF Results, Flagged
<1>3. \/ answer = Verdict(result.safe, cats)
      \/ answer = ClassifierError
  BY <1>2 DEF ClassifyAnswers
<1> HIDE DEF file, result, cats, F
<1>4. /\ result.safe = (cats = <<>>) /\ Len(cats) = Cardinality(ToSet(cats))
      /\ F.must \subseteq ToSet(cats) /\ ToSet(cats) \subseteq F.may
      /\ F.may \subseteq Categories /\ cats \in Seq(Categories)
  BY <1>1, ClassifierIsExact DEF result, cats, F
<1>5. F \in Flaggings BY <1>4 DEF F, Flaggings
<1>6. CASE answer = Verdict(result.safe, cats)
  <2>1. answer \in Verdicts BY <1>4, <1>6 DEF Verdict, Verdicts
  <2>2. answer.safe = (cats = <<>>) /\ answer.categories = cats BY <1>4, <1>6 DEF Verdict
  <2>3. Exact(answer, F) BY <1>4, <2>2 DEF Exact
  <2> QED BY <1>2, <1>5, <2>1, <2>3 DEF file
<1>7. CASE answer = ClassifierError
  <2>1. "classifier_error" \in Categories BY DEF Categories
  <2>2. <<"classifier_error">> \in Seq(Categories)
    <3> DEFINE S == Categories
    <3>1. "classifier_error" \in S BY <2>1
    <3> HIDE DEF S
    <3>2. <<"classifier_error">> \in Seq(S) BY <3>1
    <3> QED BY <3>2 DEF S
  <2>3. answer \in Verdicts BY <1>7, <2>2 DEF ClassifierError, Verdict, Verdicts
  <2> QED BY <1>2, <1>5, <1>7, <2>3 DEF Exact, file
<1> QED BY <1>3, <1>6, <1>7

\* No check is under way in the beginning.
LEMMA InitVerdict == Init => VInv
<1> SUFFICES ASSUME Init PROVE VInv OBVIOUS
<1>1. RulesInForce(world) BY DEF Init, RulesInForce, WorldFields
<1>2. checks \in Seq(CheckStates) BY EmptySeq DEF Init
<1>3. verdict \in VerdictStates BY DEF Init, VerdictStates
<1> QED BY <1>1, <1>2, <1>3 DEF VInv

\* One of the checks is taken from the list.
LEMMA TakenOff ==
  ASSUME NEW S, NEW s \in Seq(S), NEW i \in DOMAIN s
  PROVE  RemoveAt(s, i) \in Seq(S)
<1>1. Len(s) \in Nat /\ i \in 1..Len(s) /\ \A j \in 1..Len(s) : s[j] \in S
  BY LenProperties, ElementOfSeq
<1>2. SubSeq(s, 1, i - 1) \in Seq(S)
  <2>1. \A j \in 1..i - 1 : s[j] \in S BY <1>1
  <2>2. 1 \in Int /\ i - 1 \in Int BY <1>1
  <2> QED BY <2>1, <2>2, SubSeqProperties
<1>3. SubSeq(s, i + 1, Len(s)) \in Seq(S)
  <2>1. \A j \in i + 1..Len(s) : s[j] \in S BY <1>1
  <2>2. i + 1 \in Int /\ Len(s) \in Int BY <1>1
  <2> QED BY <2>1, <2>2, SubSeqProperties
<1> QED BY <1>2, <1>3, ConcatProperties DEF RemoveAt

\* A check is sent, or lost with a coordinator that is down.
LEMMA CheckGoesOut ==
  ASSUME VInv, NEW text \in Prompts, ClassifyPrompt(text)
  PROVE  VInv'
<1> DEFINE c == [at |-> IF world.up THEN "sent" ELSE "rejected",
                 authorized |-> IsAuthorized(token), text |-> text]
<1>1. checks' = Append(checks, c) /\ verdict' = [shown |-> "Checking..."] /\ world' = world
  BY DEF ClassifyPrompt
<1>2. IsAuthorized(token) \in BOOLEAN BY Zenon DEF IsAuthorized
<1>3. c \in CheckStates BY <1>2 DEF CheckStates
<1>4. checks' \in Seq(CheckStates)
  <2> DEFINE S == CheckStates
  <2>1. checks \in Seq(S) /\ c \in S BY <1>3 DEF VInv
  <2> HIDE DEF S, c
  <2>2. Append(checks, c) \in Seq(S) BY <2>1, AppendProperties
  <2> QED BY <1>1, <2>2 DEF S
<1>5. verdict' \in VerdictStates BY <1>1 DEF VerdictStates
<1> QED BY <1>1, <1>4, <1>5 DEF VInv

\* The handler answers, or turns the check away.
LEMMA CheckAnswered ==
  ASSUME VInv, NEW i \in DOMAIN checks, CheckAnswers(i)
  PROVE  VInv'
<1>1. PICK c : c = checks[i] OBVIOUS
<1>2. c \in CheckStates /\ c.at = "sent"
  <2>1. checks \in Seq(CheckStates) BY DEF VInv
  <2>2. checks[i] \in CheckStates BY <2>1, LenProperties, ElementOfSeq
  <2> QED BY <1>1, <2>2 DEF CheckAnswers
<1>3. c.text \in Prompts BY <1>2 DEF CheckStates
<1>4. \E d \in CheckStates : checks' = [checks EXCEPT ![i] = d]
  <2>1. CASE c.authorized
    <3>1. PICK answer \in ClassifyAnswers(c.text) :
            checks' = [checks EXCEPT ![i] =
              [at |-> "answered", answer |-> answer, flagged |-> Flagged[world.file][c.text]]]
      BY <1>1, <2>1 DEF CheckAnswers
    <3>2. PICK F : F = Flagged[world.file][c.text] OBVIOUS
    <3>3. answer \in Verdicts /\ F \in Flaggings /\ Exact(answer, F)
      BY <1>3, <3>2, AnswersAreExact DEF VInv
    <3> DEFINE d == [at |-> "answered", answer |-> answer, flagged |-> F]
    <3>4. d \in [at : {"answered"}, answer : Verdicts, flagged : Flaggings]
      BY <3>3
    <3>5. Exact(d.answer, d.flagged) BY <3>3
    <3>6. d \in CheckStates BY <3>4, <3>5 DEF CheckStates
    <3> QED BY <3>1, <3>2, <3>6
  <2>2. CASE ~c.authorized
    <3>1. checks' = [checks EXCEPT ![i] = [at |-> "unauthorized"]]
      BY <1>1, <2>2 DEF CheckAnswers
    <3>2. [at |-> "unauthorized"] \in CheckStates BY DEF CheckStates
    <3> QED BY <3>1, <3>2
  <2> QED BY <2>1, <2>2
<1>5. checks' \in Seq(CheckStates)
  <2> DEFINE S == CheckStates
  <2>1. checks \in Seq(S) /\ \E d \in S : checks' = [checks EXCEPT ![i] = d]
    BY <1>4 DEF VInv
  <2> HIDE DEF S
  <2>2. checks' \in Seq(S) BY <2>1, ExceptSeq
  <2> QED BY <2>2 DEF S
<1> QED BY <1>5 DEF VInv, CheckAnswers

\* An answer is shown as it came.
LEMMA CheckShown ==
  ASSUME VInv, NEW i \in DOMAIN checks, CheckArrives(i)
  PROVE  VInv'
<1>1. PICK c : c = checks[i] OBVIOUS
<1>2. c \in CheckStates /\ c.at # "sent" /\ verdict' = VerdictShown(c)
  <2>1. checks \in Seq(CheckStates) BY DEF VInv
  <2>2. checks[i] \in CheckStates BY <2>1, LenProperties, ElementOfSeq
  <2> QED BY <1>1, <2>2 DEF CheckArrives
<1>3. verdict' \in VerdictStates
  <2>1. CASE c.at = "answered"
    <3>1. /\ c \in [at : {"answered"}, answer : Verdicts, flagged : Flaggings]
          /\ Exact(c.answer, c.flagged)
      BY <1>2, <2>1 DEF CheckStates
    <3> DEFINE v == [shown |-> "verdict", answer |-> c.answer, flagged |-> c.flagged]
    <3>2. verdict' = v BY <1>2, <2>1 DEF VerdictShown
    <3>3. v \in [shown : {"verdict"}, answer : Verdicts, flagged : Flaggings]
          /\ Exact(v.answer, v.flagged)
      BY <3>1
    <3> HIDE DEF v
    <3> QED BY <3>2, <3>3 DEF VerdictStates
  <2>2. CASE c.at # "answered"
    <3>1. c.at \in {"rejected", "unauthorized"} BY <1>2, <2>2 DEF CheckStates
    <3>2. verdict' = [shown |-> c.at] BY <1>2, <2>2 DEF VerdictShown
    <3> QED BY <3>1, <3>2 DEF VerdictStates
  <2> QED BY <2>1, <2>2
<1>4. checks' \in Seq(CheckStates)
  <2>1. checks' = RemoveAt(checks, i) /\ checks \in Seq(CheckStates) BY DEF VInv, CheckArrives
  <2> QED BY <2>1, TakenOff
<1> QED BY <1>3, <1>4 DEF VInv, CheckArrives

\* A crash loses the checks that wait; those answered have arrived.
LEMMA ChecksReset ==
  ASSUME VInv, CoordinatorCrashes
  PROVE  VInv'
<1>1. checks \in Seq(CheckStates) BY DEF VInv
<1>2. \A i \in 1..Len(checks) : checks[i] \in CheckStates BY <1>1, ElementOfSeq
<1>3. Len(checks) \in Nat /\ DOMAIN checks = 1..Len(checks) BY <1>1, LenProperties
<1>4. [at |-> "rejected"] \in CheckStates BY DEF CheckStates
<1>5. checks' = [i \in 1..Len(checks) |->
                   IF checks[i].at = "sent" THEN [at |-> "rejected"] ELSE checks[i]]
  BY <1>3 DEF CoordinatorCrashes
<1>6. checks' \in [1..Len(checks) -> CheckStates] BY <1>2, <1>4, <1>5
<1>7. checks' \in Seq(CheckStates) BY <1>3, <1>6, IsASeq
<1>8. RulesInForce(world') /\ verdict' = verdict
  BY DEF VInv, RulesInForce, CoordinatorCrashes, Changes, WorldFields
<1> QED BY <1>7, <1>8 DEF VInv, RulesInForce

\* Nothing else touches a check, and the rules stay until a restart.
LEMMA ChecksUntouched ==
  ASSUME VInv, checks' = checks, verdict' = verdict, RulesInForce(world')
  PROVE  VInv'
BY DEF VInv, RulesInForce

\* The conversation leaves checks and rules alone.
LEMMA ChatLeavesChecks ==
  ChatSteps => checks' = checks /\ verdict' = verdict /\ world' = world
BY DEF ChatSteps, Blocked, Unauthorized, Refused, StreamOpens, PieceArrives, DoneArrives,
       ErrorArrives, StreamEndsEarly, RequestRejects, Reply, ReplyEnds

\* Every step keeps the invariant.
LEMMA StepVerdict == VInv /\ [Next]_vars => VInv'
<1> SUFFICES ASSUME VInv, [Next]_vars PROVE VInv' OBVIOUS
<1>0. RulesInForce(world) BY DEF VInv
<1>1. CASE PollTimer BY <1>0, <1>1, ChecksUntouched DEF PollTimer
<1>2. CASE StatusSteps
  BY <1>0, <1>2, ChecksUntouched
     DEF StatusSteps, CapacityAnswers, CatalogCounts, CatalogAnswers, RefreshStatus
<1>3. CASE User
  <2>1. CASE \E t \in Tokens : SaveToken(t)
    <3>1. world' = [world EXCEPT !.changes = @ + 1] /\ checks' = checks /\ verdict' = verdict
      BY <2>1 DEF SaveToken
    <3>2. RulesInForce(world') BY <1>0, <3>1 DEF RulesInForce, WorldFields
    <3> QED BY <3>1, <3>2, ChecksUntouched
  <2>2. CASE \E m \in Models : SelectModel(m) BY <1>0, <2>2, ChecksUntouched DEF SelectModel
  <2>3. CASE SendChatMessage BY <1>0, <2>3, ChecksUntouched DEF SendChatMessage
  <2>4. CASE ResetChat BY <1>0, <2>4, ChecksUntouched DEF ResetChat
  <2>5. CASE \E text \in Prompts : ClassifyPrompt(text) BY <2>5, CheckGoesOut
  <2> QED BY <1>3, <2>1, <2>2, <2>3, <2>4, <2>5 DEF User
<1>4. CASE ChatSteps BY <1>0, <1>4, ChatLeavesChecks, ChecksUntouched
<1>5. CASE CheckSteps BY <1>5, CheckAnswered, CheckShown DEF CheckSteps
<1>6. CASE Environment
  <2>1. CASE \E n \in 0..MaxNodes : NodesChange(n)
    <3>1. RulesInForce(world') /\ checks' = checks /\ verdict' = verdict
      BY <1>0, <2>1 DEF NodesChange, Changes, RulesInForce, WorldFields
    <3> QED BY <3>1, ChecksUntouched
  <2>2. CASE \E n \in 0..MaxPeerNodes : PeersChange(n)
    <3>1. RulesInForce(world') /\ checks' = checks /\ verdict' = verdict
      BY <1>0, <2>2 DEF PeersChange, Changes, RulesInForce, WorldFields
    <3> QED BY <3>1, ChecksUntouched
  <2>3. CASE CoordinatorCrashes BY <2>3, ChecksReset
  <2>4. CASE \E catalog \in Catalogs, file \in RuleFiles, t \in Tokens :
               CoordinatorStarts(catalog, file, t)
    <3>1. RulesInForce(world') /\ checks' = checks /\ verdict' = verdict
      BY <1>0, <2>4 DEF CoordinatorStarts, RulesInForce, WorldFields
    <3> QED BY <3>1, ChecksUntouched
  <2> QED BY <1>6, <2>1, <2>2, <2>3, <2>4 DEF Environment
<1>7. CASE UNCHANGED vars BY <1>0, <1>7, ChecksUntouched DEF vars
<1> QED BY <1>1, <1>2, <1>3, <1>4, <1>5, <1>6, <1>7 DEF Next

(***************************************************************************)
(* A verdict the page shows is what the rules file itself says of the      *)
(* prompt, whatever the file, the prompt and the restarts in between: it   *)
(* names no category whose rules do not flag the prompt, and all whose     *)
(* patterns, or terms that begin and end in a word, do; each once.         *)
(***************************************************************************)
THEOREM VerdictsAreExact == Spec => []VerdictIsExact
<1>1. VInv => VerdictIsExact
  <2> SUFFICES ASSUME verdict \in VerdictStates, verdict.shown = "verdict"
               PROVE  Exact(verdict.answer, verdict.flagged)
    BY DEF VInv, VerdictIsExact, Exact, ClassifierError
  <2> QED BY DEF VerdictStates
<1> QED BY <1>1, InitVerdict, StepVerdict, PTL DEF Spec

=============================================================================
