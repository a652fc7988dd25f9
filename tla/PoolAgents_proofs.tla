-------------------------- MODULE PoolAgents_proofs --------------------------
(***************************************************************************)
(* What the launchers run, for every catalog, every set of launchers and   *)
(* every fault: two assemblies never race for a launcher, a warm entry's   *)
(* launcher runs that entry's model or nothing, and so does the agent a    *)
(* request routed through the pool is connected to.                        *)
(*                                                                         *)
(* PipelinePool_proofs shows who holds which launcher; here that is tied   *)
(* to the calls that are waiting at the launchers, abandoned ones          *)
(* included, and to the weights they load.                                 *)
(***************************************************************************)
EXTENDS PipelinePool_proofs

-----------------------------------------------------------------------------
(***************************************************************************)
(* A caller of launchers, a cold start or the pass, as the invariant sees  *)
(* it: what it awaits, and its reservation or the entry it tears down.     *)
(***************************************************************************)
Frames(co, ti) ==
  [c \in Callers |-> IF c = Manager THEN [phase |-> ti.phase, id |-> ti.id]
                     ELSE [phase |-> co[c].phase, id |-> co[c].resv]]

Frame == [phase : {"idle", "posting", "stopping"}, id : PipelineIds \cup {NoId}]

Posts(fr, c, p) == fr[c].phase = "posting" /\ fr[c].id = p

\* Launcher l runs m or nothing, and no call that waits there will change that.
Settled(ag, qs, l, m) ==
  /\ ag[l] \in {m, NoModel}
  /\ \A i \in 1 .. Len(qs[l]) : qs[l][i].op = "POST" => qs[l][i].model = m

\* Nobody awaits two calls.
AwaitedOnce(qs) ==
  \A k, l \in Launchers : \A i \in 1 .. Len(qs[k]), j \in 1 .. Len(qs[l]) :
    qs[k][i].by # NoProc /\ qs[k][i].by = qs[l][j].by => k = l /\ i = j

\* A call somebody awaits is the one its caller's frame stands at, and a POST
\* behind an awaited POST is for the same model.
CallSound(e, fr, qs, rp, k, i) ==
  LET c == qs[k][i].by
  IN c # NoProc =>
       /\ rp[c] = "none" /\ fr[c].phase # "idle"
       /\ fr[c].phase = "stopping" => qs[k][i].op = "DELETE"
       /\ fr[c].phase = "posting" =>
            /\ qs[k][i].op = "POST" /\ k = e[fr[c].id].launcher
            /\ \A j \in i .. Len(qs[k]) :
                 qs[k][j].op = "POST" => qs[k][j].model = e[fr[c].id].model

CallsSound(e, fr, qs, rp) ==
  \A k \in Launchers : \A i \in 1 .. Len(qs[k]) : CallSound(e, fr, qs, rp, k, i)

\* An idle caller has no answer to process, and what an assembly was answered is
\* still true when it looks at the answer.
AnswersSound(e, fr, qs, ag, rp) ==
  \A c \in Callers :
    /\ fr[c].phase = "idle" => rp[c] = "none"
    /\ fr[c].phase = "posting" => fr[c].id \in Pooled(e)
    /\ fr[c].phase = "posting" /\ rp[c] = "ok" =>
         Settled(ag, qs, e[fr[c].id].launcher, e[fr[c].id].model)

\* The launcher of an entry nobody is assembling any more is settled.
LandedSound(e, fr, qs, ag) ==
  \A p \in Pooled(e) :
    (\A c \in Callers : ~Posts(fr, c, p)) => Settled(ag, qs, e[p].launcher, e[p].model)

Agents(e, fr, qs, ag, rp) ==
  /\ AwaitedOnce(qs)
  /\ CallsSound(e, fr, qs, rp)
  /\ AnswersSound(e, fr, qs, ag, rp)
  /\ LandedSound(e, fr, qs, ag)

AgentsSound == Agents(entry, Frames(cold, tick), commands, agent, reply)

AInv == IInv /\ AgentsSound /\ PoolRouteServesModel

-----------------------------------------------------------------------------
(***************************************************************************)
(* The queues as data.                                                     *)
(***************************************************************************)
Replies == [Callers -> {"none", "ok", "failed"}]

\* What waits at a launcher are calls.
LEMMA QueueType ==
  ASSUME NEW qs \in Queues, NEW k \in Launchers
  PROVE  /\ Len(qs[k]) \in Nat /\ DOMAIN qs[k] = 1 .. Len(qs[k])
         /\ \A i \in 1 .. Len(qs[k]) :
              /\ qs[k][i] \in Command
              /\ qs[k][i].op \in {"POST", "DELETE"} /\ qs[k][i].model \in Models
              /\ qs[k][i].by \in Callers \cup {NoProc}
<1>1. qs[k] \in Seq(Command) BY DEF Queues
<1>2. \A i \in 1 .. Len(qs[k]) : qs[k][i] \in Command BY <1>1
<1> QED BY <1>1, <1>2 DEF Command

\* A call that is sent waits behind those that wait already.
LEMMA SendEffect ==
  ASSUME NEW qs \in Queues, NEW l \in Launchers, NEW op \in {"POST", "DELETE"},
         NEW m \in Models, NEW by \in Callers
  PROVE  LET q2 == Send(qs, l, op, m, by)
         IN /\ q2 \in Queues
            /\ \A k \in Launchers \ {l} : q2[k] = qs[k]
            /\ Len(q2[l]) = Len(qs[l]) + 1 /\ Len(qs[l]) \in Nat
            /\ \A i \in 1 .. Len(qs[l]) : q2[l][i] = qs[l][i]
            /\ q2[l][Len(qs[l]) + 1] = [op |-> op, model |-> m, by |-> by]
<1> DEFINE x == [op |-> op, model |-> m, by |-> by]
           q2 == Send(qs, l, op, m, by)
<1>1. x \in Command BY DEF Command
<1>2. qs[l] \in Seq(Command) BY DEF Queues
<1>3. q2 \in Queues BY SendType
<1>4. q2[l] = Append(qs[l], x) /\ \A k \in Launchers \ {l} : q2[k] = qs[k]
  BY DEF Send, Queues
<1> HIDE DEF x, q2
<1>5. /\ Len(q2[l]) = Len(qs[l]) + 1 /\ Len(qs[l]) \in Nat
      /\ \A i \in 1 .. Len(qs[l]) : q2[l][i] = qs[l][i]
      /\ q2[l][Len(qs[l]) + 1] = x
  BY <1>1, <1>2, <1>4
<1> QED BY <1>3, <1>4, <1>5 DEF q2, x

\* The calls c awaits are nobody's now, the others are what they were.
Released(qs, q2, c) ==
  \A k \in Launchers :
    /\ Len(q2[k]) = Len(qs[k])
    /\ \A i \in 1 .. Len(qs[k]) :
         /\ q2[k][i].op = qs[k][i].op /\ q2[k][i].model = qs[k][i].model
         /\ q2[k][i].by = IF qs[k][i].by = c THEN NoProc ELSE qs[k][i].by

\* A caller that goes on, for its answer or for its timeout, awaits nothing more.
LEMMA AnsweredOrTimedOutEffect ==
  ASSUME commands \in Queues, reply \in Replies, NEW c \in Callers,
         NEW results \in SUBSET {"ok", "failed"},
         NEW queues \in OnAnswer(c, results) \cup OnTimeout(c),
         NEW e, NEW fr, CallsSound(e, fr, commands, reply)
  PROVE  queues \in Queues /\ Released(commands, queues, c)
<1>1. queues \in Queues BY AnsweredOrTimedOutType
<1>2. \A k \in Launchers : commands[k] \in Seq(Command) BY DEF Queues
<1>3. CASE queues \in OnAnswer(c, results)
  <2>1. reply[c] # "none" /\ queues = commands
    BY <1>3 DEF OnAnswer
  <2>2. \A k \in Launchers : \A i \in 1 .. Len(commands[k]) : commands[k][i].by # c
    BY <2>1, SentinelAssumption DEF CallsSound, CallSound
  <2> QED BY <1>1, <2>1, <2>2 DEF Released
<1>4. CASE queues \in OnTimeout(c)
  <2>1. queues = [l \in Launchers |-> Orphaned(c, l)]
    BY <1>4 DEF OnTimeout
  <2>2. ASSUME NEW k \in Launchers
        PROVE  /\ Len(queues[k]) = Len(commands[k])
               /\ \A i \in 1 .. Len(commands[k]) :
                    /\ queues[k][i].op = commands[k][i].op
                    /\ queues[k][i].model = commands[k][i].model
                    /\ queues[k][i].by = IF commands[k][i].by = c THEN NoProc
                                         ELSE commands[k][i].by
    <3>1. DOMAIN commands[k] = 1 .. Len(commands[k]) /\ Len(commands[k]) \in Nat
      BY <1>2
    <3> DEFINE orphan(x) == [x EXCEPT !.by = NoProc]
    <3>2. /\ DOMAIN queues[k] = DOMAIN commands[k]
          /\ \A i \in DOMAIN commands[k] :
               queues[k][i] = IF commands[k][i].by = c THEN orphan(commands[k][i])
                              ELSE commands[k][i]
      BY <2>1 DEF Orphaned
    <3>3. Len(queues[k]) = Len(commands[k])
      <4>1. queues[k] \in Seq(Command) BY <1>1 DEF Queues
      <4>2. DOMAIN queues[k] = 1 .. Len(queues[k]) /\ Len(queues[k]) \in Nat BY <4>1
      <4> QED BY <3>1, <3>2, <4>2
    <3>4. \A i \in 1 .. Len(commands[k]) : commands[k][i] \in Command BY <1>2
    <3>5. \A x \in Command : /\ orphan(x).op = x.op /\ orphan(x).model = x.model
                            /\ orphan(x).by = NoProc
      BY DEF Command
    <3> HIDE DEF orphan
    <3> QED BY <3>1, <3>2, <3>3, <3>4, <3>5
  <2> QED BY <1>1, <2>2 DEF Released
<1> QED BY <1>3, <1>4

-----------------------------------------------------------------------------
(***************************************************************************)
(* What the steps of the system do to heaps, frames, calls and agents,     *)
(* and that each keeps Agents.                                             *)
(***************************************************************************)

\* The entries of f are entries of e, on the same launchers and of the same models.
Thinned(e, f) ==
  \A p \in Pooled(f) : /\ p \in Pooled(e)
                       /\ f[p].launcher = e[p].launcher /\ f[p].model = e[p].model

\* Only c's place is another one.
OnlyFrame(fr, fr2, c, phase, id) ==
  /\ fr2[c].phase = phase /\ fr2[c].id = id
  /\ \A d \in Callers \ {c} : fr2[d] = fr[d]

\* Entries come off the pools, or change neither launcher nor model.
LEMMA ThinnedAgents ==
  ASSUME NEW e, NEW f, NEW fr, NEW qs, NEW ag, NEW rp, Agents(e, fr, qs, ag, rp),
         Thinned(e, f), \A c \in Callers : fr[c].phase = "posting" => fr[c].id \in Pooled(f),
         qs \in Queues
  PROVE  Agents(f, fr, qs, ag, rp)
<1>1. \A c \in Callers : fr[c].phase = "posting" =>
        /\ f[fr[c].id].launcher = e[fr[c].id].launcher
        /\ f[fr[c].id].model = e[fr[c].id].model
  BY DEF Thinned
<1>2. \A k \in Launchers : \A i \in 1 .. Len(qs[k]) : qs[k][i].by \in Callers \cup {NoProc}
  BY QueueType
<1>3. CallsSound(f, fr, qs, rp)
  BY <1>1, <1>2 DEF Agents, CallsSound, CallSound
<1>4. AnswersSound(f, fr, qs, ag, rp)
  BY <1>1 DEF Agents, AnswersSound
<1>5. LandedSound(f, fr, qs, ag)
  BY DEF Agents, LandedSound, Thinned
<1> QED BY <1>3, <1>4, <1>5 DEF Agents

\* The reservations that callers other than c post for are in f as they are in e.
KeepsPosted(e, f, fr, c) ==
  \A d \in Callers \ {c} : fr[d].phase = "posting" =>
    /\ fr[d].id \in Pooled(f)
    /\ f[fr[d].id].launcher = e[fr[d].id].launcher
    /\ f[fr[d].id].model = e[fr[d].id].model

\* The entries of f are those of e that c does not post for, or stand on settled
\* launchers.
Rests(e, f, fr, qs, ag, c) ==
  \A p \in Pooled(f) :
    /\ f[p].launcher \in Launchers
    /\ \/ /\ p \in Pooled(e) /\ ~Posts(fr, c, p)
          /\ f[p].launcher = e[p].launcher /\ f[p].model = e[p].model
       \/ Settled(ag, qs, f[p].launcher, f[p].model)

\* c has processed its answer, if there was one.
Processed(rp, rp2, c) == rp2[c] = "none" /\ \A d \in Callers \ {c} : rp2[d] = rp[d]

\* c is done with what it awaited, and nothing stands on a launcher that c's call may
\* have left unsettled.
LEMMA FinishedAgents ==
  ASSUME NEW e, NEW f, NEW fr, NEW fr2, NEW qs \in Queues, NEW q2 \in Queues,
         NEW ag, NEW rp, NEW rp2, NEW c \in Callers,
         Agents(e, fr, qs, ag, rp), Released(qs, q2, c), Processed(rp, rp2, c),
         OnlyFrame(fr, fr2, c, "idle", fr2[c].id),
         KeepsPosted(e, f, fr, c), Rests(e, f, fr, qs, ag, c)
  PROVE  Agents(f, fr2, q2, ag, rp2)
<1> USE DEF KeepsPosted, Rests, Processed
<1>1. \A k \in Launchers : /\ Len(q2[k]) = Len(qs[k]) /\ Len(qs[k]) \in Nat
                          /\ \A i \in 1 .. Len(qs[k]) : qs[k][i].by \in Callers \cup {NoProc}
  BY QueueType DEF Released
<1>2. \A k \in Launchers : \A m : Settled(ag, qs, k, m) => Settled(ag, q2, k, m)
  BY DEF Settled, Released
<1>3. AwaitedOnce(q2)
  BY <1>1, SentinelAssumption DEF Agents, AwaitedOnce, Released
<1>4. CallsSound(f, fr2, q2, rp2)
  <2>1. SUFFICES ASSUME NEW k \in Launchers, NEW i \in 1 .. Len(q2[k]), q2[k][i].by # NoProc
                 PROVE  CallSound(f, fr2, q2, rp2, k, i)
    BY DEF CallsSound, CallSound
  <2> DEFINE d == q2[k][i].by
  <2>2. /\ d = qs[k][i].by /\ d \in Callers /\ d # c /\ i \in 1 .. Len(qs[k])
        /\ q2[k][i].op = qs[k][i].op
    BY <2>1, <1>1 DEF Released
  <2>3. CallSound(e, fr, qs, rp, k, i)
    BY <2>2 DEF Agents, CallsSound
  <2>4. fr2[d] = fr[d] /\ rp2[d] = rp[d]
    BY <2>2 DEF OnlyFrame
  <2>5. \A j \in i .. Len(qs[k]) : q2[k][j].op = qs[k][j].op /\ q2[k][j].model = qs[k][j].model
    BY <2>2, <1>1 DEF Released
  <2> HIDE DEF d
  <2>6. /\ rp[d] = "none" /\ fr[d].phase # "idle"
        /\ fr[d].phase = "stopping" => qs[k][i].op = "DELETE"
        /\ fr[d].phase = "posting" =>
             /\ qs[k][i].op = "POST" /\ k = e[fr[d].id].launcher
             /\ \A j \in i .. Len(qs[k]) :
                  qs[k][j].op = "POST" => qs[k][j].model = e[fr[d].id].model
    BY <2>1, <2>2, <2>3 DEF CallSound, d
  <2>7. fr[d].phase = "posting" => /\ f[fr[d].id].launcher = e[fr[d].id].launcher
                                  /\ f[fr[d].id].model = e[fr[d].id].model
    BY <2>2
  <2>8. d = q2[k][i].by BY DEF d
  <2> QED BY <2>2, <2>4, <2>5, <2>6, <2>7, <2>8, <1>1 DEF CallSound
<1>5. AnswersSound(f, fr2, q2, ag, rp2)
  <2>1. SUFFICES ASSUME NEW d \in Callers
                 PROVE  /\ fr2[d].phase = "idle" => rp2[d] = "none"
                        /\ fr2[d].phase = "posting" => fr2[d].id \in Pooled(f)
                        /\ fr2[d].phase = "posting" /\ rp2[d] = "ok" =>
                             Settled(ag, q2, f[fr2[d].id].launcher, f[fr2[d].id].model)
    BY DEF AnswersSound
  <2>2. CASE d = c
    BY <2>2 DEF OnlyFrame
  <2>3. CASE d # c
    <3>1. fr2[d] = fr[d] /\ rp2[d] = rp[d]
      BY <2>3 DEF OnlyFrame
    <3> QED BY <3>1, <2>3, <1>2 DEF Agents, AnswersSound
  <2> QED BY <2>2, <2>3
<1>6. LandedSound(f, fr2, q2, ag)
  <2>1. SUFFICES ASSUME NEW p \in Pooled(f), \A d \in Callers : ~Posts(fr2, d, p)
                 PROVE  Settled(ag, q2, f[p].launcher, f[p].model)
    BY DEF LandedSound
  <2>2. \A d \in Callers \ {c} : ~Posts(fr, d, p)
    BY <2>1 DEF Posts, OnlyFrame
  <2>3. Settled(ag, qs, f[p].launcher, f[p].model)
    BY <2>2 DEF Agents, LandedSound
  <2> QED BY <2>3, <1>2
<1> QED BY <1>3, <1>4, <1>5, <1>6 DEF Agents

\* An idle caller reserves a launcher, on which there is nothing but what landed for
\* the same model, and sends it a POST.
LEMMA PostedAgents ==
  ASSUME NEW e \in Heap, NEW f, NEW fr, NEW fr2, NEW qs \in Queues, NEW ag, NEW rp,
         NEW c \in Callers, NEW p, NEW l \in Launchers, NEW m \in Models,
         Agents(e, fr, qs, ag, rp), fr[c].phase = "idle",
         OnlyFrame(fr, fr2, c, "posting", p),
         p \notin Pooled(e), Pooled(f) = Pooled(e) \cup {p},
         \A q \in Pooled(e) : f[q] = e[q], f[p].launcher = l, f[p].model = m,
         \A q \in Pooled(e) : e[q].launcher = l =>
           e[q].model = m /\ \A d \in Callers : ~Posts(fr, d, q)
  PROVE  Agents(f, fr2, Send(qs, l, "POST", m, c), ag, rp)
<1> DEFINE q2 == Send(qs, l, "POST", m, c)
           n == Len(qs[l]) + 1
<1>1. /\ q2 \in Queues
      /\ \A k \in Launchers \ {l} : q2[k] = qs[k]
      /\ Len(q2[l]) = n /\ n \in Nat /\ Len(qs[l]) \in Nat
      /\ \A i \in 1 .. Len(qs[l]) : q2[l][i] = qs[l][i]
      /\ q2[l][n].op = "POST" /\ q2[l][n].model = m /\ q2[l][n].by = c
  <2> DEFINE x == [op |-> "POST", model |-> m, by |-> c]
  <2>1. /\ q2 \in Queues
        /\ \A k \in Launchers \ {l} : q2[k] = qs[k]
        /\ Len(q2[l]) = n /\ Len(qs[l]) \in Nat
        /\ \A i \in 1 .. Len(qs[l]) : q2[l][i] = qs[l][i]
        /\ q2[l][n] = x
    BY SendEffect
  <2>2. x.op = "POST" /\ x.model = m /\ x.by = c OBVIOUS
  <2> HIDE DEF q2, x
  <2> QED BY <2>1, <2>2
<1>2. \A k \in Launchers : /\ Len(qs[k]) \in Nat
                          /\ \A i \in 1 .. Len(qs[k]) : qs[k][i].by \in Callers \cup {NoProc}
  BY QueueType
<1> HIDE DEF q2
<1>3. \A k \in Launchers : \A i \in 1 .. Len(q2[k]) :
        \/ i \in 1 .. Len(qs[k]) /\ q2[k][i] = qs[k][i]
        \/ k = l /\ i = n
  BY <1>1, <1>2
<1>4. \A k \in Launchers : \A i \in 1 .. Len(qs[k]) : qs[k][i].by # c
  BY SentinelAssumption DEF Agents, CallsSound, CallSound
<1>5. AwaitedOnce(q2)
  <2>1. SUFFICES ASSUME NEW k \in Launchers, NEW k2 \in Launchers,
                        NEW i \in 1 .. Len(q2[k]), NEW j \in 1 .. Len(q2[k2]),
                        q2[k][i].by # NoProc, q2[k][i].by = q2[k2][j].by
                 PROVE  k = k2 /\ i = j
    BY DEF AwaitedOnce
  <2>2. CASE i \in 1 .. Len(qs[k]) /\ q2[k][i] = qs[k][i]
             /\ j \in 1 .. Len(qs[k2]) /\ q2[k2][j] = qs[k2][j]
    BY <2>1, <2>2 DEF Agents, AwaitedOnce
  <2>3. CASE k = l /\ i = n
    <3>1. q2[k2][j].by = c BY <2>1, <2>3, <1>1
    <3> QED BY <3>1, <2>3, <1>3, <1>4
  <2>4. CASE k2 = l /\ j = n
    <3>1. q2[k][i].by = c BY <2>1, <2>4, <1>1
    <3> QED BY <3>1, <2>4, <1>3, <1>4
  <2> QED BY <1>3, <2>2, <2>3, <2>4
<1>6. ASSUME NEW d \in Callers, d # c
      PROVE  /\ fr2[d] = fr[d]
             /\ fr[d].phase = "posting" =>
                  /\ fr[d].id \in Pooled(e) /\ f[fr[d].id] = e[fr[d].id]
                  /\ e[fr[d].id].launcher # l
  BY <1>6 DEF OnlyFrame, Agents, AnswersSound, Posts
<1>7. CallsSound(f, fr2, q2, rp)
  <2>1. SUFFICES ASSUME NEW k \in Launchers, NEW i \in 1 .. Len(q2[k]), q2[k][i].by # NoProc
                 PROVE  CallSound(f, fr2, q2, rp, k, i)
    BY DEF CallsSound, CallSound
  <2>2. CASE i \in 1 .. Len(qs[k]) /\ q2[k][i] = qs[k][i]
    <3> DEFINE d == qs[k][i].by
    <3>1. d \in Callers /\ d # c /\ d # NoProc /\ d = q2[k][i].by
      BY <1>2, <1>4, <2>1, <2>2
    <3>2. CallSound(e, fr, qs, rp, k, i)
      BY <2>2 DEF Agents, CallsSound
    <3>3. /\ rp[d] = "none" /\ fr[d].phase # "idle"
          /\ fr[d].phase = "stopping" => qs[k][i].op = "DELETE"
          /\ fr[d].phase = "posting" =>
               /\ qs[k][i].op = "POST" /\ k = e[fr[d].id].launcher
               /\ \A j \in i .. Len(qs[k]) :
                    qs[k][j].op = "POST" => qs[k][j].model = e[fr[d].id].model
      BY <3>1, <3>2 DEF CallSound
    <3> HIDE DEF d
    <3>4. ASSUME fr[d].phase = "posting" PROVE q2[k] = qs[k] /\ f[fr[d].id] = e[fr[d].id]
      <4>1. f[fr[d].id] = e[fr[d].id] /\ e[fr[d].id].launcher # l
        BY <3>1, <3>4, <1>6
      <4> QED BY <3>3, <3>4, <4>1, <1>1
    <3>5. fr2[d] = fr[d] BY <3>1, <1>6
    <3>6. d = q2[k][i].by /\ q2[k][i] = qs[k][i]
      BY <3>1, <2>2
    <3> QED BY <3>3, <3>4, <3>5, <3>6 DEF CallSound
  <2>3. CASE k = l /\ i = n
    <3>1. rp[c] = "none" /\ f[p].launcher = l /\ f[p].model = m
      BY DEF Agents, AnswersSound
    <3>2. \A j \in i .. Len(q2[k]) : j = n
      BY <2>3, <1>1
    <3> QED BY <2>3, <3>1, <3>2, <1>1 DEF CallSound, OnlyFrame
  <2> QED BY <1>3, <2>2, <2>3
<1>8. ASSUME NEW k \in Launchers, NEW x, k = l => x = m, Settled(ag, qs, k, x)
      PROVE  Settled(ag, q2, k, x)
  <2>1. \A i \in 1 .. Len(q2[k]) : q2[k][i].op = "POST" => q2[k][i].model = x
    BY <1>1, <1>3, <1>8 DEF Settled
  <2> QED BY <2>1, <1>8 DEF Settled
<1>9. AnswersSound(f, fr2, q2, ag, rp)
  <2>1. SUFFICES ASSUME NEW d \in Callers
                 PROVE  /\ fr2[d].phase = "idle" => rp[d] = "none"
                        /\ fr2[d].phase = "posting" => fr2[d].id \in Pooled(f)
                        /\ fr2[d].phase = "posting" /\ rp[d] = "ok" =>
                             Settled(ag, q2, f[fr2[d].id].launcher, f[fr2[d].id].model)
    BY DEF AnswersSound
  <2>2. CASE d = c
    BY <2>2 DEF OnlyFrame, Agents, AnswersSound
  <2>3. CASE d # c
    <3>1. /\ fr[d].phase = "idle" => rp[d] = "none"
          /\ fr[d].phase = "posting" => fr[d].id \in Pooled(e)
          /\ fr[d].phase = "posting" /\ rp[d] = "ok" =>
               Settled(ag, qs, e[fr[d].id].launcher, e[fr[d].id].model)
      BY DEF Agents, AnswersSound
    <3>2. fr[d].phase = "posting" => e[fr[d].id].launcher \in Launchers
      BY <3>1, PooledType
    <3> QED BY <2>3, <3>1, <3>2, <1>6, <1>8
  <2> QED BY <2>2, <2>3
<1>10. LandedSound(f, fr2, q2, ag)
  <2>1. SUFFICES ASSUME NEW q \in Pooled(f), \A d \in Callers : ~Posts(fr2, d, q)
                 PROVE  Settled(ag, q2, f[q].launcher, f[q].model)
    BY DEF LandedSound
  <2>2. q \in Pooled(e) /\ f[q] = e[q]
    BY <2>1 DEF OnlyFrame, Posts
  <2>3. \A d \in Callers : ~Posts(fr, d, q)
    BY <2>1 DEF OnlyFrame, Posts
  <2>4. Settled(ag, qs, e[q].launcher, e[q].model)
    BY <2>2, <2>3 DEF Agents, LandedSound
  <2>5. e[q].launcher \in Launchers BY <2>2, PooledType
  <2> QED BY <2>2, <2>4, <2>5, <1>8
<1> QED BY <1>5, <1>7, <1>9, <1>10 DEF Agents, q2

\* An idle caller sends a launcher a DELETE.
LEMMA StoppedAgents ==
  ASSUME NEW e \in Heap, NEW fr, NEW fr2, NEW qs \in Queues, NEW ag, NEW rp,
         NEW c \in Callers, NEW p, NEW l \in Launchers, NEW m \in Models,
         Agents(e, fr, qs, ag, rp), fr[c].phase = "idle",
         OnlyFrame(fr, fr2, c, "stopping", p)
  PROVE  Agents(e, fr2, Send(qs, l, "DELETE", m, c), ag, rp)
<1> DEFINE q2 == Send(qs, l, "DELETE", m, c)
           n == Len(qs[l]) + 1
<1>1. /\ q2 \in Queues
      /\ \A k \in Launchers \ {l} : q2[k] = qs[k]
      /\ Len(q2[l]) = n /\ n \in Nat /\ Len(qs[l]) \in Nat
      /\ \A i \in 1 .. Len(qs[l]) : q2[l][i] = qs[l][i]
      /\ q2[l][n].op = "DELETE" /\ q2[l][n].by = c
  <2> DEFINE x == [op |-> "DELETE", model |-> m, by |-> c]
  <2>1. /\ q2 \in Queues
        /\ \A k \in Launchers \ {l} : q2[k] = qs[k]
        /\ Len(q2[l]) = n /\ Len(qs[l]) \in Nat
        /\ \A i \in 1 .. Len(qs[l]) : q2[l][i] = qs[l][i]
        /\ q2[l][n] = x
    BY SendEffect
  <2>2. x.op = "DELETE" /\ x.by = c OBVIOUS
  <2> HIDE DEF q2, x
  <2> QED BY <2>1, <2>2
<1>2. \A k \in Launchers : /\ Len(qs[k]) \in Nat
                          /\ \A i \in 1 .. Len(qs[k]) : qs[k][i].by \in Callers \cup {NoProc}
  BY QueueType
<1> HIDE DEF q2
<1>3. \A k \in Launchers : \A i \in 1 .. Len(q2[k]) :
        \/ i \in 1 .. Len(qs[k]) /\ q2[k][i] = qs[k][i]
        \/ k = l /\ i = n
  BY <1>1, <1>2
<1>4. \A k \in Launchers : \A i \in 1 .. Len(qs[k]) : qs[k][i].by # c
  BY SentinelAssumption DEF Agents, CallsSound, CallSound
<1>5. AwaitedOnce(q2)
  <2>1. SUFFICES ASSUME NEW k \in Launchers, NEW k2 \in Launchers,
                        NEW i \in 1 .. Len(q2[k]), NEW j \in 1 .. Len(q2[k2]),
                        q2[k][i].by # NoProc, q2[k][i].by = q2[k2][j].by
                 PROVE  k = k2 /\ i = j
    BY DEF AwaitedOnce
  <2>2. CASE i \in 1 .. Len(qs[k]) /\ q2[k][i] = qs[k][i]
             /\ j \in 1 .. Len(qs[k2]) /\ q2[k2][j] = qs[k2][j]
    BY <2>1, <2>2 DEF Agents, AwaitedOnce
  <2>3. CASE k = l /\ i = n
    <3>1. q2[k2][j].by = c BY <2>1, <2>3, <1>1
    <3> QED BY <3>1, <2>3, <1>3, <1>4
  <2>4. CASE k2 = l /\ j = n
    <3>1. q2[k][i].by = c BY <2>1, <2>4, <1>1
    <3> QED BY <3>1, <2>4, <1>3, <1>4
  <2> QED BY <1>3, <2>2, <2>3, <2>4
<1>6. \A d \in Callers \ {c} : fr2[d] = fr[d]
  BY DEF OnlyFrame
<1>7. CallsSound(e, fr2, q2, rp)
  <2>1. SUFFICES ASSUME NEW k \in Launchers, NEW i \in 1 .. Len(q2[k]), q2[k][i].by # NoProc
                 PROVE  CallSound(e, fr2, q2, rp, k, i)
    BY DEF CallsSound, CallSound
  <2>2. CASE i \in 1 .. Len(qs[k]) /\ q2[k][i] = qs[k][i]
    <3> DEFINE d == qs[k][i].by
    <3>1. d \in Callers /\ d # c /\ d # NoProc /\ d = q2[k][i].by
      BY <1>2, <1>4, <2>1, <2>2
    <3>2. CallSound(e, fr, qs, rp, k, i)
      BY <2>2 DEF Agents, CallsSound
    <3>3. /\ rp[d] = "none" /\ fr[d].phase # "idle"
          /\ fr[d].phase = "stopping" => qs[k][i].op = "DELETE"
          /\ fr[d].phase = "posting" =>
               /\ qs[k][i].op = "POST" /\ k = e[fr[d].id].launcher
               /\ \A j \in i .. Len(qs[k]) :
                    qs[k][j].op = "POST" => qs[k][j].model = e[fr[d].id].model
      BY <3>1, <3>2 DEF CallSound
    <3> HIDE DEF d
    <3>4. \A j \in i .. Len(q2[k]) : \/ j \in i .. Len(qs[k]) /\ q2[k][j] = qs[k][j]
                                    \/ q2[k][j].op = "DELETE"
      BY <2>2, <1>1, <1>2
    <3>5. fr2[d] = fr[d] BY <3>1, <1>6
    <3> QED BY <3>1, <3>3, <3>4, <3>5, <2>2 DEF CallSound
  <2>3. CASE k = l /\ i = n
    <3>1. rp[c] = "none"
      BY DEF Agents, AnswersSound
    <3> QED BY <2>3, <3>1, <1>1 DEF CallSound, OnlyFrame
  <2> QED BY <1>3, <2>2, <2>3
<1>8. ASSUME NEW k \in Launchers, NEW x, Settled(ag, qs, k, x)
      PROVE  Settled(ag, q2, k, x)
  <2>1. \A i \in 1 .. Len(q2[k]) : q2[k][i].op = "POST" => q2[k][i].model = x
    BY <1>1, <1>3, <1>8 DEF Settled
  <2> QED BY <2>1, <1>8 DEF Settled
<1>9. \A q \in Pooled(e) : e[q].launcher \in Launchers
  BY PooledType
<1>10. AnswersSound(e, fr2, q2, ag, rp)
  <2>1. \A d \in Callers \ {c} :
          /\ fr[d].phase = "idle" => rp[d] = "none"
          /\ fr[d].phase = "posting" => fr[d].id \in Pooled(e)
          /\ fr[d].phase = "posting" /\ rp[d] = "ok" =>
               Settled(ag, q2, e[fr[d].id].launcher, e[fr[d].id].model)
    BY <1>8, <1>9 DEF Agents, AnswersSound
  <2> QED BY <2>1, <1>6 DEF AnswersSound, OnlyFrame
<1>11. LandedSound(e, fr2, q2, ag)
  <2>1. \A q \in Pooled(e) : (\A d \in Callers : ~Posts(fr2, d, q)) =>
                              \A d \in Callers : ~Posts(fr, d, q)
    BY <1>6 DEF Posts
  <2> QED BY <2>1, <1>8, <1>9 DEF Agents, LandedSound
<1> QED BY <1>5, <1>7, <1>10, <1>11 DEF Agents, q2

\* The launcher l runs its first call: its agent is x from now on, and the caller,
\* if it is still there, is answered.
LEMMA AnsweredAgents ==
  ASSUME NEW e \in Heap, NEW fr \in [Callers -> Frame], NEW qs \in Queues,
         NEW ag \in [Launchers -> Models \cup {NoModel}], NEW rp \in Replies,
         Agents(e, fr, qs, ag, rp),
         NEW l \in Launchers, qs[l] # <<>>, NEW x, NEW result \in {"ok", "failed"},
         \/ x = NoModel
         \/ x = ag[l] /\ result = "failed"
         \/ x = Head(qs[l]).model /\ Head(qs[l]).op = "POST",
         NEW ag2, ag2 = [ag EXCEPT ![l] = x],
         NEW q2, q2 = [qs EXCEPT ![l] = Tail(@)],
         NEW rp2, rp2 = IF Head(qs[l]).by = NoProc THEN rp
                        ELSE [rp EXCEPT ![Head(qs[l]).by] = result]
  PROVE  Agents(e, fr, q2, ag2, rp2)
<1> DEFINE c == qs[l][1].by
<1>1. /\ Len(qs[l]) \in Nat \ {0} /\ Head(qs[l]) = qs[l][1]
      /\ Len(q2[l]) = Len(qs[l]) - 1
      /\ \A i \in 1 .. Len(q2[l]) : q2[l][i] = qs[l][i + 1] /\ i + 1 \in 2 .. Len(qs[l])
      /\ \A k \in Launchers \ {l} : q2[k] = qs[k]
  <2> DEFINE s == qs[l]
             t == q2[l]
  <2>1. s \in Seq(Command) /\ s # <<>> BY DEF Queues
  <2>2. t = Tail(s) /\ \A k \in Launchers \ {l} : q2[k] = qs[k]
    BY DEF Queues
  <2> HIDE DEF s, t
  <2>3. Len(s) \in Nat \ {0} /\ Head(s) = s[1]
    BY <2>1
  <2>4. Len(t) = Len(s) - 1
    BY <2>1, <2>2
  <2>5. \A i \in 1 .. Len(t) : t[i] = s[i + 1]
    BY <2>1, <2>2, <2>4
  <2>6. \A i \in 1 .. Len(t) : i + 1 \in 2 .. Len(s)
    BY <2>3, <2>4
  <2> QED BY <2>2, <2>3, <2>4, <2>5, <2>6 DEF s, t
<1>2. \A k \in Launchers : /\ Len(qs[k]) \in Nat
                          /\ \A i \in 1 .. Len(qs[k]) : qs[k][i].by \in Callers \cup {NoProc}
  BY QueueType
<1>3. c \in Callers \cup {NoProc} BY <1>1, <1>2
<1>4. /\ \A k \in Launchers \ {l} : ag2[k] = ag[k]
      /\ ag2[l] = x
      /\ \A d \in Callers : rp2[d] = IF d = c THEN result ELSE rp[d]
  BY <1>1, <1>3, SentinelAssumption DEF Replies
<1>5. \A k \in Launchers : \A i \in 1 .. Len(q2[k]) : \E j \in 1 .. Len(qs[k]) :
        /\ q2[k][i] = qs[k][j] /\ j = (IF k = l THEN i + 1 ELSE i)
  BY <1>1, <1>2
<1>6. CallSound(e, fr, qs, rp, l, 1)
  BY <1>1 DEF Agents, CallsSound
<1> HIDE DEF c
<1>7. ASSUME NEW k \in Launchers, NEW m, Settled(ag, qs, k, m)
      PROVE  Settled(ag2, q2, k, m)
  <2>1. \A i \in 1 .. Len(q2[k]) : q2[k][i].op = "POST" => q2[k][i].model = m
    BY <1>5, <1>7 DEF Settled
  <2>2. k = l => x \in {m, NoModel}
    BY <1>1, <1>7 DEF Settled
  <2> QED BY <2>1, <2>2, <1>4, <1>7 DEF Settled
<1>8. AwaitedOnce(q2)
  <2>1. SUFFICES ASSUME NEW k \in Launchers, NEW k2 \in Launchers,
                        NEW i \in 1 .. Len(q2[k]), NEW j \in 1 .. Len(q2[k2]),
                        q2[k][i].by # NoProc, q2[k][i].by = q2[k2][j].by
                 PROVE  k = k2 /\ i = j
    BY DEF AwaitedOnce
  <2>2. PICK a \in 1 .. Len(qs[k]) : q2[k][i] = qs[k][a] /\ a = (IF k = l THEN i + 1 ELSE i)
    BY <1>5
  <2>3. PICK b \in 1 .. Len(qs[k2]) : q2[k2][j] = qs[k2][b] /\ b = (IF k2 = l THEN j + 1 ELSE j)
    BY <1>5
  <2>4. k = k2 /\ a = b
    BY <2>1, <2>2, <2>3 DEF Agents, AwaitedOnce
  <2>5. Len(q2[k]) \in Nat /\ Len(q2[k2]) \in Nat
    BY <1>1, <1>2
  <2> QED BY <2>2, <2>3, <2>4, <2>5
<1>9. CallsSound(e, fr, q2, rp2)
  <2>0. \A k \in Launchers : \A i \in 1 .. Len(q2[k]) :
          q2[k][i].by = NoProc => CallSound(e, fr, q2, rp2, k, i)
    BY Zenon DEF CallSound
  <2>1. SUFFICES ASSUME NEW k \in Launchers, NEW i \in 1 .. Len(q2[k]), q2[k][i].by # NoProc
                 PROVE  CallSound(e, fr, q2, rp2, k, i)
    BY <2>0, Zenon DEF CallsSound
  <2>2. PICK a \in 1 .. Len(qs[k]) : q2[k][i] = qs[k][a] /\ a = (IF k = l THEN i + 1 ELSE i)
    BY <1>5
  <2> DEFINE d == qs[k][a].by
  <2>3. d \in Callers /\ d # NoProc /\ d = q2[k][i].by
    BY <1>2, <2>1, <2>2
  <2>4. d # c
    <3>1. k = l => a # 1 BY <2>2, <1>1
    <3> QED BY <3>1, <2>3, <1>1 DEF Agents, AwaitedOnce, c
  <2>5. CallSound(e, fr, qs, rp, k, a)
    BY DEF Agents, CallsSound
  <2>6. /\ rp[d] = "none" /\ fr[d].phase # "idle"
        /\ fr[d].phase = "stopping" => qs[k][a].op = "DELETE"
        /\ fr[d].phase = "posting" =>
             /\ qs[k][a].op = "POST" /\ k = e[fr[d].id].launcher
             /\ \A j \in a .. Len(qs[k]) :
                  qs[k][j].op = "POST" => qs[k][j].model = e[fr[d].id].model
    BY <2>3, <2>5 DEF CallSound
  <2>7. \A j \in i .. Len(q2[k]) : \E b \in a .. Len(qs[k]) : q2[k][j] = qs[k][b]
    <3>1. SUFFICES ASSUME NEW j \in i .. Len(q2[k])
                   PROVE  \E b \in a .. Len(qs[k]) : q2[k][j] = qs[k][b]
      OBVIOUS
    <3>2. Len(q2[k]) \in Nat BY <1>1, <1>2
    <3>3. j \in 1 .. Len(q2[k]) BY <3>1, <3>2
    <3>4. PICK b \in 1 .. Len(qs[k]) : q2[k][j] = qs[k][b] /\ b = (IF k = l THEN j + 1 ELSE j)
      BY <3>3, <1>5
    <3>5. b \in a .. Len(qs[k]) BY <3>1, <3>2, <3>4, <2>2
    <3> QED BY <3>4, <3>5
  <2> HIDE DEF d
  <2>8. rp2[d] = rp[d] BY <2>3, <2>4, <1>4
  <2>9. d = q2[k][i].by /\ q2[k][i] = qs[k][a]
    BY <2>2, <2>3
  <2>10. fr[d].phase = "posting" =>
           \A j \in i .. Len(q2[k]) : q2[k][j].op = "POST" => q2[k][j].model = e[fr[d].id].model
    BY <2>6, <2>7
  <2> QED BY <2>6, <2>8, <2>9, <2>10 DEF CallSound
<1>10. \A q \in Pooled(e) : e[q].launcher \in Launchers
  BY PooledType
<1>11. AnswersSound(e, fr, q2, ag2, rp2)
  <2>1. SUFFICES ASSUME NEW d \in Callers
                 PROVE  /\ fr[d].phase = "idle" => rp2[d] = "none"
                        /\ fr[d].phase = "posting" => fr[d].id \in Pooled(e)
                        /\ fr[d].phase = "posting" /\ rp2[d] = "ok" =>
                             Settled(ag2, q2, e[fr[d].id].launcher, e[fr[d].id].model)
    BY DEF AnswersSound
  <2>2. /\ fr[d].phase = "idle" => rp[d] = "none"
        /\ fr[d].phase = "posting" => fr[d].id \in Pooled(e)
        /\ fr[d].phase = "posting" /\ rp[d] = "ok" =>
             Settled(ag, qs, e[fr[d].id].launcher, e[fr[d].id].model)
    BY DEF Agents, AnswersSound
  <2>3. CASE d # c
    BY <2>2, <2>3, <1>4, <1>7, <1>10
  <2>4. CASE d = c
    <3>1. c # NoProc BY <2>4, SentinelAssumption
    <3>2. /\ fr[c].phase # "idle"
          /\ fr[c].phase = "posting" =>
               /\ qs[l][1].op = "POST" /\ l = e[fr[c].id].launcher
               /\ \A j \in 1 .. Len(qs[l]) :
                    qs[l][j].op = "POST" => qs[l][j].model = e[fr[c].id].model
      BY <3>1, <1>6 DEF CallSound, c
    <3>3. fr[c].phase = "posting" /\ result = "ok" => x \in {e[fr[c].id].model, NoModel}
      BY <3>2, <1>1
    <3>4. fr[c].phase = "posting" => \A i \in 1 .. Len(q2[l]) :
            q2[l][i].op = "POST" => q2[l][i].model = e[fr[c].id].model
      BY <3>2, <1>5
    <3> QED BY <2>2, <2>4, <3>2, <3>3, <3>4, <1>4 DEF Settled
  <2> QED BY <2>3, <2>4
<1>12. LandedSound(e, fr, q2, ag2)
  BY <1>7, <1>10 DEF Agents, LandedSound
<1> QED BY <1>8, <1>9, <1>11, <1>12 DEF Agents

-----------------------------------------------------------------------------
(***************************************************************************)
(* The frames of the state.                                                *)
(***************************************************************************)

\* A cold start's frame is its model's, the pass's frame is Manager's.
LEMMA FramesAt ==
  ASSUME NEW co, NEW ti
  PROVE  /\ \A m \in Models : /\ Frames(co, ti)[m].phase = co[m].phase
                              /\ Frames(co, ti)[m].id = co[m].resv
         /\ Frames(co, ti)[Manager].phase = ti.phase /\ Frames(co, ti)[Manager].id = ti.id
<1>1. ASSUME NEW m \in Models
      PROVE  Frames(co, ti)[m].phase = co[m].phase /\ Frames(co, ti)[m].id = co[m].resv
  <2>1. m \in Callers /\ m # Manager BY SentinelAssumption DEF Callers
  <2>2. Frames(co, ti)[m] = [phase |-> co[m].phase, id |-> co[m].resv] BY <2>1 DEF Frames
  <2> QED BY <2>2
<1>2. Frames(co, ti)[Manager].phase = ti.phase /\ Frames(co, ti)[Manager].id = ti.id
  <2>1. Frames(co, ti)[Manager] = [phase |-> ti.phase, id |-> ti.id] BY DEF Frames, Callers
  <2> QED BY <2>1
<1> QED BY <1>1, <1>2

\* Frames that look at the same things are the same.
LEMMA FramesSame ==
  ASSUME NEW co, NEW ti, NEW ci, NEW tj
  PROVE  /\ \A m \in Models : ci[m] = co[m] => Frames(ci, tj)[m] = Frames(co, ti)[m]
         /\ tj.phase = ti.phase /\ tj.id = ti.id =>
              Frames(ci, tj)[Manager] = Frames(co, ti)[Manager]
<1>1. ASSUME NEW m \in Models, ci[m] = co[m] PROVE Frames(ci, tj)[m] = Frames(co, ti)[m]
  <2>1. m \in Callers /\ m # Manager BY SentinelAssumption DEF Callers
  <2> QED BY <1>1, <2>1 DEF Frames
<1>2. ASSUME tj.phase = ti.phase, tj.id = ti.id
      PROVE  Frames(ci, tj)[Manager] = Frames(co, ti)[Manager]
  BY <1>2 DEF Frames, Callers
<1> QED BY <1>1, <1>2

\* Frames are typed.
LEMMA FramesType ==
  ASSUME TypeOK
  PROVE  Frames(cold, tick) \in [Callers -> Frame]
  BY TypeParts DEF Frames, Frame, Callers, ColdStartState, Tick

\* Frames with c's call behind it.
Idled(fr, c) == [d \in Callers |-> IF d = c THEN [phase |-> "idle", id |-> NoId] ELSE fr[d]]

\* Between the answer c processes and the next call it makes, its frame is idle.
LEMMA IdledFrame ==
  ASSUME NEW fr, NEW c \in Callers
  PROVE  LET mid == Idled(fr, c)
         IN /\ mid[c].phase = "idle" /\ OnlyFrame(fr, mid, c, "idle", mid[c].id)
            /\ \A fr2, phase, id : OnlyFrame(fr, fr2, c, phase, id)
                                    => OnlyFrame(mid, fr2, c, phase, id)
<1> DEFINE mid == Idled(fr, c)
           x == [phase |-> "idle", id |-> NoId]
<1>1. x.phase = "idle" OBVIOUS
<1>2. mid[c] = x /\ \A d \in Callers \ {c} : mid[d] = fr[d]
  BY DEF Idled
<1> HIDE DEF x, mid
<1>3. OnlyFrame(fr, mid, c, "idle", mid[c].id)
  BY <1>1, <1>2 DEF OnlyFrame
<1>4. ASSUME NEW fr2, NEW phase, NEW id, OnlyFrame(fr, fr2, c, phase, id)
      PROVE  OnlyFrame(mid, fr2, c, phase, id)
  BY <1>2, <1>4 DEF OnlyFrame
<1> QED BY <1>1, <1>2, <1>3, <1>4 DEF mid

\* A step of m's cold start moves its frame only.
LEMMA ColdFrames ==
  ASSUME NEW co, NEW ti, NEW co2, NEW ti2, NEW m \in Models,
         \A k \in Models \ {m} : co2[k] = co[k], ti2.phase = ti.phase, ti2.id = ti.id
  PROVE  OnlyFrame(Frames(co, ti), Frames(co2, ti2), m, co2[m].phase, co2[m].resv)
<1>1. /\ Frames(co2, ti2)[m].phase = co2[m].phase /\ Frames(co2, ti2)[m].id = co2[m].resv
  BY FramesAt
<1>2. /\ \A k \in Models \ {m} : Frames(co2, ti2)[k] = Frames(co, ti)[k]
      /\ Frames(co2, ti2)[Manager] = Frames(co, ti)[Manager]
  BY FramesSame
<1> QED BY <1>1, <1>2 DEF OnlyFrame, Callers

\* A step of the pass moves Manager's frame only.
LEMMA TickFrames ==
  ASSUME NEW co, NEW ti, NEW ti2
  PROVE  OnlyFrame(Frames(co, ti), Frames(co, ti2), Manager, ti2.phase, ti2.id)
<1>1. /\ Frames(co, ti2)[Manager].phase = ti2.phase /\ Frames(co, ti2)[Manager].id = ti2.id
  BY FramesAt
<1>2. \A k \in Models : Frames(co, ti2)[k] = Frames(co, ti)[k]
  BY FramesSame
<1> QED BY <1>1, <1>2 DEF OnlyFrame, Callers

\* A caller that goes on awaits nothing more, in the state as in the frames.
LEMMA ProcessedCalls ==
  ASSUME IInv, AgentsSound, NEW c \in Callers,
         NEW queues \in OnAnswer(c, {"ok", "failed"}) \cup OnTimeout(c)
  PROVE  queues \in Queues /\ Released(commands, queues, c)
<1> DEFINE fr == Frames(cold, tick)
<1>1. CallsSound(entry, fr, commands, reply) BY DEF AgentsSound, Agents
<1>2. commands \in Queues /\ reply \in Replies BY TypeParts DEF IInv, TypeRest, Replies
<1> HIDE DEF fr
<1> QED BY <1>1, <1>2, AnsweredOrTimedOutEffect

\* What a caller posts for is a reservation of its own.
LEMMA PostsForReservation ==
  ASSUME IInv, NEW c \in Callers, NEW p, Posts(Frames(cold, tick), c, p)
  PROVE  /\ p \in Pooled(entry) /\ entry[p].state = "assembling"
         /\ \A d \in Callers : Posts(Frames(cold, tick), d, p) => c = d
         /\ \A m \in Models : cold[m].phase # "idle" /\ cold[m].resv = p => c = m
<1>1. c \in Models => cold[c].phase = "posting" /\ cold[c].resv = p
  BY FramesAt DEF Posts
<1>2. c = Manager => tick.phase = "posting" /\ tick.id = p
  BY FramesAt DEF Posts
<1>3. p \in Pooled(entry) /\ entry[p].state = "assembling"
  BY <1>1, <1>2 DEF IInv, Sound, ColdSound, TickSound, Callers
<1>4. \A m \in Models : cold[m].phase # "idle" /\ cold[m].resv = p => c = m
  BY <1>1, <1>2 DEF IInv, Sound, ColdSound, TickSound, Callers
<1>5. ASSUME NEW d \in Callers, Posts(Frames(cold, tick), d, p) PROVE c = d
  <2>1. d \in Models => cold[d].phase = "posting" /\ cold[d].resv = p
    BY <1>5, FramesAt DEF Posts
  <2>2. d = Manager => tick.phase = "posting" /\ tick.id = p
    BY <1>5, FramesAt DEF Posts
  <2> QED BY <1>1, <1>2, <1>4, <2>1, <2>2 DEF IInv, Sound, TickSound, Callers
<1> QED BY <1>3, <1>4, <1>5

\* An entry that is no reservation stands on a settled launcher.
LEMMA SettledUnlessAssembling ==
  ASSUME IInv, AgentsSound, NEW p \in Pooled(entry), entry[p].state # "assembling"
  PROVE  Settled(agent, commands, entry[p].launcher, entry[p].model)
<1> DEFINE fr == Frames(cold, tick)
<1>1. \A c \in Callers : ~Posts(fr, c, p)
  BY PostsForReservation
<1> QED BY <1>1 DEF AgentsSound, Agents, LandedSound

-----------------------------------------------------------------------------
(***************************************************************************)
(* Cold starts.                                                            *)
(***************************************************************************)

\* The reservation is made and the POST sent in one step.
LEMMA ColdStartBeginsAgents ==
  ASSUME IInv, AgentsSound, NEW m \in Models, ColdStartBegins(m), cold[m] = NoColdStart,
         UNCHANGED <<tick, agent, reply>>
  PROVE  AgentsSound'
<1> USE TypeParts DEF IInv
<1> DEFINE fr == Frames(cold, tick)
           fr2 == Frames(cold', tick')
<1>1. PICK p \in PipelineIds, l \in Launchers : ColdStartReserves(m, p, l)
  BY ColdStartBeginsEffect
<1>2. fr[m].phase = "idle"
  BY FramesAt DEF NoColdStart
<1>3. OnlyFrame(fr, fr2, m, "posting", p)
  <2>1. fr2[m].phase = "posting" /\ fr2[m].id = p
    BY <1>1, FramesAt DEF ColdStartReserves
  <2>2. \A k \in Models \ {m} : fr2[k] = fr[k]
    BY <1>1, FramesSame DEF ColdStartReserves
  <2>3. fr2[Manager] = fr[Manager]
    BY FramesSame
  <2> HIDE DEF fr, fr2
  <2> QED BY <2>1, <2>2, <2>3 DEF OnlyFrame, Callers
<1>4. \A q \in Pooled(entry) : entry[q].launcher = l =>
        entry[q].model = m /\ \A d \in Callers : ~Posts(fr, d, q)
  BY <1>1, PostsForReservation DEF ColdStartReserves
<1>5. /\ p \notin Pooled(entry) /\ Pooled(entry') = Pooled(entry) \cup {p}
      /\ \A q \in Pooled(entry) : entry'[q] = entry[q]
      /\ entry'[p].launcher = l /\ entry'[p].model = m
      /\ commands' = Send(commands, l, "POST", m, m)
  BY <1>1 DEF ColdStartReserves, Added, Pooled
<1>6. m \in Callers BY DEF Callers
<1>7. Agents(entry, fr, commands, agent, reply)
  BY DEF AgentsSound
<1> HIDE DEF fr, fr2
<1>8. Agents(entry', fr2, commands', agent, reply)
  BY <1>2, <1>3, <1>4, <1>5, <1>6, <1>7, PostedAgents
<1> QED BY <1>8 DEF AgentsSound, fr2

\* The warm entry takes the place of a reservation whose launcher is settled.
LEMMA ReplacedAgents ==
  ASSUME IInv, AgentsSound, NEW m \in Models, cold[m].phase # "idle", Replaced(m),
         cold' = [cold EXCEPT ![m] = NoColdStart],
         cold[m].phase = "posting" => reply[m] = "ok",
         reply' = [reply EXCEPT ![m] = "none"], commands' \in Queues,
         Released(commands, commands', m), agent' = agent
  PROVE  AgentsSound'
<1> USE TypeParts DEF IInv
<1> DEFINE fr == Frames(cold, tick)
           fr2 == Frames(cold', tick')
           s == cold[m].resv
           t == cold[m].tracked
<1>1. PICK p, kept : Swapped(m, p, kept)
  BY ReplacedEffect
<1>2. m \in Callers BY DEF Callers
<1>3. Agents(entry, fr, commands, agent, reply)
  BY DEF AgentsSound
<1>4. OnlyFrame(fr, fr2, m, "idle", fr2[m].id)
  <2> DEFINE co2 == cold'
             ti2 == tick'
  <2>1. co2[m].phase = "idle" /\ \A k \in Models \ {m} : co2[k] = cold[k]
    BY DEF NoColdStart
  <2>2. ti2.phase = tick.phase /\ ti2.id = tick.id
    BY DEF Replaced, Tick
  <2> HIDE DEF co2, ti2
  <2>3. Frames(co2, ti2)[m].phase = "idle"
    BY <2>1, FramesAt
  <2>4. /\ \A k \in Models \ {m} : Frames(co2, ti2)[k] = fr[k]
        /\ Frames(co2, ti2)[Manager] = fr[Manager]
    BY <2>1, <2>2, FramesSame
  <2>5. fr2 = Frames(co2, ti2) BY DEF co2, ti2
  <2> HIDE DEF fr, fr2
  <2> QED BY <2>3, <2>4, <2>5 DEF OnlyFrame, Callers
<1>5. /\ s \in Pooled(entry) /\ entry[s].model = m /\ entry[s].launcher \in Launchers
      /\ p \in PipelineIds /\ p \notin Pooled(kept) /\ Pooled(kept) = Pooled(entry) \ {s, t}
      /\ Pooled(entry') = Pooled(kept) \cup {p}
      /\ entry'[p].model = m /\ entry'[p].launcher = entry[s].launcher
  BY <1>1 DEF Swapped, Added
<1>6. \A q \in Pooled(kept) : /\ q \in Pooled(entry) /\ q # s /\ q # t
                             /\ entry'[q].launcher = entry[q].launcher
                             /\ entry'[q].model = entry[q].model
  BY <1>1 DEF Swapped, Added, SameEntry, Pooled
<1>7. Settled(agent, commands, entry[s].launcher, m)
  <2>1. CASE cold[m].phase = "posting"
    <3>1. fr[m].phase = "posting" /\ fr[m].id = s BY <2>1, FramesAt
    <3> QED BY <2>1, <3>1, <1>2, <1>3, <1>5 DEF Agents, AnswersSound
  <2>2. CASE cold[m].phase # "posting"
    <3>1. fr[m].phase # "posting" BY <2>2, FramesAt
    <3>2. \A d \in Callers : ~Posts(fr, d, s)
      BY <3>1, PostsForReservation DEF Posts
    <3> QED BY <3>2, <1>3, <1>5 DEF Agents, LandedSound
  <2> QED BY <2>1, <2>2
<1>8. Rests(entry, entry', fr, commands, agent, m)
  <2>1. \A q : Posts(fr, m, q) => q = s BY FramesAt DEF Posts
  <2>2. \A q \in Pooled(entry) : entry[q].launcher \in Launchers BY PooledType
  <2> HIDE DEF fr, s, t
  <2> QED BY <2>1, <2>2, <1>5, <1>6, <1>7 DEF Rests
<1>9. KeepsPosted(entry, entry', fr, m)
  <2>1. ASSUME NEW d \in Callers \ {m}, fr[d].phase = "posting"
        PROVE  fr[d].id \in Pooled(kept)
    <3>1. Posts(fr, d, fr[d].id) BY <2>1 DEF Posts
    <3>2. /\ fr[d].id \in Pooled(entry) /\ entry[fr[d].id].state = "assembling" /\ fr[d].id # s
      BY <3>1, PostsForReservation
    <3>3. fr[d].id # t
      BY <3>2 DEF Sound, ColdSound
    <3> QED BY <3>2, <3>3, <1>5
  <2> HIDE DEF fr
  <2> QED BY <2>1, <1>5, <1>6 DEF KeepsPosted
<1>10. Processed(reply, reply', m)
  BY <1>2 DEF Processed, TypeRest
<1>11. commands \in Queues
  OBVIOUS
<1> HIDE DEF fr, fr2, s, t
<1> DEFINE f == entry'
           q2 == commands'
           rp2 == reply'
<1>12. /\ Released(commands, q2, m) /\ q2 \in Queues /\ Processed(reply, rp2, m)
       /\ KeepsPosted(entry, f, fr, m) /\ Rests(entry, f, fr, commands, agent, m)
  BY <1>8, <1>9, <1>10
<1> HIDE DEF f, q2, rp2
<1>13. Agents(f, fr2, q2, agent, rp2)
  BY <1>2, <1>3, <1>4, <1>11, <1>12, FinishedAgents
<1> QED BY <1>13 DEF AgentsSound, fr2, f, q2, rp2
\* A cold start whose POST succeeded stops the launcher of the entry it replaces, or
\* makes the swap at once.
LEMMA ColdStartAssembledAgents ==
  ASSUME IInv, AgentsSound, NEW m \in Models, ColdStartAssembled(m)
  PROVE  AgentsSound'
<1> USE TypeParts DEF IInv
<1> DEFINE fr == Frames(cold, tick)
           fr2 == Frames(cold', tick')
           mid == Idled(fr, m)
           c == cold[m]
<1>1. /\ c.phase = "posting" /\ reply[m] = "ok" /\ agent' = agent
      /\ reply' = [reply EXCEPT ![m] = "none"]
  BY DEF ColdStartAssembled
<1>2. m \in Callers BY DEF Callers
<1>3. Agents(entry, fr, commands, agent, reply)
  BY DEF AgentsSound
<1>4. commands \in Queues /\ Released(commands, commands, m)
  <2>1. commands \in OnAnswer(m, {"ok"}) BY <1>1 DEF OnAnswer
  <2>2. CallsSound(entry, fr, commands, reply) BY <1>3 DEF Agents
  <2>3. reply \in Replies BY DEF TypeRest, Replies
  <2>4. {"ok"} \in SUBSET {"ok", "failed"} OBVIOUS
  <2> HIDE DEF fr
  <2> QED BY <1>2, <2>1, <2>2, <2>3, <2>4, AnsweredOrTimedOutEffect
<1>5. CASE c.tracked # NoId /\ ~c.sameId
  <2>1. /\ commands' = Send(commands, c.old, "DELETE", m, m)
        /\ cold' = [cold EXCEPT ![m].phase = "stopping"]
        /\ UNCHANGED <<entry, tick>>
    BY <1>5 DEF ColdStartAssembled
  <2>2. c.old \in Launchers BY <1>5 DEF Sound, ColdSound
  <2>3. OnlyFrame(fr, fr2, m, "stopping", fr2[m].id)
    <3> DEFINE co2 == cold'
    <3>1. co2[m].phase = "stopping" /\ \A k \in Models \ {m} : co2[k] = cold[k]
      BY <2>1 DEF ColdStartState
    <3> HIDE DEF co2
    <3>2. fr2 = Frames(co2, tick) BY <2>1 DEF co2
    <3>3. OnlyFrame(fr, Frames(co2, tick), m, co2[m].phase, co2[m].resv)
      BY <3>1, ColdFrames
    <3>4. Frames(co2, tick)[m].id = co2[m].resv BY FramesAt
    <3> HIDE DEF fr, fr2
    <3> QED BY <3>1, <3>2, <3>3, <3>4
  <2>4. Processed(reply, reply', m)
    BY <1>1, <1>2 DEF Processed, TypeRest
  <2>5. Rests(entry, entry, fr, commands, agent, m)
    <3>1. fr[m].phase = "posting" /\ fr[m].id = c.resv
      BY <1>1, FramesAt
    <3>2. Settled(agent, commands, entry[fr[m].id].launcher, entry[fr[m].id].model)
      BY <1>1, <1>2, <1>3, <3>1 DEF Agents, AnswersSound
    <3>3. \A p \in Pooled(entry) : entry[p].launcher \in Launchers BY PooledType
    <3> HIDE DEF fr
    <3> QED BY <3>2, <3>3 DEF Rests, Posts
  <2>6. KeepsPosted(entry, entry, fr, m)
    BY <1>3 DEF KeepsPosted, Agents, AnswersSound
  <2> HIDE DEF fr, fr2
  <2> DEFINE rp2 == reply'
             q2 == commands'
  <2>7. Processed(reply, rp2, m) BY <2>4
  <2> HIDE DEF rp2
  <2>8. OnlyFrame(fr, mid, m, "idle", mid[m].id) /\ OnlyFrame(mid, fr2, m, "stopping", fr2[m].id)
        /\ mid[m].phase = "idle"
    BY <1>2, <2>3, IdledFrame
  <2> HIDE DEF mid
  <2>9. Agents(entry, mid, commands, agent, rp2)
    BY <1>2, <1>3, <1>4, <2>5, <2>6, <2>7, <2>8, FinishedAgents
  <2> HIDE DEF c, q2
  <2>10. Agents(entry, fr2, Send(commands, c.old, "DELETE", m, m), agent, rp2)
    BY <1>2, <1>4, <2>2, <2>8, <2>9, StoppedAgents
  <2> QED BY <2>1, <2>10, <1>1 DEF AgentsSound, fr2, rp2
<1>6. CASE ~(c.tracked # NoId /\ ~c.sameId)
  <2>1. /\ Replaced(m) /\ cold' = [cold EXCEPT ![m] = NoColdStart] /\ UNCHANGED commands
    BY <1>6 DEF ColdStartAssembled
  <2> QED BY <2>1, <1>1, <1>4, ReplacedAgents
<1> QED BY <1>5, <1>6

\* The old launcher's call is over: the swap is made.
LEMMA ColdStartStoppedAgents ==
  ASSUME IInv, AgentsSound, NEW m \in Models, ColdStartStopped(m)
  PROVE  AgentsSound'
<1> USE TypeParts DEF IInv
<1>1. /\ cold[m].phase = "stopping"
      /\ commands' \in OnAnswer(m, {"ok", "failed"}) \cup OnTimeout(m)
      /\ reply' = [reply EXCEPT ![m] = "none"]
      /\ Replaced(m) /\ cold' = [cold EXCEPT ![m] = NoColdStart] /\ agent' = agent
  BY DEF ColdStartStopped
<1>2. commands' \in Queues /\ Released(commands, commands', m)
  BY <1>1, ProcessedCalls DEF Callers
<1> QED BY <1>1, <1>2, ReplacedAgents

\* POST failed: the reservation goes, the tracked entry is marked.
LEMMA ColdStartFailedAgents ==
  ASSUME IInv, AgentsSound, NEW m \in Models, ColdStartFailed(m)
  PROVE  AgentsSound'
<1> USE TypeParts DEF IInv
<1> DEFINE fr == Frames(cold, tick)
           fr2 == Frames(cold', tick')
           s == cold[m].resv
           t == cold[m].tracked
           kept == RemoveEntry(entry, s, HeldIds)
<1>1. /\ cold[m].phase = "posting"
      /\ commands' \in OnAnswer(m, {"failed"}) \cup OnTimeout(m)
      /\ reply' = [reply EXCEPT ![m] = "none"]
      /\ entry' = MarkEntryFailed(kept, {t})
      /\ cold' = [cold EXCEPT ![m] = NoColdStart]
      /\ UNCHANGED <<tick, agent>>
  BY DEF ColdStartFailed
<1>2. commands' \in Queues /\ Released(commands, commands', m)
  <2>1. commands' \in OnAnswer(m, {"ok", "failed"}) \cup OnTimeout(m)
    BY <1>1 DEF OnAnswer
  <2> QED BY <2>1, ProcessedCalls DEF Callers
<1>3. /\ kept \in Heap /\ Ordered(kept) /\ Pooled(kept) = Pooled(entry) \ {s}
      /\ \A q \in PipelineIds : kept[q] # NoEntry => entry[q] # NoEntry /\ SameEntry(kept[q], entry[q])
  BY RemoveEntryEffect DEF Sound
<1> HIDE DEF kept
<1>4. /\ Pooled(entry') = Pooled(kept)
      /\ \A q \in Pooled(kept) :
           entry'[q].model = kept[q].model /\ entry'[q].launcher = kept[q].launcher
  BY <1>1, <1>3, MarkEntryFailedEffect
<1>5. \A q \in Pooled(entry') : /\ q \in Pooled(entry) /\ q # s
                              /\ entry'[q].model = entry[q].model
                              /\ entry'[q].launcher = entry[q].launcher
  BY <1>3, <1>4 DEF Pooled, SameEntry
<1>6. m \in Callers BY DEF Callers
<1>7. Agents(entry, fr, commands, agent, reply)
  BY DEF AgentsSound
<1>8. OnlyFrame(fr, fr2, m, "idle", fr2[m].id)
  <2> DEFINE co2 == cold'
  <2>1. co2[m].phase = "idle" /\ \A k \in Models \ {m} : co2[k] = cold[k]
    BY <1>1 DEF NoColdStart
  <2> HIDE DEF co2
  <2>2. fr2 = Frames(co2, tick) BY <1>1 DEF co2
  <2>3. OnlyFrame(fr, Frames(co2, tick), m, co2[m].phase, co2[m].resv)
    BY <2>1, ColdFrames
  <2>4. Frames(co2, tick)[m].id = co2[m].resv BY FramesAt
  <2> HIDE DEF fr, fr2
  <2> QED BY <2>1, <2>2, <2>3, <2>4
<1>9. Rests(entry, entry', fr, commands, agent, m)
  <2>1. \A q : Posts(fr, m, q) => q = s BY FramesAt DEF Posts
  <2>2. \A q \in Pooled(entry) : entry[q].launcher \in Launchers BY PooledType
  <2> HIDE DEF fr, s, t
  <2> QED BY <2>1, <2>2, <1>5 DEF Rests
<1>10. KeepsPosted(entry, entry', fr, m)
  <2>1. ASSUME NEW d \in Callers \ {m}, fr[d].phase = "posting"
        PROVE  fr[d].id \in Pooled(entry')
    <3>1. Posts(fr, d, fr[d].id) BY <2>1 DEF Posts
    <3>2. fr[d].id \in Pooled(entry) /\ fr[d].id # s
      BY <3>1, <1>1, PostsForReservation
    <3> QED BY <3>2, <1>3, <1>4
  <2> HIDE DEF fr
  <2> QED BY <2>1, <1>5 DEF KeepsPosted
<1>11. Processed(reply, reply', m)
  BY <1>1, <1>6 DEF Processed, TypeRest
<1>12. commands \in Queues
  OBVIOUS
<1> HIDE DEF fr, fr2, s, t
<1> DEFINE f == entry'
           q2 == commands'
           rp2 == reply'
<1>13. /\ Released(commands, q2, m) /\ q2 \in Queues /\ Processed(reply, rp2, m)
       /\ KeepsPosted(entry, f, fr, m) /\ Rests(entry, f, fr, commands, agent, m)
  BY <1>2, <1>9, <1>10, <1>11
<1> HIDE DEF f, q2, rp2
<1>14. Agents(f, fr2, q2, agent, rp2)
  BY <1>6, <1>7, <1>8, <1>12, <1>13, FinishedAgents
<1> QED BY <1>1, <1>14 DEF AgentsSound, fr2, f, q2, rp2
-----------------------------------------------------------------------------
(***************************************************************************)
(* The pass, from a heap e and calls queues: nothing it awaited is left.   *)
(***************************************************************************)

\* Carrying out the plan sends at most one POST, to a launcher without entries.
LEMMA CarryOutAgents ==
  ASSUME servesModel \in [Launchers -> Models \cup {NoModel}], up \in SUBSET Nodes,
         NEW e, PassSound(e), NEW plan \in SUBSET Claim, NEW queues \in Queues,
         NEW registered, CarryOut(e, plan, queues, registered), cold' = cold, agent' = agent,
         Agents(e, Frames(cold, IdleTick), queues, agent, reply')
  PROVE  AgentsSound'
<1> DEFINE fr == Frames(cold, IdleTick)
           fr2 == Frames(cold, tick')
           rp2 == reply'
<1>1. e \in Heap /\ Ordered(e) BY DEF PassSound
<1>2. AgentsSound' <=> Agents(entry', fr2, commands', agent, rp2)
  BY DEF AgentsSound
<1>3. Agents(e, fr, queues, agent, rp2)
  OBVIOUS
<1>4. CASE entry' = e /\ tick' = IdleTick /\ commands' = queues
  BY <1>2, <1>3, <1>4
<1>5. ASSUME NEW c \in plan, NEW p \in PipelineIds, Reserves(e, plan, queues, c, p)
      PROVE  AgentsSound'
  <2> DEFINE l == c.launcher
             m == c.model
             f == entry'
             ti2 == tick'
  <2>1. /\ l \in Launchers /\ m \in Models /\ p \notin Pooled(e)
        /\ Pooled(f) = Pooled(e) \cup {p} /\ f[p].launcher = l /\ f[p].model = m
        /\ ti2.phase = "posting" /\ ti2.id = p
        /\ commands' = Send(queues, l, "POST", m, Manager)
        /\ \A q \in Pooled(e) : e[q].launcher # l
    BY <1>5 DEF Reserves, Added
  <2>2. \A q \in Pooled(e) : f[q] = e[q]
    BY <1>5 DEF Reserves, Added, Pooled
  <2> HIDE DEF l, m, f, ti2
  <2>3. fr[Manager].phase = "idle"
    BY FramesAt DEF IdleTick
  <2>4. OnlyFrame(fr, Frames(cold, ti2), Manager, ti2.phase, ti2.id)
    BY TickFrames
  <2>5. Manager \in Callers BY DEF Callers
  <2>6. fr2 = Frames(cold, ti2) BY DEF ti2
  <2> HIDE DEF fr, fr2, rp2
  <2>7. OnlyFrame(fr, fr2, Manager, "posting", p)
    BY <2>1, <2>4, <2>6
  <2>8. Agents(f, fr2, Send(queues, l, "POST", m, Manager), agent, rp2)
    BY <1>1, <1>3, <2>1, <2>2, <2>3, <2>5, <2>7, PostedAgents
  <2> QED BY <1>2, <2>1, <2>8 DEF f
<1>6. \/ entry' = e /\ tick' = IdleTick /\ commands' = queues
      \/ \E c \in plan, p \in PipelineIds : Reserves(e, plan, queues, c, p)
  BY <1>1, CarryOutEffect
<1> QED BY <1>4, <1>5, <1>6

\* Letting go of entries that are in no pool leaves the launchers' calls sound.
LEMMA ForgetAgents ==
  ASSUME NEW e \in Heap, Ordered(e), NEW held, NEW fr, NEW qs \in Queues, NEW ag, NEW rp,
         Agents(e, fr, qs, ag, rp)
  PROVE  Agents(Forget(e, held), fr, qs, ag, rp)
<1> DEFINE f == Forget(e, held)
<1>1. Pooled(f) = Pooled(e) /\ \A q \in Pooled(e) : f[q] = e[q]
  BY ForgetEffect
<1> HIDE DEF f
<1>2. Thinned(e, f) BY <1>1 DEF Thinned
<1>3. \A c \in Callers : fr[c].phase = "posting" => fr[c].id \in Pooled(f)
  BY <1>1 DEF Agents, AnswersSound
<1>4. Agents(f, fr, qs, ag, rp)
  BY <1>2, <1>3, ThinnedAgents
<1> QED BY <1>4 DEF f

\* A teardown sends a DELETE, which takes no weights away from anybody else's model.
LEMMA TearDownAgents ==
  ASSUME NEW e \in Heap, Ordered(e), NEW copy, HeldSound(e, copy), NEW c \in copy,
         NEW queues \in Queues, NEW active, NEW idle, NEW todo,
         TearDown(e, c, queues, active, idle, todo, copy), cold' = cold, agent' = agent,
         Agents(e, Frames(cold, IdleTick), queues, agent, reply')
  PROVE  AgentsSound'
<1> DEFINE held == {d.id : d \in {x \in copy : x.rank > c.rank}}
           l == e[c.id].launcher
           m == e[c.id].model
           fr == Frames(cold, IdleTick)
           ti2 == tick'
           fr2 == Frames(cold, ti2)
           rp2 == reply'
           f == Forget(e, held)
<1>1. /\ entry' = f /\ commands' = Send(queues, l, "DELETE", m, Manager)
      /\ ti2.phase = "stopping"
  BY DEF TearDown
<1>2. l \in Launchers /\ m \in Models
  BY DEF HeldSound, Heap, PooledPipeline
<1>3. f \in Heap
  BY ForgetEffect
<1>4. Agents(f, fr, queues, agent, rp2)
  BY ForgetAgents
<1>5. AgentsSound' <=> Agents(entry', fr2, commands', agent, rp2)
  BY DEF AgentsSound
<1>6. fr[Manager].phase = "idle"
  BY FramesAt DEF IdleTick
<1> HIDE DEF ti2
<1>7. OnlyFrame(fr, fr2, Manager, ti2.phase, ti2.id)
  BY TickFrames
<1>8. Manager \in Callers BY DEF Callers
<1> HIDE DEF l, m, fr, fr2, rp2, f
<1>9. Agents(f, fr2, Send(queues, l, "DELETE", m, Manager), agent, rp2)
  BY <1>1, <1>2, <1>3, <1>4, <1>6, <1>7, <1>8, StoppedAgents
<1> QED BY <1>1, <1>5, <1>9

\* So does what the pass does up to its next await.
LEMMA HealthCheckAgents ==
  ASSUME TypeRest, NEW e, PassSound(e), NEW queues \in Queues,
         NEW active, NEW idle, NEW todo, NEW rest, HeldSound(e, rest),
         HealthCheckAndScaleDown(e, queues, active, idle, todo, rest),
         cold' = cold, agent' = agent,
         Agents(e, Frames(cold, IdleTick), queues, agent, reply')
  PROVE  AgentsSound'
<1> DEFINE after(m) == {n \in todo : CatalogIndex[n] > CatalogIndex[m]}
<1>1. e \in Heap /\ Ordered(e) BY DEF PassSound
<1>2. ASSUME NEW c \in rest, TearDown(e, c, queues, active, idle, todo, rest)
      PROVE  AgentsSound'
  BY <1>1, <1>2, TearDownAgents
<1>3. ASSUME NEW m \in todo, NEW c \in CopyOf(e, m),
             TearDown(e, c, queues, active, idle, after(m), CopyOf(e, m))
      PROVE  AgentsSound'
  <2>1. HeldSound(e, CopyOf(e, m))
    BY DEF CopyOf, HeldSound, GetPool, Pooled
  <2> HIDE DEF after
  <2> QED BY <1>1, <1>3, <2>1, TearDownAgents
<1>4. ASSUME Allocate(Forget(e, {}), queues)
      PROVE  AgentsSound'
  <2> DEFINE f == Forget(e, {})
             fr == Frames(cold, IdleTick)
             rp2 == reply'
  <2>1. f \in Heap /\ Ordered(f) /\ Pooled(f) = Pooled(e) /\ \A q \in Pooled(e) : f[q] = e[q]
    BY <1>1, ForgetEffect
  <2>2. PICK plan \in SUBSET NewClaims : CarryOut(f, plan, queues, servesModel)
    BY <1>4 DEF Allocate
  <2>3. Agents(f, fr, queues, agent, rp2)
    BY <1>1, ForgetAgents
  <2> HIDE DEF f, fr, rp2
  <2>4. PassSound(f)
    BY <2>1, SameLook DEF PassSound
  <2>5. plan \in SUBSET Claim
    <3>1. \A m \in Models, l \in Launchers :
            [model |-> m, launcher |-> l, curId |-> TRUE] \in Claim
      BY DEF Claim
    <3>2. listed \subseteq Launchers BY DEF TypeRest
    <3>3. ASSUME NEW c \in plan PROVE c \in Claim
      <4>1. PICK m \in Models, l \in listed : c = [model |-> m, launcher |-> l, curId |-> TRUE]
        BY <3>3 DEF NewClaims
      <4> QED BY <3>1, <3>2, <4>1
    <3> QED BY <3>3
  <2> QED BY <2>2, <2>3, <2>4, <2>5, CarryOutAgents DEF TypeRest, fr, rp2
<1>5. \A copy : FirstDoomed(e, copy, active, idle) \subseteq copy
  BY DEF FirstDoomed
<1> QED BY <1>2, <1>3, <1>4, <1>5 DEF HealthCheckAndScaleDown
\* The pass goes on, with nothing awaited.
LEMMA PassResumes ==
  ASSUME IInv, AgentsSound, NEW f, NEW queues \in Queues, Released(commands, queues, Manager),
         NEW rp2, Processed(reply, rp2, Manager),
         KeepsPosted(entry, f, Frames(cold, tick), Manager),
         Rests(entry, f, Frames(cold, tick), commands, agent, Manager)
  PROVE  Agents(f, Frames(cold, IdleTick), queues, agent, rp2)
<1> DEFINE fr == Frames(cold, tick)
           fr2 == Frames(cold, IdleTick)
<1>1. OnlyFrame(fr, fr2, Manager, IdleTick.phase, IdleTick.id) /\ IdleTick.phase = "idle"
  BY TickFrames DEF IdleTick
<1>2. OnlyFrame(fr, fr2, Manager, "idle", fr2[Manager].id)
  BY <1>1 DEF OnlyFrame
<1>3. Manager \in Callers BY DEF Callers
<1>4. commands \in Queues BY TypeParts DEF IInv
<1>5. Agents(entry, fr, commands, agent, reply)
  BY DEF AgentsSound
<1> HIDE DEF fr, fr2
<1>6. Agents(f, fr2, queues, agent, rp2)
  BY <1>2, <1>3, <1>4, <1>5, FinishedAgents DEF fr
<1> QED BY <1>6 DEF fr2

\* The entry the pass tore down, or the reservation of its assembly, is taken out.
LEMMA RemovedAgents ==
  ASSUME IInv, tick.phase \in {"stopping", "posting"}, NEW held
  PROVE  LET kept == RemoveEntry(entry, tick.id, held)
             fr == Frames(cold, tick)
         IN /\ KeepsPosted(entry, kept, fr, Manager)
            /\ Rests(entry, kept, fr, commands, agent, Manager)
<1> USE TypeParts DEF IInv
<1> DEFINE kept == RemoveEntry(entry, tick.id, held)
           fr == Frames(cold, tick)
<1>1. /\ kept \in Heap /\ Pooled(kept) = Pooled(entry) \ {tick.id}
      /\ \A q \in PipelineIds : kept[q] # NoEntry => entry[q] # NoEntry /\ SameEntry(kept[q], entry[q])
  BY RemoveEntryEffect DEF Sound
<1> HIDE DEF kept
<1>2. \A q \in Pooled(kept) : /\ q \in Pooled(entry) /\ q # tick.id
                             /\ kept[q].model = entry[q].model
                             /\ kept[q].launcher = entry[q].launcher
                             /\ entry[q].launcher \in Launchers
  BY <1>1, PooledType DEF Pooled, SameEntry
<1>3. \A q : Posts(fr, Manager, q) => q = tick.id
  BY FramesAt DEF Posts
<1>4. ASSUME NEW d \in Callers \ {Manager}, fr[d].phase = "posting"
      PROVE  fr[d].id \in Pooled(kept)
  <2>1. Posts(fr, d, fr[d].id) BY <1>4 DEF Posts
  <2>2. /\ fr[d].id \in Pooled(entry) /\ entry[fr[d].id].state = "assembling"
        /\ ~Posts(fr, Manager, fr[d].id)
    BY <2>1, PostsForReservation DEF Callers
  <2>3. fr[d].id # tick.id
    <3>1. CASE tick.phase = "posting"
      <4>1. Posts(fr, Manager, tick.id) BY <3>1, FramesAt DEF Posts
      <4> QED BY <4>1, <2>2
    <3>2. CASE tick.phase = "stopping"
      BY <3>2, <2>2 DEF Sound, TickSound, Pooled
    <3> QED BY <3>1, <3>2
  <2> QED BY <2>2, <2>3, <1>1
<1> HIDE DEF fr
<1>5. KeepsPosted(entry, kept, fr, Manager)
  BY <1>2, <1>4 DEF KeepsPosted
<1>6. Rests(entry, kept, fr, commands, agent, Manager)
  BY <1>2, <1>3 DEF Rests
<1> QED BY <1>5, <1>6 DEF kept, fr

\* Every step of the pass keeps the calls, the frames and the agents in line.
LEMMA RunOnceAgents ==
  ASSUME IInv, AgentsSound, RunOnce
  PROVE  AgentsSound'
<1> USE TypeParts DEF IInv
<1> DEFINE fr == Frames(cold, tick)
           rp2 == reply'
<1>1. UNCHANGED <<cold, agent>>
  BY DEF RunOnce, TickBegins, TearDownEnds, TryAssembleEnds, TryAssembleFails
<1>2. Manager \in Callers BY DEF Callers
<1>3. Agents(entry, fr, commands, agent, reply)
  BY DEF AgentsSound
<1>4. ASSUME TickBegins PROVE AgentsSound'
  <2>1. PICK idle \in SUBSET MaybeIdle :
          HealthCheckAndScaleDown(entry, commands, ListActive(servesModel), idle, Models, {})
    BY <1>4 DEF TickBegins
  <2>2. tick.phase = "idle" /\ reply' = reply BY <1>4 DEF TickBegins
  <2>3. fr[Manager].phase = "idle" BY <2>2, FramesAt
  <2>4. reply[Manager] = "none"
    BY <2>3, <1>2, <1>3 DEF Agents, AnswersSound
  <2>5. \A k \in Launchers : \A i \in 1 .. Len(commands[k]) : commands[k][i].by # Manager
    BY <2>3, <1>2, <1>3, SentinelAssumption DEF Agents, CallsSound, CallSound
  <2>6. Released(commands, commands, Manager)
    BY <2>5 DEF Released
  <2>7. Processed(reply, rp2, Manager)
    BY <2>2, <2>4 DEF Processed
  <2>8. KeepsPosted(entry, entry, fr, Manager)
    BY <1>3 DEF KeepsPosted, Agents, AnswersSound
  <2>9. Rests(entry, entry, fr, commands, agent, Manager)
    BY <2>3, PooledType DEF Rests, Posts
  <2>10. Agents(entry, Frames(cold, IdleTick), commands, agent, rp2)
    BY <2>6, <2>7, <2>8, <2>9, PassResumes
  <2>11. PassSound(entry)
    BY <2>2 DEF PassSound, Sound, Posting
  <2>12. HeldSound(entry, {}) BY DEF HeldSound
  <2> QED BY <2>1, <2>10, <2>11, <2>12, <1>1, HealthCheckAgents
<1>5. ASSUME reply' = [reply EXCEPT ![Manager] = "none"]
      PROVE  Processed(reply, rp2, Manager)
  BY <1>2, <1>5 DEF Processed, TypeRest
<1>6. ASSUME TearDownEnds PROVE AgentsSound'
  <2> DEFINE e == RemoveEntry(entry, tick.id, HeldIds)
  <2>1. PICK queues \in OnAnswer(Manager, {"ok", "failed"}) \cup OnTimeout(Manager) :
          HealthCheckAndScaleDown(e, queues, tick.active, tick.idle, tick.todo, tick.rest)
    BY <1>6 DEF TearDownEnds
  <2>2. tick.phase = "stopping" /\ Processed(reply, rp2, Manager)
    BY <1>5, <1>6 DEF TearDownEnds
  <2>3. queues \in Queues /\ Released(commands, queues, Manager)
    BY <1>2, ProcessedCalls
  <2>4. KeepsPosted(entry, e, fr, Manager) /\ Rests(entry, e, fr, commands, agent, Manager)
    BY <2>2, RemovedAgents
  <2>5. \A m \in Models : cold[m].phase # "idle" => cold[m].resv # tick.id
    BY <2>2 DEF Sound, ColdSound, TickSound, Pooled
  <2>6. PassSound(e)
    <3>1. Posting = {} BY <2>2 DEF Posting
    <3> QED BY <3>1, <2>5, RemoveKeepsSound DEF PassSound, Sound
  <2>7. HeldSound(e, tick.rest)
    <3>1. /\ \A q \in PipelineIds : e[q] # NoEntry => entry[q] # NoEntry /\ SameEntry(e[q], entry[q])
          /\ \A q \in PipelineIds : entry[q] # NoEntry /\ q \in HeldIds => e[q] # NoEntry
      BY RemoveEntryEffect DEF Sound
    <3> QED BY <3>1 DEF Sound, TickSound, HeldSound, HeldIds, SameEntry
  <2> HIDE DEF e
  <2>8. Agents(e, Frames(cold, IdleTick), queues, agent, rp2)
    BY <2>2, <2>3, <2>4, PassResumes
  <2> QED BY <2>1, <2>3, <2>6, <2>7, <2>8, <1>1, HealthCheckAgents
<1>8. ASSUME TryAssembleFails PROVE AgentsSound'
  <2> DEFINE e == RemoveEntry(entry, tick.id, {})
             left == {c \in tick.plan : c.model # entry[tick.id].model}
  <2>1. PICK queues \in OnAnswer(Manager, {"failed"}) \cup OnTimeout(Manager) :
          CarryOut(e, left, queues, servesModel)
    BY <1>8 DEF TryAssembleFails
  <2>2. tick.phase = "posting" /\ Processed(reply, rp2, Manager)
    BY <1>5, <1>8 DEF TryAssembleFails
  <2>3. queues \in Queues /\ Released(commands, queues, Manager)
    <3>1. queues \in OnAnswer(Manager, {"ok", "failed"}) \cup OnTimeout(Manager)
      BY DEF OnAnswer
    <3> QED BY <3>1, <1>2, ProcessedCalls
  <2>4. KeepsPosted(entry, e, fr, Manager) /\ Rests(entry, e, fr, commands, agent, Manager)
    BY <2>2, RemovedAgents
  <2>5. PassSound(e) BY <2>2, PostingEffect
  <2>6. left \in SUBSET Claim BY DEF Tick
  <2> HIDE DEF e, left
  <2>7. Agents(e, Frames(cold, IdleTick), queues, agent, rp2)
    BY <2>2, <2>3, <2>4, PassResumes
  <2> QED BY <2>1, <2>3, <2>5, <2>6, <2>7, <1>1, CarryOutAgents DEF TypeRest
<1>9. ASSUME TryAssembleEnds PROVE AgentsSound'
  <2> DEFINE kept == RemoveEntry(entry, tick.id, {})
             m == entry[tick.id].model
             l == entry[tick.id].launcher
  <2>2. PICK e, p :
          /\ p \in PipelineIds /\ PassSound(e)
          /\ CarryOut(e, tick.plan, commands, servesModel')
          /\ Added(kept, e, p, m, l, "warm")
    BY <1>9, TryAssembleEndsEffect
  <2>3. /\ tick.phase = "posting" /\ reply[Manager] = "ok" /\ Processed(reply, rp2, Manager)
        /\ servesModel' = [servesModel EXCEPT ![l] = m]
    BY <1>5, <1>9 DEF TryAssembleEnds
  <2>4. commands \in Queues /\ Released(commands, commands, Manager)
    <3>1. commands \in OnAnswer(Manager, {"ok", "failed"}) BY <2>3 DEF OnAnswer
    <3> QED BY <3>1, <1>2, ProcessedCalls
  <2>5. KeepsPosted(entry, kept, fr, Manager) /\ Rests(entry, kept, fr, commands, agent, Manager)
    BY <2>3, RemovedAgents
  <2>6. m \in Models /\ l \in Launchers
    BY <2>3, PostingEffect, PooledType
  <2>7. Settled(agent, commands, l, m)
    <3>1. fr[Manager].phase = "posting" /\ fr[Manager].id = tick.id
      BY <2>3, FramesAt
    <3> QED BY <3>1, <2>3, <1>2, <1>3 DEF Agents, AnswersSound
  <2> HIDE DEF kept, m, l, fr, rp2
  <2>8. Pooled(e) = Pooled(kept) \cup {p} /\ \A q \in Pooled(kept) : e[q] = kept[q]
    BY <2>2 DEF Added, Pooled
  <2>9. KeepsPosted(entry, e, fr, Manager)
    BY <2>5, <2>8 DEF KeepsPosted
  <2>10. Rests(entry, e, fr, commands, agent, Manager)
    BY <2>2, <2>5, <2>6, <2>7, <2>8 DEF Rests, Added
  <2>11. Agents(e, Frames(cold, IdleTick), commands, agent, rp2)
    BY <2>3, <2>4, <2>9, <2>10, PassResumes DEF fr
  <2>12. servesModel \in [Launchers -> Models \cup {NoModel}] /\ up \in SUBSET Nodes
    BY DEF TypeRest
  <2>13. tick.plan \in SUBSET Claim BY DEF Tick
  <2> QED BY <2>2, <2>4, <2>11, <2>12, <2>13, <1>1, CarryOutAgents DEF rp2
<1> QED BY <1>4, <1>6, <1>8, <1>9 DEF RunOnce
-----------------------------------------------------------------------------
(***************************************************************************)
(* Launchers, registries and requests.                                     *)
(***************************************************************************)

\* A step that moves neither entries, frames, calls nor agents keeps them in line.
LEMMA QuietAgents ==
  ASSUME AgentsSound, UNCHANGED <<entry, cold, commands, agent, reply>>,
         tick'.phase = tick.phase, tick'.id = tick.id
  PROVE  AgentsSound'
<1> DEFINE ti2 == tick'
<1>1. ti2.phase = tick.phase /\ ti2.id = tick.id OBVIOUS
<1> HIDE DEF ti2
<1>2. Frames(cold, ti2) = Frames(cold, tick)
  BY <1>1 DEF Frames
<1> QED BY <1>2 DEF AgentsSound, ti2

\* A launcher's own steps: it runs the call at its head, or its agent dies.
LEMMA LauncherAgents ==
  ASSUME IInv, AgentsSound, NEW l \in Launchers, HandleCall(l) \/ CallLost(l) \/ AgentDies(l)
  PROVE  AgentsSound'
<1> USE TypeParts DEF IInv
<1> DEFINE fr == Frames(cold, tick)
           x == Head(commands[l])
<1>1. /\ fr \in [Callers -> Frame] /\ commands \in Queues /\ reply \in Replies
      /\ agent \in [Launchers -> Models \cup {NoModel}]
  BY FramesType DEF TypeRest, Replies
<1>2. Agents(entry, fr, commands, agent, reply)
  BY DEF AgentsSound
<1>3. ASSUME NEW result \in {"ok", "failed"}, Answered(l, result), NEW y,
             agent' = [agent EXCEPT ![l] = y],
             \/ y = NoModel
             \/ y = agent[l] /\ result = "failed"
             \/ y = x.model /\ x.op = "POST"
      PROVE  AgentsSound'
  <2> DEFINE ag2 == agent'
             q2 == commands'
             rp2 == reply'
  <2>1. /\ commands[l] # <<>> /\ q2 = [commands EXCEPT ![l] = Tail(@)]
        /\ rp2 = IF x.by = NoProc THEN reply ELSE [reply EXCEPT ![x.by] = result]
        /\ ag2 = [agent EXCEPT ![l] = y]
    BY <1>3 DEF Answered
  <2>2. entry' = entry /\ cold' = cold /\ tick' = tick
    BY <1>3 DEF Answered
  <2> HIDE DEF ag2, q2, rp2, fr
  <2>3. Agents(entry, fr, q2, ag2, rp2)
    BY <1>1, <1>2, <1>3, <2>1, AnsweredAgents
  <2> QED BY <2>2, <2>3 DEF AgentsSound, ag2, q2, rp2, fr
<1>4. ASSUME PostSpawns(l) PROVE AgentsSound'
  BY <1>3, <1>4 DEF PostSpawns
<1>5. ASSUME PostFailsToSpawn(l) PROVE AgentsSound'
  BY <1>3, <1>5 DEF PostFailsToSpawn
<1>6. ASSUME PostRefused(l) \/ CallLost(l) PROVE AgentsSound'
  <2>1. Answered(l, "failed") /\ agent' = agent
    BY <1>6 DEF PostRefused, CallLost
  <2>2. agent' = [agent EXCEPT ![l] = agent[l]]
    BY <2>1, <1>1
  <2> QED BY <1>3, <2>1, <2>2
<1>7. ASSUME DeleteStops(l) PROVE AgentsSound'
  BY <1>3, <1>7 DEF DeleteStops
<1>8. ASSUME AgentDies(l) PROVE AgentsSound'
  <2> DEFINE ag2 == agent'
  <2>1. ag2 = [agent EXCEPT ![l] = NoModel] /\ UNCHANGED <<entry, cold, tick, commands, reply>>
    BY <1>8 DEF AgentDies
  <2>2. \A k \in Launchers : ag2[k] \in {agent[k], NoModel}
    BY <2>1, <1>1
  <2>3. \A k \in Launchers : \A m : Settled(agent, commands, k, m) => Settled(ag2, commands, k, m)
    BY <2>2 DEF Settled
  <2> HIDE DEF ag2, fr
  <2>4. \A q \in Pooled(entry) : entry[q].launcher \in Launchers
    BY PooledType
  <2>5. Agents(entry, fr, commands, ag2, reply)
    BY <1>2, <2>3, <2>4 DEF Agents, AnswersSound, LandedSound
  <2> QED BY <2>1, <2>5 DEF AgentsSound, ag2, fr
<1> QED BY <1>4, <1>5, <1>6, <1>7, <1>8 DEF HandleCall

\* An entry whose launcherId has gone stale, or that is marked failed, still stands
\* where it stood.
LEMMA RelabelledAgents ==
  ASSUME IInv, AgentsSound, Pooled(entry') = Pooled(entry),
         \A p \in Pooled(entry) : /\ entry'[p].launcher = entry[p].launcher
                                 /\ entry'[p].model = entry[p].model,
         UNCHANGED <<cold, commands, agent, reply>>,
         tick'.phase = tick.phase, tick'.id = tick.id
  PROVE  AgentsSound'
<1> DEFINE ti2 == tick'
           fr == Frames(cold, tick)
           f == entry'
<1>1. ti2.phase = tick.phase /\ ti2.id = tick.id OBVIOUS
<1> HIDE DEF ti2
<1>2. Frames(cold, ti2) = fr
  BY <1>1 DEF Frames
<1>3. Thinned(entry, f) BY DEF Thinned
<1>4. Agents(entry, fr, commands, agent, reply)
  BY DEF AgentsSound
<1>5. \A c \in Callers : fr[c].phase = "posting" => fr[c].id \in Pooled(f)
  BY <1>4 DEF Agents, AnswersSound
<1>6. commands \in Queues BY TypeParts DEF IInv
<1> HIDE DEF fr, f
<1>7. Agents(f, fr, commands, agent, reply)
  BY <1>3, <1>4, <1>5, <1>6, ThinnedAgents
<1> QED BY <1>2, <1>7 DEF AgentsSound, f, ti2

\* A launcher that registers anew changes no launcher of an entry.
LEMMA LauncherRegistersAgents ==
  ASSUME IInv, AgentsSound, NEW l \in Launchers, LauncherRegisters(l)
  PROVE  AgentsSound'
<1> USE TypeParts DEF IInv
<1> DEFINE x(p) == [entry[p] EXCEPT !.curId = FALSE]
<1>1. \A p \in PipelineIds :
        entry'[p] = IF entry[p] # NoEntry /\ entry[p].launcher = l THEN x(p) ELSE entry[p]
  BY DEF LauncherRegisters
<1>2. \A p \in PipelineIds : entry[p] # NoEntry =>
        /\ x(p) # NoEntry /\ x(p).model = entry[p].model
        /\ x(p).launcher = entry[p].launcher /\ x(p).pos = entry[p].pos
  BY EntryAssumption DEF Heap, PooledPipeline
<1> HIDE DEF x
<1>3. /\ Pooled(entry') = Pooled(entry)
      /\ \A p \in Pooled(entry) : /\ entry'[p].launcher = entry[p].launcher
                                 /\ entry'[p].model = entry[p].model
  BY <1>1, <1>2 DEF Pooled
<1>4. UNCHANGED <<cold, commands, agent, reply>>
  BY DEF LauncherRegisters
<1>5. tick'.phase = tick.phase /\ tick'.id = tick.id
  BY DEF LauncherRegisters, Tick
<1> QED BY <1>3, <1>4, <1>5, RelabelledAgents

\* Routing a request: at most a cold start begins, or entries are marked failed.
LEMMA RoutingAgents ==
  ASSUME IInv, AgentsSound, NEW r \in Requests, Routing(r)
  PROVE  AgentsSound'
<1> USE TypeParts DEF IInv
<1>1. ASSUME NEW m \in Models, GenerateFromPool(r, m) PROVE AgentsSound'
  <2>1. tick'.phase = tick.phase /\ tick'.id = tick.id
    BY <1>1 DEF GenerateFromPool, Tick
  <2> QED BY <1>1, <2>1, QuietAgents DEF GenerateFromPool
<1>2. ASSUME NEW m \in Models, GenerateFromCold(r, m) PROVE AgentsSound'
  <2>1. UNCHANGED <<tick, agent, reply>>
    BY <1>2 DEF GenerateFromCold
  <2>2. \/ UNCHANGED <<entry, cold, commands>>
        \/ cold[m] = NoColdStart /\ ColdStartBegins(m)
    BY <1>2 DEF GenerateFromCold
  <2> QED BY <2>1, <2>2, QuietAgents, ColdStartBeginsAgents
<1>3. ASSUME NEW m \in Models, ChatFromRegistry(r, m) PROVE AgentsSound'
  BY <1>3, QuietAgents DEF ChatFromRegistry
<1>4. ASSUME Completed(r) PROVE AgentsSound'
  BY <1>4, QuietAgents DEF Completed
<1>5. ASSUME ForwardFailed(r) PROVE AgentsSound'
  <2> DEFINE named == {p \in GetPool(entry, req[r].model) :
                         entry[p].state # "assembling" /\ entry[p].launcher = req[r].node}
  <2>1. UNCHANGED <<cold, tick, agent, commands, reply>>
    BY <1>5 DEF ForwardFailed
  <2>2. entry' = entry \/ entry' = MarkEntryFailed(entry, named)
    BY <1>5 DEF ForwardFailed
  <2> HIDE DEF named
  <2>3. /\ Pooled(entry') = Pooled(entry)
        /\ \A p \in Pooled(entry) : /\ entry'[p].launcher = entry[p].launcher
                                   /\ entry'[p].model = entry[p].model
    BY <2>2, MarkEntryFailedEffect DEF Sound
  <2> QED BY <2>1, <2>3, RelabelledAgents
<1> QED BY <1>1, <1>2, <1>3, <1>4, <1>5 DEF Routing
\* A request that is not routed through the pool in this step leaves its routes sound.
LEMMA OtherRoutes ==
  ASSUME PoolRouteServesModel,
         \A r \in Requests : req'[r] = req[r] \/ req'[r].route # "pool"
  PROVE  PoolRouteServesModel'
  BY DEF PoolRouteServesModel

\* Requests that awaited a cold start are answered or go to the registry.
LEMMA ResumedRoutes ==
  ASSUME PoolRouteServesModel, NEW m \in Models, NEW registered, Resume(m, registered)
  PROVE  PoolRouteServesModel'
<1>1. \A l : Forwarded(m, l, "registry").route = "registry"
  BY DEF Forwarded
<1>2. \A x \in FromRegistry(m, registered) : x.route # "pool"
  BY <1>1 DEF FromRegistry, NoRequest
<1>3. \A r \in Requests : req'[r] = req[r] \/ req'[r].route # "pool"
  BY <1>2 DEF Resume
<1> QED BY <1>3, OtherRoutes

\* A request routed through the pool meets its model's agent or none: the warm entry
\* it goes to is settled.
LEMMA RoutingRoutes ==
  ASSUME IInv, AgentsSound, PoolRouteServesModel, NEW r \in Requests, Routing(r)
  PROVE  PoolRouteServesModel'
<1> USE TypeParts DEF IInv
<1>1. NoRequest.route # "pool" BY DEF NoRequest
<1>2. \A m, l, route : LET x == Forwarded(m, l, route)
                       IN x.route = route /\ x.model = m /\ x.got = agent[l]
  BY DEF Forwarded
<1> DEFINE routed(x) == req' = [req EXCEPT ![r] = x]
<1>3. ASSUME NEW x, routed(x), x.route = "pool" => x.got \in {x.model, NoModel}
      PROVE  PoolRouteServesModel'
  BY <1>3 DEF PoolRouteServesModel, TypeRest
<1>4. ASSUME NEW m \in Models, GenerateFromPool(r, m) PROVE PoolRouteServesModel'
  <2>1. PICK p \in Usable(m) : routed(Forwarded(m, entry[p].launcher, "pool"))
    BY <1>4 DEF GenerateFromPool
  <2>2. p \in Pooled(entry) /\ entry[p].model = m /\ entry[p].state = "warm"
    BY DEF Usable, GetPool
  <2>3. Settled(agent, commands, entry[p].launcher, m)
    BY <2>2, SettledUnlessAssembling
  <2> DEFINE x == Forwarded(m, entry[p].launcher, "pool")
  <2>4. x.model = m /\ x.got \in {m, NoModel}
    BY <1>2, <2>3 DEF Settled
  <2> HIDE DEF x, routed
  <2> QED BY <1>3, <2>1, <2>4 DEF x
<1>5. ASSUME NEW m \in Models, GenerateFromCold(r, m) PROVE PoolRouteServesModel'
  <2> DEFINE waits == [NoRequest EXCEPT !.phase = "waiting", !.model = m]
  <2>1. waits.route # "pool" BY DEF NoRequest
  <2>2. \A x \in FromRegistry(m, servesModel) : x.route # "pool"
    BY <1>1, <1>2 DEF FromRegistry
  <2>3. routed(waits) \/ \E to \in FromRegistry(m, servesModel) : routed(to)
    BY <1>5 DEF GenerateFromCold
  <2> HIDE DEF waits, routed
  <2> QED BY <1>3, <2>1, <2>2, <2>3
<1>6. ASSUME NEW m \in Models, ChatFromRegistry(r, m) PROVE PoolRouteServesModel'
  <2>1. \E l \in Launchers : routed(Forwarded(m, l, "chat"))
    BY <1>6 DEF ChatFromRegistry, SelectNode
  <2> HIDE DEF routed
  <2> QED BY <1>2, <1>3, <2>1
<1>7. ASSUME Completed(r) \/ ForwardFailed(r) PROVE PoolRouteServesModel'
  <2>1. routed(NoRequest) BY <1>7 DEF Completed, ForwardFailed
  <2> HIDE DEF routed
  <2> QED BY <1>1, <1>3, <2>1
<1> QED BY <1>4, <1>5, <1>6, <1>7 DEF Routing

-----------------------------------------------------------------------------
(***************************************************************************)
(* The stronger invariant, and what follows from it.                       *)
(***************************************************************************)

\* Nothing waits and nothing runs at first.
LEMMA InitAgents == Init => AInv
<1> SUFFICES ASSUME Init PROVE AInv
  OBVIOUS
<1> DEFINE fr == Frames(cold, tick)
<1>1. IInv BY InitSound
<1>2. \A k \in Launchers : commands[k] = <<>> /\ Len(commands[k]) = 0
  BY DEF Init
<1>3. \A c \in Callers : fr[c].phase = "idle" /\ reply[c] = "none"
  <2>1. \A m \in Models : cold[m].phase = "idle" BY DEF Init, NoColdStart
  <2>2. tick.phase = "idle" BY DEF Init, IdleTick
  <2>3. \A c \in Callers : fr[c].phase = "idle"
    BY <2>1, <2>2, FramesAt DEF Callers
  <2> QED BY <2>3 DEF Init
<1>4. Pooled(entry) = {} BY DEF Init, Pooled
<1> HIDE DEF fr
<1>5. AwaitedOnce(commands) /\ CallsSound(entry, fr, commands, reply)
  BY <1>2 DEF AwaitedOnce, CallsSound
<1>6. AnswersSound(entry, fr, commands, agent, reply) /\ LandedSound(entry, fr, commands, agent)
  BY <1>3, <1>4 DEF AnswersSound, LandedSound
<1>7. AgentsSound BY <1>5, <1>6 DEF AgentsSound, Agents, fr
<1>8. PoolRouteServesModel BY DEF Init, PoolRouteServesModel, NoRequest
<1> QED BY <1>1, <1>7, <1>8 DEF AInv

\* Every step keeps it.
LEMMA StepAgents == AInv /\ [Next]_vars => AInv'
<1> SUFFICES ASSUME AInv, [Next]_vars PROVE AInv'
  OBVIOUS
<1> USE DEF AInv
<1>1. IInv' BY StepSound
<1>2. ASSUME NEW m \in Models, ColdStartSteps(m) PROVE AgentsSound' /\ PoolRouteServesModel'
  <2>1. AgentsSound'
    BY <1>2, ColdStartAssembledAgents, ColdStartStoppedAgents, ColdStartFailedAgents
    DEF ColdStartSteps
  <2>2. \/ req' = req
        \/ \E registered \in {servesModel, servesModel'} : Resume(m, registered)
    BY <1>2 DEF ColdStartSteps, ColdStartAssembled, ColdStartStopped, ColdStartFailed
  <2>3. PoolRouteServesModel'
    BY <2>2, ResumedRoutes, OtherRoutes
  <2> QED BY <2>1, <2>3
<1>3. ASSUME RunOnce PROVE AgentsSound' /\ PoolRouteServesModel'
  <2>1. req' = req
    BY <1>3 DEF RunOnce, TickBegins, TearDownEnds, TryAssembleEnds, TryAssembleFails
  <2> QED BY <1>3, <2>1, RunOnceAgents, OtherRoutes
<1>4. ASSUME NEW r \in Requests, Routing(r) PROVE AgentsSound' /\ PoolRouteServesModel'
  BY <1>4, RoutingAgents, RoutingRoutes
<1>5. ASSUME NEW l \in Launchers, HandleCall(l) \/ CallLost(l) \/ AgentDies(l)
      PROVE  AgentsSound' /\ PoolRouteServesModel'
  <2>1. req' = req
    BY <1>5 DEF HandleCall, PostSpawns, PostFailsToSpawn, PostRefused, DeleteStops, CallLost,
                Answered, AgentDies
  <2> QED BY <1>5, <2>1, LauncherAgents, OtherRoutes
<1>6. ASSUME NEW l \in Launchers, LauncherRegisters(l)
      PROVE  AgentsSound' /\ PoolRouteServesModel'
  <2>1. req' = req BY <1>6 DEF LauncherRegisters
  <2> QED BY <1>6, <2>1, LauncherRegistersAgents, OtherRoutes
<1>7. ASSUME UNCHANGED <<entry, cold, tick, req, agent, commands, reply>>
      PROVE  AgentsSound' /\ PoolRouteServesModel'
  BY <1>7, QuietAgents, OtherRoutes
<1>8. CASE \/ \E l \in Launchers : \/ DriverExpires(l) \/ DriverEjected(l) \/ DriverRestored(l)
                                  \/ LauncherLapses(l)
           \/ \E n \in Nodes : NodeLeaves(n) \/ NodeJoins(n)
  <2>1. UNCHANGED <<entry, cold, tick, req, agent, commands, reply>>
    BY <1>8 DEF DriverExpires, DriverEjected, DriverRestored, LauncherLapses, NodeLeaves, NodeJoins
  <2> QED BY <1>1, <1>7, <2>1
<1>9. CASE UNCHANGED vars
  BY <1>1, <1>7, <1>9 DEF vars
<1> QED BY <1>1, <1>2, <1>3, <1>4, <1>5, <1>6, <1>8, <1>9 DEF Next, Environment

\* It holds in every reachable state.
LEMMA AlwaysAgents == Spec => []AInv
<1> QED BY InitAgents, StepAgents, PTL DEF Spec

(***************************************************************************)
(* No launcher ever has two POSTs on their way that somebody still awaits: *)
(* each is sent for a reservation on that launcher, and two reservations   *)
(* never share one.                                                        *)
(***************************************************************************)
THEOREM AssembliesDoNotRace == Spec => []AssembliesNeverRace
<1>1. AInv => AssembliesNeverRace
  <2> SUFFICES ASSUME AInv, NEW l \in Launchers,
                      NEW i \in DOMAIN commands[l], NEW j \in DOMAIN commands[l],
                      commands[l][i].op = "POST", commands[l][i].by # NoProc,
                      commands[l][j].op = "POST", commands[l][j].by # NoProc
               PROVE  i = j
    BY DEF AssembliesNeverRace
  <2> USE TypeParts DEF AInv, IInv
  <2> DEFINE fr == Frames(cold, tick)
             c == commands[l][i].by
             d == commands[l][j].by
  <2>1. i \in 1 .. Len(commands[l]) /\ j \in 1 .. Len(commands[l]) /\ c \in Callers /\ d \in Callers
    BY QueueType
  <2>2. \A b \in Callers : fr[b].phase \in {"idle", "posting", "stopping"}
    BY FramesType DEF Frame
  <2>3. /\ fr[c].phase = "posting" /\ l = entry[fr[c].id].launcher /\ fr[c].id \in Pooled(entry)
        /\ fr[d].phase = "posting" /\ l = entry[fr[d].id].launcher /\ fr[d].id \in Pooled(entry)
    BY <2>1, <2>2 DEF AgentsSound, Agents, CallsSound, CallSound, AnswersSound
  <2>4. /\ entry[fr[c].id].state = "assembling" /\ entry[fr[d].id].state = "assembling"
        /\ fr[c].id = fr[d].id => c = d
    BY <2>1, <2>3, PostsForReservation DEF Posts
  <2>5. fr[c].id = fr[d].id
    <3> DEFINE p == fr[c].id
               q == fr[d].id
    <3>1. /\ p \in Pooled(entry) /\ q \in Pooled(entry)
          /\ entry[p].launcher = entry[q].launcher
          /\ entry[p].state = "assembling" /\ entry[q].state = "assembling"
      BY <2>3, <2>4
    <3> HIDE DEF p, q
    <3>2. SUFFICES ASSUME p # q PROVE FALSE BY DEF p, q
    <3>3. PICK k \in Models : {p, q} = {cold[k].resv, cold[k].tracked}
      BY <3>1, <3>2 DEF Sound, Exclusive
    <3>4. cold[k].tracked \in {p, q} BY <3>3
    <3> QED BY <3>1, <3>4 DEF Sound, ColdSound
  <2> QED BY <2>1, <2>4, <2>5 DEF AgentsSound, Agents, AwaitedOnce
<1> QED BY <1>1, AlwaysAgents, PTL

(***************************************************************************)
(* A warm entry's launcher runs that entry's model, or nothing: no late,   *)
(* abandoned or reordered call has put other weights there, and none that  *)
(* waits will.                                                             *)
(***************************************************************************)
THEOREM WarmLaunchersServeTheirModel == Spec => []WarmServesOwnModel
<1>1. AInv => WarmServesOwnModel
  BY SettledUnlessAssembling DEF AInv, WarmServesOwnModel, Settled
<1> QED BY <1>1, AlwaysAgents, PTL

(***************************************************************************)
(* A request routed through the pool is connected to its own model's agent *)
(* or to nobody.                                                           *)
(***************************************************************************)
THEOREM PoolRoutesServeTheirModel == Spec => []PoolRouteServesModel
<1>1. AInv => PoolRouteServesModel
  BY DEF AInv
<1> QED BY <1>1, AlwaysAgents, PTL

=============================================================================
