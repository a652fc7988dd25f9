------------------------------- MODULE Dashboard -------------------------------
(***************************************************************************)
(* The dashboard: one page in a browser tab, and the coordinator as the    *)
(* page meets it.  The page polls the swarm's status every five seconds    *)
(* without waiting for the poll before, holds a conversation over streamed *)
(* replies, and checks prompts.  Its handlers run one at a time but stop   *)
(* at every await, and the answers they wait for come in any order.        *)
(*                                                                         *)
(* The coordinator restarts with another catalog or rules file, nodes and  *)
(* peers come and go, and a crash resets every connection.  What happens   *)
(* to a generation behind the coordinator is TokenStream's subject: here   *)
(* a stream has some pieces and one of the endings that reach a browser.   *)
(*                                                                         *)
(* Three panels share the page; a behaviour uses one of them: the status   *)
(* table with overlapping polls, the conversation with one poll at a time  *)
(* (the model list is what they share), or the prompt check, which shares  *)
(* nothing with the others but the token.                                  *)
(***************************************************************************)
EXTENDS Integers, Sequences, SequencesExt, FiniteSets, SafetyRules

CONSTANTS
  Models,         \* model ids
  NoModel,        \* the value of an empty model list
  Catalogs,       \* the catalogs a coordinator may be started with
  MinActiveNodes, \* of each model
  RuleFiles,      \* the rules files a coordinator may be started with
  Tokens,         \* secrets, with the white space around them
  Prompts,        \* texts to check
  ChatHistoryWindow,
  Panels,         \* the panels used, each in behaviours of its own
  MaxNodes, MaxPeerNodes, \* bounds: nodes of the coordinator, of its peers
  MaxPolls,       \* bound, per panel: polls in flight
  MaxChanges,     \* bound, per panel: changes of the world
  MaxPieces,      \* bound: pieces of a reply
  MaxEntries,     \* bound: messages of a conversation
  MaxChecks       \* bound: checks in flight

ASSUME NoModelIsNone == NoModel \notin Models
ASSUME PanelsKnown == Panels \subseteq {"status", "chat", "check"}
\* "A term is authored with single spaces between words"; more than one is no
\* matter, a tab would be.
ASSUME TextsAssumption ==
  /\ Prompts \subseteq Seq(AllChars)
  /\ \A file \in RuleFiles :
       /\ file \in Seq(ToSet(file))
       /\ \A i \in DOMAIN file : Has(file[i], "term") => file[i].term \in Seq(TermChars)

VARIABLES
  panel,   \* the panel this behaviour uses
  world,   \* the coordinator: whether it runs, its catalog and rules, nodes
  token,   \* the token in sessionStorage
  polls,   \* refreshStatus calls in flight, in the order they were sent
  status,  \* the active-count text and the rows of the catalog table
  chat,    \* the conversation and its part of the page
  request, \* the frame of sendChatMessage
  asked,   \* models this conversation was sent to
  checks,  \* classifyPrompt calls in flight
  verdict  \* the classify-result text

vars == <<panel, world, token, polls, status, chat, request, asked, checks, verdict>>

--------------------------------------------------------------------------------
(* The coordinator's answers. *)

\* ModelCatalog.availability
Availability(catalog, activeNodeCount) ==
  [i \in DOMAIN catalog |->
     [id |-> catalog[i], available |-> activeNodeCount >= MinActiveNodes[catalog[i]]]]

Ids(rows) == [i \in DOMAIN rows |-> rows[i].id]

\* White space around a header's value does not survive the wire, where the
\* token arrives behind "Bearer "; the comparison is exact.
OnTheWire(t) == [t EXCEPT !.padded = FALSE]
IsAuthorized(t) == t.word # "" /\ OnTheWire(t) = world.token

\* Both requests of a poll, answered separately.  local: what /catalog has
\* counted when it turns to the peers.
Poll(t) == [authorized |-> IsAuthorized(t), rejected |-> ~world.up,
            capacity |-> <<>>, local |-> <<>>, catalog |-> <<>>]

\* Mutant: any token that is set will do.
StartableIfSet(t) == t.word # ""

\* The tokens main.ts starts with.
Startable(t) == t.word # "" /\ ~t.padded

--------------------------------------------------------------------------------
(* The conversation's part of the page. *)

\* A flag of "plain" is no status.
Message(role, text, flag, ending) ==
  [role |-> role, text |-> text, status |-> flag, ending |-> ending]

\* A row of the page is a message as it shows; ending, what became of the
\* stream, is known to no code and read by the properties only.
Row(m) == [role |-> m.role, text |-> m.text, status |-> m.status]
Rows(history) == [i \in DOMAIN history |-> Row(history[i])]
Thinking == [role |-> "thinking", text |-> <<>>, status |-> "plain"]

RenderChatHistory(c) == [c EXCEPT !.dom = Rows(c.history)]

AppendToLastChatMessage(c, piece) ==
  IF c.dom = <<>> THEN c
  ELSE [c EXCEPT !.dom[Len(c.dom)].text = Append(@, piece)]

SetChatBusy(c, busy) ==
  [c EXCEPT
     !.busy = busy,
     !.locked = @ \/ busy,
     !.disabled = busy \/ c.locked,
     !.dom = IF ~busy THEN RemoveFirst(@, Thinking)
             ELSE IF Contains(@, Thinking) THEN @ ELSE Append(@, Thinking)]

\* Mutant: the list follows the catalog in mid-conversation.
PopulateModelSelectAlways(c) ==
  [c EXCEPT !.options = Ids(c.catalog),
            !.value = IF Contains(Ids(c.catalog), @) \/ c.catalog = <<>> THEN @
                      ELSE c.catalog[1].id]

PopulateModelSelect(c) ==
  IF c.locked THEN c
  ELSE [c EXCEPT !.options = Ids(c.catalog),
                 !.value = IF Contains(Ids(c.catalog), @) THEN @
                           ELSE IF c.catalog = <<>> THEN NoModel
                           ELSE c.catalog[1].id]

\* The messages sent again with the next one, by their positions: the last of
\* those without a status.
BuildChatPrompt(history) ==
  LET prior == {i \in DOMAIN history : history[i].status = "plain"}
  IN  {i \in prior : Cardinality({j \in prior : j >= i}) <= ChatHistoryWindow}

PushMessage(c, m) == [c EXCEPT !.history = Append(@, m)]

\* sendChatMessage's last two statements.
Finished(c) == RenderChatHistory(SetChatBusy(c, FALSE))

\* The message that grows while its stream is read: the last one.
Growing(c) == c.history[Len(c.history)]
Grown(c, part) == [c EXCEPT !.history[Len(c.history)].text = Append(@, part)]
Ended(c, flag, ending) ==
  [c EXCEPT !.history[Len(c.history)].status = flag,
            !.history[Len(c.history)].ending = ending]

--------------------------------------------------------------------------------
Loadable == {file \in RuleFiles : Loads(file)}

\* What the classifier says of each prompt, and what the file itself does: the
\* categories an answer must name, and those it may.
Results ==
  [file \in Loadable |-> [text \in Prompts |-> Classify(LoadSafetyRules(file), text)]]
Flagged ==
  [file \in Loadable |-> [text \in Prompts |->
     [must |-> FlaggedFor(file, AsAdvised(file), text),
      may |-> FlaggedFor(file, DOMAIN file, text)]]]

NoRequest == [phase |-> "none", authorized |-> FALSE, model |-> NoModel,
              added |-> FALSE, reset |-> FALSE]

Init ==
  /\ panel \in Panels
  /\ \E catalog \in Catalogs, file \in Loadable, t \in Tokens :
       /\ Startable(t)
       /\ world = [up |-> TRUE, catalog |-> catalog, file |-> file, token |-> t,
                   nodes |-> 0, peers |-> 0, changes |-> 0]
  /\ token \in Tokens
  /\ polls = IF panel = "check" THEN <<>> ELSE <<Poll(token)>>
  /\ status = [count |-> "none", nodes |-> 0, rows |-> <<>>]
  /\ chat = [history |-> <<>>, locked |-> FALSE, catalog |-> <<>>,
             options |-> <<>>, value |-> NoModel, disabled |-> FALSE,
             busy |-> FALSE, dom |-> <<>>]
  /\ request = NoRequest
  /\ asked = {}
  /\ checks = <<>>
  /\ verdict = [shown |-> "none"]

--------------------------------------------------------------------------------
(* refreshStatus. *)

CanPoll == Len(polls) < MaxPolls[panel]

\* setInterval: every five seconds, whatever became of the last one.
PollTimer ==
  /\ CanPoll
  /\ polls' = Append(polls, Poll(token))
  /\ UNCHANGED <<panel, world, token, status, chat, request, asked, checks, verdict>>

\* A new token is stored and a poll sent with it.
SaveToken(t) ==
  /\ CanPoll \/ MaxPolls[panel] = 0
  /\ world.changes < MaxChanges[panel]
  /\ token' = t
  /\ world' = [world EXCEPT !.changes = @ + 1]
  /\ polls' = IF CanPoll THEN Append(polls, Poll(t)) ELSE polls
  /\ UNCHANGED <<panel, status, chat, request, asked, checks, verdict>>

Answering(i) == i \in DOMAIN polls /\ world.up /\ ~polls[i].rejected

CapacityAnswers(i) ==
  /\ Answering(i) /\ polls[i].capacity = <<>>
  /\ polls' = [polls EXCEPT ![i].capacity = <<world.nodes>>]
  /\ UNCHANGED <<panel, world, token, status, chat, request, asked, checks, verdict>>

\* GET /catalog counts its own nodes first and then asks the peers.
CatalogCounts(i) ==
  /\ Answering(i) /\ polls[i].local = <<>> /\ polls[i].catalog = <<>>
  /\ polls' = [polls EXCEPT ![i].local = <<world.nodes>>]
  /\ UNCHANGED <<panel, world, token, status, chat, request, asked, checks, verdict>>

FederatedActiveNodeCount(local) == local + world.peers

CatalogAnswers(i) ==
  /\ Answering(i) /\ polls[i].local # <<>>
  /\ polls' = [polls EXCEPT
       ![i].local = <<>>,
       ![i].catalog =
         <<Availability(world.catalog, FederatedActiveNodeCount(polls[i].local[1]))>>]
  /\ UNCHANGED <<panel, world, token, status, chat, request, asked, checks, verdict>>

Arrived(poll) == poll.rejected \/ (poll.capacity # <<>> /\ poll.catalog # <<>>)

\* nodes is 0 wherever the text is no number.
StatusAfter(poll) ==
  IF poll.rejected THEN [status EXCEPT !.count = "unavailable", !.nodes = 0]
  ELSE IF ~poll.authorized
       THEN [count |-> "token required", nodes |-> 0, rows |-> <<>>]
  ELSE [count |-> "nodes", nodes |-> poll.capacity[1], rows |-> poll.catalog[1]]

RefreshStatus(i) ==
  /\ i \in DOMAIN polls /\ Arrived(polls[i])
  /\ status' = StatusAfter(polls[i])
  /\ chat' = IF polls[i].rejected \/ ~polls[i].authorized THEN chat
             ELSE PopulateModelSelect([chat EXCEPT !.catalog = polls[i].catalog[1]])
  /\ polls' = RemoveAt(polls, i)
  /\ UNCHANGED <<panel, world, token, request, asked, checks, verdict>>

--------------------------------------------------------------------------------
(* The conversation. *)

SelectModel(m) ==
  /\ panel = "chat" /\ ~chat.disabled /\ Contains(chat.options, m)
  /\ chat' = [chat EXCEPT !.value = m]
  /\ UNCHANGED <<panel, world, token, polls, status, request, asked, checks, verdict>>

\* Up to the fetch.
SendChatMessage ==
  /\ panel = "chat" /\ ~chat.busy /\ Len(chat.history) < MaxEntries
  /\ chat' = SetChatBusy(RenderChatHistory(
       PushMessage(chat, Message("user", <<"typed">>, "plain", "none"))), TRUE)
  /\ request' = [NoRequest EXCEPT !.phase = "sent", !.authorized = IsAuthorized(token),
                                  !.model = chat.value, !.reset = ~world.up]
  /\ asked' = asked \cup {chat.value}
  /\ UNCHANGED <<panel, world, token, polls, status, checks, verdict>>

ReplyEnds(c) ==
  /\ chat' = Finished(c)
  /\ request' = NoRequest
  /\ UNCHANGED <<panel, world, token, polls, status, asked, checks, verdict>>

Reply(text, flag, ending) ==
  ReplyEnds(PushMessage(chat, Message("assistant", <<text>>, flag, ending)))

Generating(phase) == request.phase = phase /\ ~request.reset
Serving == request.authorized /\ Contains(world.catalog, request.model)

\* A status other than 200: the token, the model, the classifier, no node.
Blocked ==
  Generating("sent") /\ Serving /\ Reply("blocked", "blocked", "none")
Unauthorized ==
  Generating("sent") /\ ~request.authorized /\ Reply("token", "error", "none")
Refused ==
  Generating("sent") /\ request.authorized /\ Reply("refused", "error", "none")

StreamOpens ==
  /\ Generating("sent") /\ Serving
  /\ request' = [request EXCEPT !.phase = "stream"]
  /\ UNCHANGED <<panel, world, token, polls, status, chat, asked, checks, verdict>>

\* Mutant: a first piece is appended where no row of its own exists yet.
PieceShownAtOnce(c) ==
  AppendToLastChatMessage(
    PushMessage(c, Message("assistant", <<"piece">>, "plain", "none")), "piece")

FirstPieceShown(c) ==
  RenderChatHistory(PushMessage(c, Message("assistant", <<"piece">>, "plain", "none")))

PieceArrives ==
  /\ Generating("stream")
  /\ request.added => Len(Growing(chat).text) < MaxPieces
  /\ chat' = IF request.added
             THEN AppendToLastChatMessage(Grown(chat, "piece"), "piece")
             ELSE FirstPieceShown(chat)
  /\ request' = [request EXCEPT !.added = TRUE]
  /\ UNCHANGED <<panel, world, token, polls, status, asked, checks, verdict>>

DoneArrives ==
  /\ Generating("stream")
  /\ IF request.added THEN ReplyEnds(Ended(chat, "plain", "done"))
     ELSE Reply("no output", "plain", "done")

\* An error frame ends the reply as [DONE] does.  The page itself would go on with
\* the frames behind it; that none follows is the documented contract (app.js:217),
\* which OneEnding of TokenStream says is kept, and so there is no step for one.
ErrorArrives ==
  /\ Generating("stream")
  /\ IF request.added
     THEN ReplyEnds(RenderChatHistory(Ended(Grown(chat, "error"), "error", "frame")))
     ELSE Reply("error", "error", "frame")

\* Mutant: the end of the body is taken for the end of the reply.
FlagOfCleanEndNone == "plain"

FlagOfCleanEnd == "error"

\* The body ends without [DONE]: the node died, or the coordinator's timer
\* closed the reply.
StreamEndsEarly ==
  /\ Generating("stream")
  /\ IF request.added
     THEN ReplyEnds(Ended(Grown(chat, "truncated"), FlagOfCleanEnd, "cut"))
     ELSE Reply("lost", "error", "cut")

\* Mutant: the catch block reports the failure whatever has arrived.
FailedReplyTwice(c) ==
  PushMessage(c, Message("assistant", <<"network">>, "error", "reset"))

FailedReply(c) ==
  IF request.added THEN Ended(c, "plain", "reset")
  ELSE PushMessage(c, Message("assistant", <<"network">>, "error", "reset"))

\* Mutant: the controls come back only where the request ends well.
CaughtStillBusy(c) == RenderChatHistory(c)

Caught(c) == Finished(c)

\* fetch or read() rejects, and the catch block runs.
RequestRejects ==
  /\ request.phase # "none" /\ request.reset
  /\ chat' = Caught(FailedReply(chat))
  /\ request' = NoRequest
  /\ UNCHANGED <<panel, world, token, polls, status, asked, checks, verdict>>

ChatSteps ==
  \/ Blocked \/ Unauthorized \/ Refused
  \/ StreamOpens \/ PieceArrives
  \/ DoneArrives \/ ErrorArrives \/ StreamEndsEarly
  \/ RequestRejects

Cleared(c) ==
  SetChatBusy(PopulateModelSelect(RenderChatHistory(
    [c EXCEPT !.history = <<>>, !.locked = FALSE])), FALSE)

ResetChat ==
  /\ panel = "chat" /\ ~chat.busy
  /\ chat' = Cleared(chat)
  /\ asked' = {}
  /\ UNCHANGED <<panel, world, token, polls, status, request, checks, verdict>>

--------------------------------------------------------------------------------
(* The prompt check: classifyPrompt and POST /classify. *)

\* The button stays enabled: a check may overtake another.
ClassifyPrompt(text) ==
  /\ panel = "check" /\ Len(checks) < MaxChecks
  /\ checks' = Append(checks, [at |-> IF world.up THEN "sent" ELSE "rejected",
                               authorized |-> IsAuthorized(token), text |-> text])
  /\ verdict' = [shown |-> "Checking..."]
  /\ UNCHANGED <<panel, world, token, polls, status, chat, request, asked>>

Verdict(safe, categories) == [safe |-> safe, categories |-> categories]

ClassifierError == Verdict(FALSE, <<"classifier_error">>)

\* The handler's answers: the classifier's result, or what stands for an
\* error, a malformed result, or none within two seconds.
ClassifyAnswers(text) ==
  LET result == Results[world.file][text]
  IN  {Verdict(result.safe, UniqueCategories(result.categories)), ClassifierError}

\* flagged: what the rules in force say of the text, for the properties.
CheckAnswers(i) ==
  /\ i \in DOMAIN checks /\ checks[i].at = "sent"
  /\ IF checks[i].authorized
     THEN \E answer \in ClassifyAnswers(checks[i].text) :
            checks' = [checks EXCEPT ![i] =
              [at |-> "answered", answer |-> answer,
               flagged |-> Flagged[world.file][checks[i].text]]]
     ELSE checks' = [checks EXCEPT ![i] = [at |-> "unauthorized"]]
  /\ UNCHANGED <<panel, world, token, polls, status, chat, request, asked, verdict>>

VerdictShown(check) ==
  IF check.at = "answered"
  THEN [shown |-> "verdict", answer |-> check.answer, flagged |-> check.flagged]
  ELSE [shown |-> check.at]

CheckArrives(i) ==
  /\ i \in DOMAIN checks /\ checks[i].at # "sent"
  /\ verdict' = VerdictShown(checks[i])
  /\ checks' = RemoveAt(checks, i)
  /\ UNCHANGED <<panel, world, token, polls, status, chat, request, asked>>

--------------------------------------------------------------------------------
(* The world. *)

Changes(change) ==
  /\ world.changes < MaxChanges[panel]
  /\ world' = [change EXCEPT !.changes = @ + 1]
  /\ UNCHANGED <<panel, token, status, chat, asked, verdict>>

NodesChange(n) ==
  /\ panel # "check" /\ world.up /\ n # world.nodes
  /\ Changes([world EXCEPT !.nodes = n])
  /\ UNCHANGED <<polls, request, checks>>

\* A peer that does not answer counts for nothing.
PeersChange(n) ==
  /\ panel # "check" /\ world.up /\ n # world.peers
  /\ Changes([world EXCEPT !.peers = n])
  /\ UNCHANGED <<polls, request, checks>>

\* Every connection is reset; answers under way are lost with it.
CoordinatorCrashes ==
  /\ world.up
  /\ Changes([world EXCEPT !.up = FALSE, !.nodes = 0])
  /\ polls' = [i \in DOMAIN polls |->
                 IF Arrived(polls[i]) THEN polls[i]
                 ELSE [polls[i] EXCEPT !.rejected = TRUE, !.capacity = <<>>,
                                       !.local = <<>>, !.catalog = <<>>]]
  /\ request' = [request EXCEPT !.reset = @ \/ request.phase # "none"]
  /\ checks' = [i \in DOMAIN checks |->
                  IF checks[i].at = "sent" THEN [at |-> "rejected"] ELSE checks[i]]

\* main.ts does not start without a token clients can send and rules that load.
CoordinatorStarts(catalog, file, t) ==
  /\ ~world.up /\ file \in Loadable /\ Startable(t)
  /\ world' = [world EXCEPT !.up = TRUE, !.catalog = catalog, !.file = file,
                            !.token = t]
  /\ UNCHANGED <<panel, token, polls, status, chat, request, asked, checks, verdict>>

Environment ==
  \/ \E n \in 0..MaxNodes : NodesChange(n)
  \/ \E n \in 0..MaxPeerNodes : PeersChange(n)
  \/ CoordinatorCrashes
  \/ \E catalog \in Catalogs, file \in RuleFiles, t \in Tokens :
       CoordinatorStarts(catalog, file, t)

StatusSteps ==
  \/ \E i \in DOMAIN polls : CapacityAnswers(i) \/ CatalogCounts(i) \/ CatalogAnswers(i)
  \/ \E i \in DOMAIN polls : RefreshStatus(i)

CheckSteps ==
  \/ \E i \in DOMAIN checks : CheckAnswers(i)
  \/ \E i \in DOMAIN checks : CheckArrives(i)

User ==
  \/ \E t \in Tokens : SaveToken(t)
  \/ \E m \in Models : SelectModel(m)
  \/ SendChatMessage \/ ResetChat
  \/ \E text \in Prompts : ClassifyPrompt(text)

Next == PollTimer \/ StatusSteps \/ User \/ ChatSteps \/ CheckSteps \/ Environment

Spec == Init /\ [][Next]_vars

\* The timer is never cleared; a coordinator that runs answers (it gives a
\* peer and a classifier two seconds, a node two minutes), and a browser
\* tells a page what came of its requests.
Fairness ==
  /\ WF_vars(PollTimer)
  /\ WF_vars(\E i \in DOMAIN polls : CapacityAnswers(i))
  /\ WF_vars(\E i \in DOMAIN polls : CatalogCounts(i) \/ CatalogAnswers(i))
  /\ WF_vars(\E i \in DOMAIN polls : RefreshStatus(i))
  /\ WF_vars(ChatSteps)
  /\ WF_vars(CheckSteps)

FairSpec == Spec /\ Fairness

--------------------------------------------------------------------------------
\* What the page shows of a conversation is the conversation, although rows
\* are rebuilt for some changes and patched in place for others; while a
\* reply is awaited there may be a placeholder below it, afterwards none.
ScreenShowsHistory ==
  \/ chat.dom = Rows(chat.history)
  \/ chat.busy /\ chat.dom = Append(Rows(chat.history), Thinking)

\* Every message of the user gets exactly one reply, on each of the ways a
\* request ends, and none while another is awaited.
EveryTurnAnswered ==
  LET h == chat.history
  IN  /\ \A i \in DOMAIN h : h[i].role = (IF i % 2 = 1 THEN "user" ELSE "assistant")
      /\ Len(h) % 2 = 1 => chat.busy

Settled(i) == i \in DOMAIN chat.history /\ (chat.busy => i < Len(chat.history))

\* A reply whose stream ended without [DONE] looks cut, and no later prompt
\* tells the model that it said so; an error frame is no different.  The
\* exception is a connection that is reset in mid-reply.
CutIsFlagged ==
  \A i \in DOMAIN chat.history :
    Settled(i) /\ chat.history[i].ending \in {"cut", "frame"} =>
      /\ chat.history[i].status = "error"
      /\ i \notin BuildChatPrompt(chat.history)

\* A conversation is with one model, whatever polls bring in between.
OneModelPerConversation == Cardinality(asked) <= 1

\* The verdict the page shows is exact: it names, once each, the categories of
\* the rules in force that flag the prompt, and is "safe" only without any; or
\* the check failed and says so.  A term that begins or ends in other than a
\* letter may be missed (safety_rules_loader.ts:118), but it is never seen
\* where it is not.
VerdictIsExact ==
  verdict.shown = "verdict" =>
    LET named == ToSet(verdict.answer.categories)
    IN  \/ verdict.answer = Verdict(FALSE, <<"classifier_error">>)
        \/ /\ verdict.answer.safe = (verdict.answer.categories = <<>>)
           /\ verdict.flagged.must \subseteq named /\ named \subseteq verdict.flagged.may
           /\ Len(verdict.answer.categories) = Cardinality(named)

\* What a user asks for ends, a message and a check alike: the controls come
\* back, whatever became of the request, and the page stops "Checking...".
AnswersCome ==
  /\ chat.busy ~> ~chat.busy
  /\ (verdict.shown = "Checking...") ~> (verdict.shown # "Checking...")

\* Whoever types the operator's secret has it, white space or not.
HasSecret == token.word # "" /\ token.word = world.token.word

Shown ==
  IF ~world.up THEN status.count = "unavailable"
  ELSE IF ~HasSecret THEN status.count = "token required" /\ status.rows = <<>>
  ELSE status = [count |-> "nodes", nodes |-> world.nodes,
                 rows |-> Availability(world.catalog,
                                       FederatedActiveNodeCount(world.nodes))]

\* Polls overlap and arrive out of order, but once the swarm stays as it is,
\* so does the page, and it shows the swarm to whoever has the secret.
StatusConverges == panel # "check" => <>[]Shown

================================================================================
