------------------------------ MODULE TokenStream ------------------------------
(***************************************************************************)
(* A request for generated text on its whole way: the safety gate, the     *)
(* coordinator that forwards it to one node, the node's single-threaded    *)
(* HTTP server with its ResponseWriter, and back through the coordinator   *)
(* to the client.  /generate relays the node's frames as they are,         *)
(* /v1/chat/completions reads them and writes frames of its own; both also *)
(* answer with one JSON body.                                              *)
(*                                                                         *)
(* Either side may stop at any frame: the engine throws, the node process  *)
(* dies, the coordinator's timers fire.  A connection that ends says       *)
(* nothing of why: only the sentinel tells a whole reply from a cut one.   *)
(*                                                                         *)
(* A frame is whole or absent: every reader keeps an unfinished frame in a *)
(* buffer it never looks at again.  A piece is the text of one token; the  *)
(* one piece whose text matters is Done, which spells the sentinel.        *)
(***************************************************************************)
EXTENDS Naturals, Sequences, SequencesExt

CONSTANTS
  Requests, \* clients' requests, all arrived
  Pieces,   \* texts of single tokens
  Done,     \* the text "[DONE]"
  Cases,    \* what a request may be and what becomes of it: see Case
  NoRequest \* the node serves nobody

ASSUME DoneIsAPiece == Done \in Pieces
ASSUME NoRequestIsNone == NoRequest \notin Requests

\* verdict: what the classifier will answer, "broken" for an error or a
\* malformed answer, "unasked" when the body is rejected before it is asked;
\* fate: how the node's handler ends.
Case ==
  [route : {"generate", "chat"}, stream : BOOLEAN,
   verdict : {"safe", "unsafe", "broken", "unasked"},
   pieces : Seq(Pieces), fate : {"ends", "throws", "refuses"}]

ASSUME CasesAreCases == Cases \subseteq Case

VARIABLES
  req,         \* the case of each request
  understands, \* whether the agent's build knows "stream"
  settled,     \* requests whose classifier has answered, in time or not
  at,          \* where the coordinator's handler is
  demand,      \* requests counted as demand
  read,        \* frames of the node's answer the coordinator has consumed
  marked,      \* requests that marked the driver's pool entry failed
  reply,       \* frames sent to the client
  conn,        \* the node's side of the connection made for each request
  backlog,     \* connections the node has not accepted, in order
  serving,     \* the request the node's handler runs for
  alive        \* whether the node process runs

vars == <<req, understands, settled, at, demand, read, marked, reply,
          conn, backlog, serving, alive>>
coordinator == <<settled, at, demand, read, marked, reply>>
node == <<backlog, serving, alive>>
given == <<req, understands>>

--------------------------------------------------------------------------------
(* Frames.  A JSON answer is one frame. *)

Frame(event, text) == [event |-> event, data |-> text]
Frames ==
  [event : {"ok", "refused", "badgateway", "sse", "data", "usage", "error",
            "role", "content", "finish"},
   data : Seq(Pieces)]

Ok(text) == Frame("ok", text)
Refused == Frame("refused", <<>>)
BadGateway == Frame("badgateway", <<>>)
SseHead == Frame("sse", <<>>)
Data(piece) == Frame("data", <<piece>>)
Sentinel == Data(Done)
Usage == Frame("usage", <<>>)
Error == Frame("error", <<>>)

--------------------------------------------------------------------------------
(* The node's ResponseWriter.  gone: the coordinator closed its end. *)

NoConn ==
  [made |-> FALSE, closed |-> FALSE, gone |-> FALSE, pos |-> 0, told |-> FALSE,
   sse |-> FALSE, json |-> FALSE, done |-> FALSE, error |-> FALSE, sent |-> <<>>]

EnsureSseHeadersSent(w) ==
  IF w.sse \/ w.json THEN w
  ELSE [w EXCEPT !.sse = TRUE, !.sent = Append(@, SseHead)]

WriteJsonResponse(w, answer) ==
  IF w.sse \/ w.json THEN w
  ELSE [w EXCEPT !.json = TRUE, !.sent = Append(@, answer)]

\* writeChunk and writeUsage: dropped once the response is over.
WriteFrame(w, frame) ==
  LET v == EnsureSseHeadersSent(w)
  IN  IF v.json \/ v.done \/ v.error THEN v
      ELSE [v EXCEPT !.sent = Append(@, frame)]

\* Mutant: the sentinel follows a JSON answer too.
WriteDoneAfterJson(w) ==
  IF w.done \/ w.error THEN w
  ELSE LET v == EnsureSseHeadersSent([w EXCEPT !.done = TRUE])
       IN  [v EXCEPT !.sent = Append(@, Sentinel)]

WriteDone(w) ==
  IF w.json \/ w.done \/ w.error THEN w
  ELSE LET v == EnsureSseHeadersSent([w EXCEPT !.done = TRUE])
       IN  [v EXCEPT !.sent = Append(@, Sentinel)]

WriteError(w) ==
  CASE w.json -> w
    [] ~w.json /\ ~w.sse -> WriteJsonResponse(w, Refused)
    [] w.sse /\ (w.done \/ w.error) -> w
    [] OTHER -> [w EXCEPT !.error = TRUE, !.sent = Append(@, Error)]

--------------------------------------------------------------------------------
(* The node: one connection at a time. *)

Streams(r) == req[r].stream /\ understands

Accept ==
  /\ alive /\ serving = NoRequest /\ backlog # <<>>
  /\ serving' = Head(backlog)
  /\ backlog' = Tail(backlog)
  /\ UNCHANGED <<given, coordinator, conn, alive>>

\* The handler goes on; it is over when the connection is closed.
Handler(r, w) ==
  /\ conn' = [conn EXCEPT ![r] = w]
  /\ serving' = IF w.closed THEN NoRequest ELSE r
  /\ UNCHANGED <<given, coordinator, backlog, alive>>

Closed(w) == [w EXCEPT !.closed = TRUE]

\* run() writes the sentinel after a handler that returned, only.
Returned(w) == Closed(WriteDone(w))

\* A token is generated: streamed at once or kept for the JSON answer.
OnToken(r) ==
  LET w == conn[r]
      v == [w EXCEPT !.pos = @ + 1]
  IN  /\ serving = r
      /\ req[r].fate # "refuses"
      /\ w.pos < Len(req[r].pieces)
      /\ Handler(r, IF Streams(r) THEN WriteFrame(v, Data(req[r].pieces[v.pos])) ELSE v)

Generated(r) == serving = r /\ conn[r].pos = Len(req[r].pieces)

\* Only chat asks for the usage frame.
TellUsage(r) ==
  /\ Generated(r)
  /\ req[r].fate = "ends" /\ Streams(r) /\ req[r].route = "chat" /\ ~conn[r].told
  /\ Handler(r, [WriteFrame(conn[r], Usage) EXCEPT !.told = TRUE])

HandlerReturns(r) ==
  LET w == conn[r]
  IN  /\ Generated(r) /\ req[r].fate = "ends"
      /\ Streams(r) /\ req[r].route = "chat" => w.told
      /\ Handler(r, Returned(IF Streams(r) THEN w
                             ELSE WriteJsonResponse(w, Ok(req[r].pieces))))

\* A missing token or a bad field: 401 or 400 before anything is generated.
HandlerRefuses(r) ==
  /\ serving = r /\ req[r].fate = "refuses"
  /\ Handler(r, Returned(WriteJsonResponse(conn[r], Refused)))

\* The engine throws.  Only the JSON branch of /complete catches it itself.
HandlerThrows(r) ==
  LET w == conn[r]
  IN  /\ Generated(r) /\ req[r].fate = "throws"
      /\ Handler(r, IF Streams(r) THEN Closed(WriteError(w))
                    ELSE Returned(WriteJsonResponse(w, Refused)))

\* A send to a peer that left fails, if not at the first send after it left.
PeerGone(r) ==
  /\ serving = r /\ conn[r].gone /\ Streams(r)
  /\ Handler(r, Closed(conn[r]))

\* GGML_ABORT, or the process is killed: no terminator of any kind.
NodeDies ==
  /\ alive
  /\ alive' = FALSE
  /\ serving' = NoRequest
  /\ backlog' = <<>>
  /\ conn' = [r \in Requests |-> IF conn[r].made THEN Closed(conn[r]) ELSE conn[r]]
  /\ UNCHANGED <<given, coordinator>>

--------------------------------------------------------------------------------
(* The coordinator. *)

\* The handler sends frames and goes to a stage.
Sends(r, frames, stage) ==
  /\ reply' = [reply EXCEPT ![r] = @ \o frames]
  /\ at' = [at EXCEPT ![r] = stage]

MarkDriverFailedIfTracked(r) ==
  marked' = IF req[r].route = "generate" THEN marked \cup {r} ELSE marked

\* Each way to a 502 marks the driver and answers by itself.  Chat
\* completions have the same ways to it, and know no pool.

\* Not a 2xx status for a stream.
StreamRefused(r, f) ==
  /\ req[r].stream /\ f.event = "refused"
  /\ Sends(r, <<BadGateway>>, "ended")
  /\ MarkDriverFailedIfTracked(r)

\* Mutant: the driver whose build does not stream keeps its entry.
NotAStreamUnmarked(r, f) ==
  /\ req[r].stream /\ f.event = "ok"
  /\ Sends(r, <<BadGateway>>, "ended")
  /\ UNCHANGED marked

\* A node whose build does not know "stream" answers with one JSON body.
NotAStream(r, f) ==
  /\ req[r].stream /\ f.event = "ok"
  /\ Sends(r, <<BadGateway>>, "ended")
  /\ MarkDriverFailedIfTracked(r)

\* Not a 2xx status for the JSON answer.  Its text is a string in every
\* build of the node, so a malformed one does not arrive.
AnswerRefused(r, f) ==
  /\ ~req[r].stream /\ f.event = "refused"
  /\ Sends(r, <<BadGateway>>, "ended")
  /\ MarkDriverFailedIfTracked(r)

\* The catch of the streaming branch: once the head is sent, no 502 can be.
StreamThrows(r) ==
  /\ req[r].stream
  /\ Sends(r, IF at[r] = "relay" THEN <<>> ELSE <<BadGateway>>, "ended")
  /\ MarkDriverFailedIfTracked(r)

\* The catch of the JSON branch.
AnswerThrows(r) ==
  /\ ~req[r].stream
  /\ Sends(r, <<BadGateway>>, "ended")
  /\ MarkDriverFailedIfTracked(r)

FetchThrows(r) == StreamThrows(r) \/ AnswerThrows(r)

\* The prompt is let through: counted as demand; a cold start may be
\* awaited before the request is forwarded (module ColdStart).
Pass(r) ==
  /\ demand' = demand \cup {r}
  /\ Sends(r, <<>>, "ready")

\* A body that is no JSON object, names no model of the catalog, or has a
\* field of the wrong type: 400, before anybody is asked.
BodyRejected(r) ==
  /\ at[r] = "gate" /\ req[r].verdict = "unasked"
  /\ Sends(r, <<Refused>>, "ended")
  /\ UNCHANGED <<given, settled, demand, read, marked, conn, node>>

Asked(r) == req[r].verdict # "unasked"

\* The classifier's promise settles.  After the timeout nobody listens.
ClassifierSettles(r) ==
  /\ Asked(r) /\ r \notin settled
  /\ settled' = settled \cup {r}
  /\ \/ at[r] = "gate" /\ req[r].verdict = "safe" /\ Pass(r)
     \/ /\ at[r] = "gate" /\ req[r].verdict # "safe"
        /\ Sends(r, <<Refused>>, "ended")
        /\ UNCHANGED demand
     \/ at[r] # "gate" /\ UNCHANGED <<at, reply, demand>>
  /\ UNCHANGED <<given, read, marked, conn, node>>

\* Mutant: a classifier that is late lets the prompt pass.
ClassifierTimesOutOpen(r) ==
  /\ at[r] = "gate"
  /\ Pass(r)
  /\ UNCHANGED <<given, settled, read, marked, conn, node>>

ClassifierTimesOut(r) ==
  /\ Asked(r) /\ at[r] = "gate"
  /\ Sends(r, <<Refused>>, "ended")
  /\ UNCHANGED <<given, settled, demand, read, marked, conn, node>>

\* A node is selected or there is none (503); the connection is refused
\* when its process is gone.
Forward(r) ==
  /\ at[r] = "ready"
  /\ \/ /\ Sends(r, <<Refused>>, "ended")
        /\ UNCHANGED <<marked, conn, backlog>>
     \/ /\ ~alive
        /\ FetchThrows(r)
        /\ UNCHANGED <<conn, backlog>>
     \/ /\ alive
        /\ Sends(r, <<>>, "fetch")
        /\ conn' = [conn EXCEPT ![r].made = TRUE]
        /\ backlog' = Append(backlog, r)
        /\ UNCHANGED marked
  /\ UNCHANGED <<given, settled, demand, read, serving, alive>>

\* The JSON answer arrives, or the head of a stream, or something that was
\* not asked for.
ReceiveAnswer(r) ==
  LET f == Head(conn[r].sent)
  IN  /\ at[r] = "fetch" /\ conn[r].sent # <<>>
      /\ read' = [read EXCEPT ![r] = 1]
      /\ \/ /\ f.event = "ok" /\ ~req[r].stream
            /\ Sends(r, <<f>>, "ended")
            /\ UNCHANGED marked
         \/ /\ f.event = "sse" /\ req[r].stream
            /\ Sends(r, IF req[r].route = "chat" THEN <<SseHead, Frame("role", <<>>)>>
                                                 ELSE <<SseHead>>, "relay")
            /\ UNCHANGED marked
         \/ StreamRefused(r, f) \/ NotAStream(r, f) \/ AnswerRefused(r, f)
      /\ UNCHANGED <<given, settled, demand, conn, node>>

\* The connection ended before an answer or was reset: fetch() or read()
\* rejects, and what had come and was not read yet is lost.
ConnectionFails(r) ==
  /\ at[r] \in {"fetch", "relay"} /\ conn[r].closed
  /\ FetchThrows(r)
  /\ UNCHANGED <<given, settled, demand, read, conn, node>>

\* /generate passes the frame on; chat makes a chunk of it, keeps the usage
\* to itself, ends at an error and writes its own ending at the sentinel.
Relayed(r, f) ==
  CASE req[r].route = "generate" -> <<f>>
    [] req[r].route = "chat" /\ f = Sentinel -> <<Frame("finish", <<>>), Sentinel>>
    [] req[r].route = "chat" /\ f.event = "error" -> <<Error>>
    [] req[r].route = "chat" /\ f.event = "usage" -> <<>>
    [] OTHER -> <<Frame("content", f.data)>>

Relay(r) ==
  LET f == conn[r].sent[read[r] + 1]
  IN  /\ at[r] = "relay" /\ read[r] < Len(conn[r].sent)
      /\ read' = [read EXCEPT ![r] = @ + 1]
      /\ Sends(r, Relayed(r, f),
               IF req[r].route = "chat" /\ (f = Sentinel \/ f.event = "error")
               THEN "ended" ELSE "relay")
      /\ UNCHANGED <<given, settled, demand, marked, conn, node>>

\* Mutant: a stream that just ends is told as finished.
StreamEndsFinished(r) ==
  /\ at[r] = "relay" /\ conn[r].closed /\ read[r] = Len(conn[r].sent)
  /\ Sends(r, IF req[r].route = "chat" THEN <<Frame("finish", <<>>), Sentinel>> ELSE <<>>,
           "ended")
  /\ UNCHANGED <<given, settled, demand, read, marked, conn, node>>

\* The connection ends in order behind the last frame, which is also how the
\* kernel ends it for a process that died: read() says done, and /generate
\* ends its reply without marking anybody.  Chat gets here only when it saw
\* no ending, and adds none.
StreamEnds(r) ==
  /\ at[r] = "relay" /\ conn[r].closed /\ read[r] = Len(conn[r].sent)
  /\ Sends(r, <<>>, "ended")
  /\ UNCHANGED <<given, settled, demand, read, marked, conn, node>>

\* Mutant: the timer covers the head of the answer only.
TimesOutBeforeHeaders(r) ==
  /\ at[r] = "fetch"
  /\ conn' = [conn EXCEPT ![r].gone = TRUE]
  /\ FetchThrows(r)
  /\ UNCHANGED <<given, settled, demand, read, node>>

\* GENERATE_TIMEOUT_MS after the fetch began, head and body together.
TimesOut(r) ==
  /\ at[r] \in {"fetch", "relay"}
  /\ conn' = [conn EXCEPT ![r].gone = TRUE]
  /\ FetchThrows(r)
  /\ UNCHANGED <<given, settled, demand, read, node>>

--------------------------------------------------------------------------------
Init ==
  /\ req \in [Requests -> Cases]
  /\ understands \in BOOLEAN
  /\ settled = {}
  /\ at = [r \in Requests |-> "gate"]
  /\ demand = {}
  /\ read = [r \in Requests |-> 0]
  /\ marked = {}
  /\ reply = [r \in Requests |-> <<>>]
  /\ conn = [r \in Requests |-> NoConn]
  /\ backlog = <<>>
  /\ serving = NoRequest
  /\ alive = TRUE

Coordinator(r) ==
  \/ BodyRejected(r) \/ ClassifierSettles(r) \/ ClassifierTimesOut(r) \/ Forward(r)
  \/ ReceiveAnswer(r) \/ ConnectionFails(r)
  \/ Relay(r) \/ StreamEnds(r) \/ TimesOut(r)

Node(r) ==
  \/ OnToken(r) \/ TellUsage(r) \/ HandlerReturns(r)
  \/ HandlerRefuses(r) \/ HandlerThrows(r) \/ PeerGone(r)

Next == Accept \/ NodeDies \/ \E r \in Requests : Coordinator(r) \/ Node(r)

Spec == Init /\ [][Next]_vars

\* A body is checked, the coordinator's two timers fire and a cold start comes back, as the
\* pool model shows (WaitingResumed); of the node and of the classifier
\* nothing is assumed.
FairSpec ==
  Spec /\ \A r \in Requests :
            /\ WF_vars(BodyRejected(r)) /\ WF_vars(ClassifierTimesOut(r))
            /\ WF_vars(Forward(r)) /\ WF_vars(TimesOut(r))

--------------------------------------------------------------------------------
TypeOK ==
  /\ req \in [Requests -> Cases] /\ understands \in BOOLEAN
  /\ settled \subseteq Requests /\ demand \subseteq Requests /\ marked \subseteq Requests
  /\ at \in [Requests -> {"gate", "ready", "fetch", "relay", "ended"}]
  /\ reply \in [Requests -> Seq(Frames)]
  /\ conn \in [Requests ->
       [made : BOOLEAN, closed : BOOLEAN, gone : BOOLEAN, pos : Nat, told : BOOLEAN,
        sse : BOOLEAN, json : BOOLEAN, done : BOOLEAN, error : BOOLEAN,
        sent : Seq(Frames)]]
  /\ read \in [Requests -> Nat]
  /\ \A r \in Requests : read[r] \in 0 .. Len(conn[r].sent)
  /\ backlog \in Seq(Requests) /\ serving \in Requests \cup {NoRequest}
  /\ alive \in BOOLEAN

\* What a reader takes for the end, well or badly; and an answer that is an
\* end by itself.
Ending(f) == f = Sentinel \/ f.event \in {"error", "ok", "refused", "badgateway"}

(***************************************************************************)
(* A response is one JSON answer or one stream, and nothing comes after    *)
(* its end: no frame behind a JSON body, no second terminator, no text     *)
(* behind the first (http_server.h: "one stream, one terminal sentinel").  *)
(* It says so of the node's connection and of the coordinator's reply;     *)
(* text that spells the sentinel is the case it leaves out.                *)
(***************************************************************************)
WellFormed(s) ==
  \A i \in 1 .. Len(s) :
    /\ Ending(s[i]) => i = Len(s)
    /\ (i = 1) = (s[i].event \in {"sse", "ok", "refused", "badgateway"})

OneEnding ==
  \A r \in Requests :
    Done \notin ToSet(req[r].pieces) => WellFormed(reply[r]) /\ WellFormed(conn[r].sent)

--------------------------------------------------------------------------------
(* What the client makes of a reply: SwarmClient.generateStream, and a     *)
(* chat client that requires [DONE].                                       *)

\* The frames whose text the client takes, up to the sentinel.
TextFrames(s) ==
  {i \in 1 .. Len(s) : /\ s[i].event \in {"data", "content"}
                      /\ \A j \in 1 .. i : s[j] # Sentinel}

Complete(r) ==
  IF req[r].stream THEN Contains(reply[r], Sentinel)
  ELSE reply[r] # <<>> /\ Head(reply[r]).event = "ok"

\* The text of a reply: of its one answer, or of these frames in their order.
Reads(r, text) ==
  IF req[r].stream
  THEN \E place \in [1 .. Len(text) -> TextFrames(reply[r])] :
         /\ \A i, j \in 1 .. Len(text) : i < j => place[i] < place[j]
         /\ \A k \in TextFrames(reply[r]) : \E i \in 1 .. Len(text) : place[i] = k
         /\ \A i \in 1 .. Len(text) : reply[r][place[i]].data = <<text[i]>>
  ELSE Head(reply[r]).data = text

(***************************************************************************)
(* A reply the client takes for complete is everything the engine          *)
(* generated, wherever the node, the engine or a timer stopped: a lost     *)
(* node is never a finished reply (README.md:792).  The one way to be cut  *)
(* short unnoticed is a token whose own text is "[DONE]".                  *)
(***************************************************************************)
CompleteIsWhole ==
  \A r \in Requests :
    Complete(r) =>
      \/ req[r].fate = "ends" /\ Reads(r, req[r].pieces)
      \/ /\ req[r].stream
         /\ \E k \in 1 .. Len(req[r].pieces) :
              /\ req[r].pieces[k] = Done
              /\ \A j \in 1 .. k - 1 : req[r].pieces[j] # Done
              /\ Reads(r, SubSeq(req[r].pieces, 1, k - 1))

(***************************************************************************)
(* The gate fails closed: no prompt is forwarded, and none counts as       *)
(* demand, before the classifier has answered in time that it is safe      *)
(* (server.ts:827: a classifier error, a malformed result or a timeout     *)
(* "must never be treated as safe enough to route").                       *)
(***************************************************************************)
OnlySafeForwarded ==
  \A r \in Requests :
    conn[r].made \/ r \in demand => r \in settled /\ req[r].verdict = "safe"

(***************************************************************************)
(* A /generate that could not use its node's answer marks the driver's     *)
(* entry failed, on every way to the 502: a refused connection, an error   *)
(* status, a build that does not stream, a lost answer, the timer          *)
(* (server.ts:898: otherwise the next request routes back to the dead      *)
(* driver).  A reply that is cut off in mid-stream is not a 502: a reset   *)
(* and the timer mark then, a connection that just ends does not.          *)
(***************************************************************************)
BadGatewayMarks ==
  \A r \in Requests :
    req[r].route = "generate" /\ Contains(reply[r], BadGateway) => r \in marked

(***************************************************************************)
(* Every request is answered in the end, whatever the classifier and the   *)
(* node do or fail to do: each wait is under a timer of the coordinator.   *)
(***************************************************************************)
EveryRequestEnds == \A r \in Requests : <>(at[r] = "ended")

================================================================================
