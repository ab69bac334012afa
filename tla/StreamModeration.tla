-------------------------- MODULE StreamModeration --------------------------
(***************************************************************************)
(* The AI content security plugin (plugins/aicontentsecurity/filter.go):   *)
(* what a request and its response say is moderated in chunks, and an      *)
(* event of a streamed response is let through once the chunks with its    *)
(* content are allowed.                                                    *)
(*                                                                         *)
(* Each stream has a filter of its own; the extractor belongs to the       *)
(* configuration, and so to all streams.  A handler takes a step up to     *)
(* each call of it, one for each character it writes, and one to moderate. *)
(* The filter manager calls one handler of a stream at a time, those of    *)
(* the response after those of the request.                                *)
(*                                                                         *)
(* A body arrives in parts.  An event is Parts of them, and so is a body   *)
(* that is one document.  All that counts of a content is its length.      *)
(***************************************************************************)
EXTENDS ContentBuffer, SSEParser, FiniteSets

CONSTANTS
  Streams,
  Worlds   \* what the route is configured with and what the streams carry:
           \* [max, overlap, streaming, message], message[s][path] being
           \* [events: sent as events, contents: their lengths, valid: whether
           \* a document is JSON, trailers: whether they end the message]

Paths == {"request", "response"}

ASSUME WorldsAssumption ==
  \A w \in Worlds :
    /\ w.max \in Nat \ {0} /\ w.overlap \in Nat /\ w.overlap < w.max
    /\ w.streaming \in BOOLEAN
    /\ \A s \in Streams, d \in Paths :
         LET m == w.message[s][d]
         IN /\ m.contents \in Seq(Nat)
            /\ m.events \in BOOLEAN /\ m.valid \in BOOLEAN /\ m.trailers \in BOOLEAN
            /\ ~m.events => Len(m.contents) <= 1
            /\ m.events => d = "response"

VARIABLES
  world,
  loaded,   \* what the extractor has parsed last: <<stream, path, document>>
  filter,   \* the filter of each stream, and where its handler is
  stream,   \* Envoy's side of it
  history   \* history: what the contents were and what was allowed

vars == <<world, loaded, filter, stream, history>>

NoBody == [d \in Paths |-> 0]
Message(s) == world.message[s][stream[s].path]
Size(m) == Parts * Len(m.contents)
Rest(s) == Size(Message(s)) - stream[s].arrived

(* EncodeHeaders: events as they come, all at once, or one document.       *)
Mode(s) ==
  CASE ~Message(s).events -> "whole"
    [] Message(s).events /\ world.streaming -> "stream"
    [] Message(s).events /\ ~world.streaming -> "wait"

Init ==
  /\ world \in Worlds
  /\ loaded = <<>>
  /\ filter = [s \in Streams |->
       [pc |-> "idle", content |-> NewContentBuffer, parser |-> NewStreamEventParser,
        body |-> NoBody, data |-> 0, closed |-> FALSE,
        end |-> FALSE, none |-> TRUE, size |-> 0, left |-> 0, chunks |-> <<>>]]
  /\ stream = [s \in Streams |->
       [path |-> "request", arrived |-> 0, outcome |-> "open", sent |-> [d \in Paths |-> 0]]]
  /\ history = [s \in Streams |->
       [spans |-> [d \in Paths |-> <<>>], passed |-> {}, denied |-> FALSE, spare |-> 0, foreign |-> FALSE]]

-----------------------------------------------------------------------------
(* The handler answers with a local reply, or panics, which ends in one.   *)
Refuse(s, outcome) == stream' = [stream EXCEPT ![s].outcome = outcome]

(* The message is over: the response follows the request.                  *)
After(t) == IF t.path = "request" THEN [t EXCEPT !.path = "response", !.arrived = 0]
            ELSE [t EXCEPT !.outcome = "complete"]

At(s, pc) == stream[s].outcome = "open" /\ filter[s].pc = pc

(* DecodeData, EncodeData, EncodeResponse with n more parts.  What the     *)
(* buffer still has of a request that ended with trailers comes first.     *)
dataHandler(s, n, end) ==
  LET f == filter[s]
      d == stream[s].path
      body == IF f.body = NoBody /\ end THEN NoBody ELSE [f.body EXCEPT ![d] = @ + n]
      valid == Message(s).valid /\ \A e \in Paths \ {d} : body[e] = 0
  IN /\ loaded' = IF ~end THEN loaded ELSE IF valid THEN <<s, d, 1>> ELSE <<>>
     /\ filter' = [filter EXCEPT ![s] = [f EXCEPT !.body = body, !.end = end,
                     !.data = IF body = NoBody THEN n ELSE 0,
                     !.pc = IF end THEN "extract" ELSE "idle"]]
     /\ stream' = [stream EXCEPT ![s].arrived = @ + n,
                     ![s].outcome = IF end /\ ~valid THEN "refused" ELSE @]

sseDataHandler(s, n, end) ==
  /\ stream' = [stream EXCEPT ![s].arrived = @ + n,
                  ![s].outcome = IF filter[s].closed THEN "refused" ELSE @]
  /\ filter' = IF filter[s].closed THEN filter
               ELSE [filter EXCEPT ![s].parser = AppendData(@, n), ![s].end = end,
                                   ![s].none = TRUE, ![s].pc = "parse"]
  /\ UNCHANGED loaded

Receive(s) ==
  /\ At(s, "idle") /\ Message(s).contents # <<>>
  /\ \E n \in 0 .. Rest(s), end \in BOOLEAN :
       /\ n > 0 \/ end
       /\ CASE Mode(s) = "whole" -> /\ end => n = Rest(s) /\ ~Message(s).trailers
                                    /\ dataHandler(s, n, end)
            [] Mode(s) = "stream" -> /\ end => n = Rest(s) /\ ~Message(s).trailers
                                     /\ sseDataHandler(s, n, end)
            [] Mode(s) = "wait" -> /\ n = Rest(s) /\ end
                                   /\ sseDataHandler(s, n, end)
  /\ UNCHANGED <<world, history>>

(* The end that no handler is called for: headers, or trailers.            *)
ReceiveEnd(s) ==
  /\ At(s, "idle") /\ Rest(s) = 0
  /\ Message(s).contents = <<>> \/ (Message(s).trailers /\ Mode(s) # "wait")
  /\ stream' = [stream EXCEPT ![s] = After(@)]
  /\ UNCHANGED <<world, loaded, filter, history>>

(* TryParse, SetData; or no event is left in the buffer.                   *)
NextEvent(p) == (p.base + p.lastParseEnd) \div Parts + 1

Parse(s) ==
  /\ At(s, "parse")
  /\ LET f == filter[s]
     IN IF Parsable(f.parser)
        THEN /\ loaded' = <<s, "response", NextEvent(f.parser)>>
             /\ filter' = [filter EXCEPT ![s] = [f EXCEPT !.parser = TryParse(@), !.none = FALSE,
                                                          !.pc = "extract"]]
        ELSE /\ filter' = [filter EXCEPT ![s].pc = IF ~f.end /\ f.none THEN "idle" ELSE "collect"]
             /\ UNCHANGED loaded
  /\ UNCHANGED <<world, stream, history>>

(* RequestContent, ResponseContent, StreamResponseContent: of what the     *)
(* extractor holds by now.  Another's document, which may just be written  *)
(* and in which another path is looked up, gives its content or nothing.   *)
Current(s) == <<s, stream[s].path,
                IF Mode(s) = "whole" THEN 1 ELSE Len(history[s].spans["response"]) + 1>>
Length(doc) == IF doc = <<>> THEN 0 ELSE world.message[doc[1]][doc[2]].contents[doc[3]]

Extract(s) ==
  /\ At(s, "extract")
  /\ \E n \in IF loaded = Current(s) THEN {Length(loaded)} ELSE {0, Length(loaded)} :
       filter' = [filter EXCEPT ![s].pc = "write", ![s].size = n, ![s].left = n]
  /\ history' = [history EXCEPT ![s].foreign = @ \/ loaded # Current(s)]
  /\ UNCHANGED <<world, loaded, stream>>

(* Write.                                                                  *)
Char(s) ==
  /\ At(s, "write") /\ filter[s].left > 0
  /\ filter' = [filter EXCEPT ![s].content = WriteChar(@, world), ![s].left = @ - 1]
  /\ UNCHANGED <<world, loaded, stream, history>>

Counted(s) ==
  /\ At(s, "write") /\ filter[s].left = 0
  /\ LET c == filter[s].content
         to == c.base + c.len
     IN /\ filter' = [filter EXCEPT ![s].content = CountEvent(c, world, filter[s].size),
                                    ![s].pc = IF Mode(s) = "whole" THEN "collect" ELSE "parse"]
        /\ history' = [history EXCEPT ![s].spans[stream[s].path] =
                         Append(@, [from |-> to - filter[s].size, to |-> to])]
  /\ UNCHANGED <<world, loaded, stream>>

(* Flush, GetCompletedResult, Consume.  What a document counts is not      *)
(* looked at.                                                              *)
Collect(s) ==
  /\ At(s, "collect")
  /\ LET f == filter[s]
         c == IF f.end THEN Flush(f.content, world) ELSE f.content
         n == IF Mode(s) = "whole" THEN 0 ELSE CompletedEvents(c)
     IN IF ~Consumable(f.parser, n)
        THEN Refuse(s, "panic") /\ UNCHANGED filter
        ELSE /\ filter' = [filter EXCEPT ![s] =
                  [f EXCEPT !.content = Retrieved(c), !.parser = Consume(@, n), !.chunks = Chunks(c),
                            !.pc = IF Chunks(c) = <<>> THEN "release" ELSE "moderate"]]
             /\ UNCHANGED stream
  /\ UNCHANGED <<world, loaded, history>>

(* performModeration asks about all chunks at once, and lets them pass if  *)
(* all are allowed.  Otherwise a document is refused; a stream is closed   *)
(* with an event that says so, or if a call has failed, refused.           *)
Answers == {"allow", "block", "error"}
Allowed(answers) == \A i \in DOMAIN answers : answers[i] = "allow"

Closed(f) == [f EXCEPT !.closed = TRUE, !.pc = "idle", !.chunks = <<>>]

Moderate(s) ==
  /\ At(s, "moderate")
  /\ \E answers \in [DOMAIN filter[s].chunks -> Answers] :
       LET f == filter[s]
           Given(a) == {i \in DOMAIN answers : answers[i] = a}
       IN /\ history' = [history EXCEPT ![s].passed = @ \union {f.chunks[i] : i \in Given("allow")},
                                        ![s].denied = (Given("allow") # DOMAIN answers)]
          /\ \/ /\ Allowed(answers)
                /\ filter' = [filter EXCEPT ![s] = [f EXCEPT !.pc = "release", !.chunks = <<>>]]
                /\ UNCHANGED stream
             \/ /\ ~Allowed(answers) /\ (Given("error") # {} \/ Mode(s) = "whole")
                /\ Refuse(s, "refused") /\ UNCHANGED filter
             \/ /\ ~Allowed(answers) /\ Given("block") # {} /\ Mode(s) # "whole"
                /\ filter' = [filter EXCEPT ![s] = Closed(f)]
                /\ stream' = [stream EXCEPT ![s].outcome = IF f.end THEN "closed" ELSE @]
  /\ UNCHANGED <<world, loaded>>

(* What is let through leaves: the body as a whole, or the events that     *)
(* were consumed.                                                          *)
Released(s) ==
  LET f == filter[s]
  IN IF Mode(s) # "whole" THEN f.parser.base + f.parser.parsedOffset
     ELSE IF f.body = NoBody THEN f.data ELSE f.body[stream[s].path]

Release(s) ==
  /\ At(s, "release")
  /\ LET f == filter[s]
     IN /\ filter' = [filter EXCEPT ![s] =
             [f EXCEPT !.parser = PruneParsedData(@), !.body = NoBody, !.data = 0, !.pc = "idle"]]
        /\ stream' = [stream EXCEPT ![s] =
             LET t == [@ EXCEPT !.sent[@.path] = Released(s)]
             IN IF f.end THEN After(t) ELSE t]
        /\ history' = IF stream[s].path = "response" THEN history
                      ELSE [history EXCEPT ![s].spare = f.content.currEvents + f.content.overlapEvents]
  /\ UNCHANGED <<world, loaded>>

Handler(s) == Parse(s) \/ Extract(s) \/ Char(s) \/ Counted(s) \/ Collect(s) \/ Moderate(s) \/ Release(s)
Next == \E s \in Streams : Receive(s) \/ ReceiveEnd(s) \/ Handler(s)
Spec == Init /\ [][Next]_vars

-----------------------------------------------------------------------------
(* The parser's offsets lie within its buffer, as do the chunk being built *)
(* and the boundaries of the content buffer; a handler that is not running *)
(* has read everything.                                                    *)
ParserOK(p) ==
  /\ p.parsedOffset <= p.lastParseEnd /\ p.lastParseEnd <= p.len
  /\ \A i \in DOMAIN p.boundaries : p.boundaries[i] = p.parsedOffset + Parts * i
  /\ p.lastParseEnd = p.parsedOffset + Parts * Len(p.boundaries)
ContentOK(c) ==
  /\ c.len = c.currStart + c.currChars /\ c.currChars < world.max
  /\ \A i \in DOMAIN c.boundaries : c.boundaries[i].start < c.boundaries[i].end /\ c.boundaries[i].end <= c.len
TypeOK ==
  /\ world \in Worlds
  /\ \A s \in Streams :
       /\ ParserOK(filter[s].parser) /\ ContentOK(filter[s].content)
       /\ filter[s].left <= filter[s].size
       /\ At(s, "idle") => filter[s].chunks = <<>> /\ filter[s].content.boundaries = <<>>
       /\ stream[s].arrived <= Size(Message(s))

(* What has left was moderated: each character of a document, or of an     *)
(* event, lies in a chunk that was allowed.  Unless another stream has     *)
(* replaced what the extractor held, or the request left an event counted  *)
(* that the response does not have ("Write the events that have passed     *)
(* moderation", sseDataHandler).                                           *)
Exact(s) == ~history[s].foreign /\ history[s].spare = 0
EventsSent(s, d) == stream[s].sent[d] \div Parts
In(p, c) == p.from < c /\ c <= p.to
ReleasedPassed ==
  \A s \in Streams, d \in Paths : Exact(s) =>
    \A i \in 1 .. EventsSent(s, d) :
      /\ i \in DOMAIN history[s].spans[d]
      /\ \A c \in history[s].spans[d][i].from + 1 .. history[s].spans[d][i].to :
           \E p \in history[s].passed : In(p, c)

(* It was moderated in context: any two characters not further apart than  *)
(* the overlap were in one chunk together, across events and across        *)
(* retrievals of chunks (startNewChunk).                                   *)
InContext ==
  \A s \in Streams, d \in Paths : Exact(s) /\ EventsSent(s, d) > 0 =>
    LET spans == history[s].spans[d]
        last == spans[EventsSent(s, d)].to
    IN \A a \in spans[1].from + 1 .. last, b \in 1 .. last :
         a <= b /\ b <= a + world.overlap => \E p \in history[s].passed : In(p, a) /\ In(p, b)

(* A message that no one refuses arrives as a whole.  Exceptions are one   *)
(* that ends with trailers, of which no handler hears; and, without an     *)
(* overlap, events without content that end a stream in the frame that     *)
(* fills its last chunk.  Only moderation and what is not JSON is refused, *)
(* or a response after a request that ended with trailers; only a spare    *)
(* count of the request lets Consume panic.                                *)
EmptyTail(s) ==
  LET spans == history[s].spans["response"]
      last == spans[Len(spans)]
  IN /\ world.overlap = 0 /\ last.from = last.to
     /\ last.to > spans[1].from /\ (last.to - spans[1].from) % world.max = 0
Delivered ==
  \A s \in Streams :
    /\ stream[s].outcome = "panic" => history[s].spare > 0
    /\ stream[s].outcome \in {"refused", "closed"} =>
         \/ history[s].denied
         \/ \E d \in Paths : ~world.message[s][d].valid
         \/ world.message[s]["request"].trailers
    /\ stream[s].outcome = "complete" =>
         \A d \in Paths :
           LET m == world.message[s][d]
           IN \/ stream[s].sent[d] = Size(m)
              \/ m.trailers /\ (m.events => world.streaming)
              \/ m.events /\ EmptyTail(s)

(* A stream is not held back longer than its chunks need: between frames   *)
(* an event that has arrived but not left ends in what is not moderated    *)
(* yet, or in what will be moderated once more.                            *)
HeldForCause ==
  \A s \in Streams :
    At(s, "idle") /\ ~filter[s].closed =>
      \A i \in (EventsSent(s, "response") + 1) .. Len(history[s].spans["response"]) :
        \A p \in history[s].passed : p.to <= history[s].spans["response"][i].to + world.overlap
=============================================================================
