----------------------- MODULE StreamModerationProofs -----------------------
(* Proofs about StreamModeration, for any streams, limits, overlaps and    *)
(* contents that satisfy its assumption.                                   *)
EXTENDS StreamModeration, TLAPS

-----------------------------------------------------------------------------
(* The inductive invariant.                                                *)
Segments == [start : Nat, end : Nat]
SegmentSeqs == Seq(Segments)
Buffers == [base : Nat, len : Nat, boundaries : SegmentSeqs, completed : Nat,
            currStart : Nat, currChars : Nat, currEvents : Nat, overlapEvents : Nat]
Offsets == Seq(Nat)
Parsers == [base : Nat, len : Nat, boundaries : Offsets, parsedOffset : Nat, lastParseEnd : Nat]
Chars == [from : Nat, to : Nat]
CharSeqs == Seq(Chars)
PCs == {"idle", "parse", "extract", "write", "collect", "moderate", "release"}
Outcomes == {"open", "refused", "panic", "closed", "complete"}
Filters == [pc : PCs, content : Buffers, parser : Parsers, body : [Paths -> Nat], data : Nat,
            closed : BOOLEAN, end : BOOLEAN, none : BOOLEAN, size : Nat, left : Nat, chunks : CharSeqs]
StreamStates == [path : Paths, arrived : Nat, outcome : Outcomes, sent : [Paths -> Nat]]
Histories == [spans : [Paths -> CharSeqs], passed : SUBSET Chars, denied : BOOLEAN,
              spare : Nat, foreign : BOOLEAN]
Document(doc) ==
  \E u \in Streams, d \in Paths :
    \E j \in DOMAIN world.message[u][d].contents : doc = <<u, d, j>>

Types ==
  /\ world \in Worlds
  /\ filter \in [Streams -> Filters]
  /\ stream \in [Streams -> StreamStates]
  /\ history \in [Streams -> Histories]
  /\ loaded = <<>> \/ Document(loaded)

(* A content buffer between two calls.                                     *)
HasChunks(c) == c.boundaries # <<>>
SegmentsOK(c) ==
  \A i \in DOMAIN c.boundaries :
    c.boundaries[i].start < c.boundaries[i].end /\ c.boundaries[i].end <= c.len
BufferOK(c, k) ==
  /\ c.len = c.currStart + c.currChars /\ c.currChars < k.max
  /\ SegmentsOK(c)
  /\ HasChunks(c) => c.currStart > 0
  /\ ~HasChunks(c) => c.completed = 0

(* Of the characters after lo and up to n, any two that are not further    *)
(* apart than the overlap, and so each of them, lie in a chunk of X.       *)
Joined(k, X, lo, n) ==
  \A a \in lo + 1 .. n, b \in lo + 1 .. n :
    a <= b /\ b <= a + k.overlap => \E p \in X : In(p, a) /\ In(p, b)
Ready(c) == {Chunks(c)[i] : i \in DOMAIN c.boundaries}
Submitted(s) == {filter[s].chunks[i] : i \in DOMAIN filter[s].chunks}
Behind(s) == history[s].passed \union Submitted(s)
Judged(s) == Behind(s) \union Ready(filter[s].content)

Active(s) == stream[s].outcome = "open" /\ ~filter[s].closed
Content(s) == BufferOK(filter[s].content, world)
Parser(s) == ParserOK(filter[s].parser)
Arrived(s) == stream[s].arrived <= Size(Message(s))

(* Where the contents of a message begin, and where the buffer ends.       *)
Start(s, d) ==
  LET first == history[s].spans["request"]
  IN IF d = "request" \/ first = <<>> THEN 0 ELSE first[1].to
End(s) == filter[s].content.base + filter[s].content.len
Spans(s) ==
  \A d \in Paths : \A i \in DOMAIN history[s].spans[d] :
    Start(s, d) <= history[s].spans[d][i].from /\ history[s].spans[d][i].to <= End(s)

(* Where the handler is.                                                   *)
Where(s) ==
  LET f == filter[s]
      c == f.content
      m == Mode(s)
  IN /\ f.left <= f.size
     /\ stream[s].outcome = "open" /\ f.closed => f.pc = "idle" /\ m # "whole"
     /\ f.pc \in {"idle", "moderate", "release"} => ~HasChunks(c)
     /\ f.pc # "moderate" => Submitted(s) = {}
     /\ f.pc = "parse" => m # "whole" /\ (f.none => ~HasChunks(c))
     /\ f.pc \in {"extract", "write"} /\ m # "whole" => ~f.none
     /\ f.pc = "write" => /\ Start(s, stream[s].path) + f.size <= End(s) + f.left
                          /\ f.left < f.size /\ c.currChars = 0 => HasChunks(c)
     /\ f.pc \in {"moderate", "release"} /\ f.end => c.currChars = 0
     /\ f.pc # "idle" /\ m # "stream" => f.end

(* A document: what is kept of it, and what will be let through.           *)
Whole(s) ==
  LET f == filter[s]
  IN Mode(s) = "whole" /\ stream[s].outcome = "open" =>
       /\ f.pc = "idle" => f.body[stream[s].path] = stream[s].arrived
       /\ f.pc # "idle" => Released(s) = Size(Message(s))
       /\ LET spans == history[s].spans[stream[s].path]
          IN IF f.pc \in {"collect", "moderate", "release"}
             THEN Len(spans) = 1 /\ spans[1].to = End(s)
             ELSE spans = <<>>

(* Nothing of the response has happened during the request.                *)
Request(s) ==
  LET f == filter[s]
  IN stream[s].path = "request" =>
       /\ f.parser = NewStreamEventParser /\ ~f.closed
       /\ f.body["response"] = 0
       /\ f.pc \in {"idle", "extract"} => f.content = NewContentBuffer
       /\ history[s].spans["response"] = <<>> /\ history[s].spare = 0
       /\ stream[s].sent = [d \in Paths |-> 0]

(* How many parts of events are consumed, and what counts as completed.    *)
Consumed(s) == filter[s].parser.base + filter[s].parser.parsedOffset
Counts(s) ==
  LET c == filter[s].content
  IN Consumed(s) + Parts * (c.completed + c.currEvents + c.overlapEvents)
       = Parts * Len(history[s].spans["response"])
Flushed(s) == filter[s].pc \in {"moderate", "release"} /\ filter[s].end

(* A streamed response: the parser is one event ahead of the content       *)
(* buffer while that one is written; every event is counted once; those    *)
(* that are completed lie in chunks.                                       *)
Streamed(s) ==
  LET f == filter[s]
      spans == history[s].spans["response"]
  IN Active(s) /\ stream[s].path = "response" /\ Mode(s) # "whole" =>
       /\ f.parser.base + f.parser.len = stream[s].arrived
       /\ f.parser.base + f.parser.lastParseEnd =
            Parts * (Len(spans) + IF f.pc \in {"extract", "write"} THEN 1 ELSE 0)
       /\ history[s].spare = 0 =>
            /\ ~Flushed(s) => Counts(s)
            /\ Consumed(s) + Parts * f.content.completed <= Parts * Len(spans)
            /\ \A i \in DOMAIN spans :
                 Parts * i <= Consumed(s) + Parts * f.content.completed =>
                   Joined(world, Judged(s), Start(s, "response"), spans[i].to)

(* What precedes the chunk being built is covered, and so is the overlap   *)
(* with which it begins, unless it is the first.                           *)
CoveredBy(k, X, lo, c) ==
  /\ lo <= c.base + c.currStart
  /\ c.base + c.currStart = lo \/ Joined(k, X, lo, c.base + c.currStart + k.overlap)
Covered(s) ==
  Active(s) =>
    IF Flushed(s) THEN Joined(world, Judged(s), Start(s, stream[s].path), End(s)) /\ Start(s, stream[s].path) <= End(s)
    ELSE CoveredBy(world, Judged(s), Start(s, stream[s].path), filter[s].content)

Sent(s) ==
  history[s].spare = 0 =>
    \A d \in Paths :
      LET spans == history[s].spans[d]
      IN /\ stream[s].sent[d] <= Parts * Len(spans)
         /\ \A i \in DOMAIN spans :
              Parts * i <= stream[s].sent[d] =>
                Joined(world, history[s].passed, Start(s, d), spans[i].to)

Good(s) ==
  /\ Content(s) /\ Parser(s) /\ Arrived(s) /\ Spans(s) /\ Where(s) /\ Whole(s)
  /\ Request(s) /\ Streamed(s) /\ Covered(s) /\ Sent(s)
IInv == Types /\ \A s \in Streams : Good(s)

-----------------------------------------------------------------------------
(* The content buffer.                                                     *)
(* A function on 1 .. n is a sequence.                                     *)
LEMMA FunctionIsSequence ==
  ASSUME NEW S, NEW n \in Nat, NEW f \in [1 .. n -> S]
  PROVE  f \in Seq(S) /\ Len(f) = n /\ DOMAIN f = 1 .. n
<1>1. DOMAIN f = 1 .. n /\ \A i \in 1 .. n : f[i] \in S
  OBVIOUS
<1>2. f \in Seq(S)
  OBVIOUS
<1> QED BY <1>1, <1>2

(* What Append yields.                                                     *)
LEMMA Appended ==
  ASSUME NEW S, NEW s \in Seq(S), NEW e \in S, NEW t, t = Append(s, e)
  PROVE  /\ t \in Seq(S) /\ t # <<>>
         /\ Len(s) \in Nat /\ Len(t) = Len(s) + 1
         /\ DOMAIN t = 1 .. Len(t) /\ DOMAIN s = 1 .. Len(s)
         /\ DOMAIN t = DOMAIN s \union {Len(t)}
         /\ t[Len(t)] = e /\ \A i \in DOMAIN s : t[i] = s[i]
<1>1. t \in Seq(S) /\ Len(t) = Len(s) + 1 /\ Len(s) \in Nat
  OBVIOUS
<1>2. DOMAIN t = 1 .. Len(t) /\ DOMAIN s = 1 .. Len(s)
  BY <1>1
<1> QED BY <1>1, <1>2

(* What the fields of a buffer are.                                        *)
LEMMA BufferFields ==
  ASSUME NEW c \in Buffers
  PROVE  /\ c.base \in Nat /\ c.len \in Nat /\ c.currStart \in Nat /\ c.currChars \in Nat
         /\ c.completed \in Nat /\ c.currEvents \in Nat /\ c.overlapEvents \in Nat
         /\ c.boundaries \in SegmentSeqs
BY DEF Buffers

(* Chunks cover no less when there are more of them, or less to cover.     *)
LEMMA JoinedWeaker ==
  ASSUME NEW k, NEW X, NEW Y, X \subseteq Y, NEW lo \in Nat, NEW low \in Nat, NEW n \in Nat, NEW m \in Nat,
         lo <= low, m <= n, Joined(k, X, lo, n)
  PROVE  Joined(k, Y, low, m)
BY DEF Joined

(* What ends before the current chunk is covered, with or without overlap. *)
LEMMA CoveredBefore ==
  ASSUME NEW k, k.overlap \in Nat, NEW X, NEW lo \in Nat, NEW c \in Buffers,
         CoveredBy(k, X, lo, c)
  PROVE  Joined(k, X, lo, c.base + c.currStart)
<1>1. c.base \in Nat /\ c.currStart \in Nat
  BY DEF Buffers
<1>2. CASE c.base + c.currStart = lo
  BY <1>1, <1>2 DEF Joined
<1>3. CASE Joined(k, X, lo, c.base + c.currStart + k.overlap)
  BY <1>1, <1>3, JoinedWeaker
<1> QED BY <1>2, <1>3 DEF CoveredBy

(* All events that a buffer counts.                                        *)
Total(c) == c.completed + c.currEvents + c.overlapEvents

(* What startNewChunk does to a chunk that is full, or to the last one: it *)
(* becomes a segment, and the next one begins with the overlap.            *)
LEMMA NewChunkFields ==
  ASSUME NEW k, k.max \in Nat, k.overlap \in Nat, k.overlap < k.max,
         NEW c \in Buffers, c.len = c.currStart + c.currChars, c.currChars > 0,
         NEW b \in BOOLEAN, b \/ c.currChars = k.max
  PROVE  LET d == startNewChunk(c, k, b)
         IN /\ d \in Buffers /\ d.base = c.base /\ d.len = c.len
            /\ d.boundaries = Append(c.boundaries, [start |-> c.currStart, end |-> c.len])
            /\ d.completed = c.completed + c.currEvents
            /\ d.currEvents = c.overlapEvents /\ d.overlapEvents = 0
            /\ d.currStart = (IF b THEN c.len ELSE c.len - k.overlap)
            /\ d.currChars = (IF b THEN 0 ELSE k.overlap)
<1> DEFINE d == startNewChunk(c, k, b)
           seg == [start |-> c.currStart, end |-> c.len]
           grown == Append(c.boundaries, seg)
           done == c.completed + c.currEvents
           first == IF b THEN c.len ELSE c.len - k.overlap
           chars == IF b THEN 0 ELSE k.overlap
<1>1. /\ c.base \in Nat /\ c.len \in Nat /\ c.currStart \in Nat /\ c.currChars \in Nat
      /\ c.completed \in Nat /\ c.currEvents \in Nat /\ c.overlapEvents \in Nat
  BY BufferFields
<1>2. first \in Nat /\ chars \in Nat /\ done \in Nat /\ 0 \in Nat
  <2>1. b \/ c.len >= k.overlap
    BY <1>1
  <2> QED BY <1>1, <2>1
<1>3. grown \in SegmentSeqs
  <2>1. c.boundaries \in SegmentSeqs
    BY BufferFields
  <2>2. seg \in Segments
    BY <1>1 DEF Segments
  <2> HIDE DEF seg
  <2> QED BY <2>1, <2>2, Appended DEF SegmentSeqs
<1>4. first = IF k.overlap > 0 /\ ~b THEN TailStartIndex(c, k.overlap) ELSE c.len
  BY <1>1 DEF TailStartIndex
<1>5. chars = IF k.overlap > 0 /\ ~b THEN k.overlap ELSE 0
  BY <1>1
<1>6. d = [c EXCEPT !.boundaries = grown, !.completed = done,
                    !.currEvents = c.overlapEvents, !.overlapEvents = 0,
                    !.currStart = first, !.currChars = chars]
  <2> HIDE DEF first, chars, grown, seg, done
  <2> QED BY <1>1, <1>4, <1>5 DEF startNewChunk, grown, seg, done
<1> HIDE DEF d, first, chars, grown, done
<1>7. /\ d \in Buffers /\ d.base = c.base /\ d.len = c.len
      /\ d.boundaries = grown /\ d.completed = done /\ d.currStart = first /\ d.currChars = chars
      /\ d.currEvents = c.overlapEvents /\ d.overlapEvents = 0
  <2>1. d \in Buffers
    BY <1>1, <1>2, <1>3, <1>6 DEF Buffers
  <2>2. d.base = c.base /\ d.len = c.len /\ d.boundaries = grown /\ d.completed = done
    BY <1>6 DEF Buffers
  <2>3. d.currStart = first /\ d.currChars = chars /\ d.currEvents = c.overlapEvents /\ d.overlapEvents = 0
    BY <1>6 DEF Buffers
  <2> QED BY <2>1, <2>2, <2>3
<1> QED BY <1>7 DEF d, first, chars, grown, done

(* The buffer stays well-formed, and no event is lost from the counts.     *)
LEMMA NewChunkOK ==
  ASSUME NEW k, k.max \in Nat, k.overlap \in Nat, k.overlap < k.max,
         NEW c \in Buffers, c.len = c.currStart + c.currChars, c.currChars > 0,
         NEW b \in BOOLEAN, b \/ c.currChars = k.max, SegmentsOK(c)
  PROVE  LET d == startNewChunk(c, k, b)
         IN BufferOK(d, k) /\ HasChunks(d) /\ Total(d) = Total(c)
<1> DEFINE d == startNewChunk(c, k, b)
           seg == [start |-> c.currStart, end |-> c.len]
<1>1. /\ c.base \in Nat /\ c.len \in Nat /\ c.currStart \in Nat /\ c.currChars \in Nat
      /\ c.completed \in Nat /\ c.currEvents \in Nat /\ c.overlapEvents \in Nat
  BY BufferFields
<1>2. /\ d.len = c.len /\ d.completed = c.completed + c.currEvents
      /\ d.currEvents = c.overlapEvents /\ d.overlapEvents = 0
      /\ d.currStart = (IF b THEN c.len ELSE c.len - k.overlap)
      /\ d.currChars = (IF b THEN 0 ELSE k.overlap)
  BY NewChunkFields
<1>3. d.boundaries = Append(c.boundaries, seg)
  BY NewChunkFields
<1> HIDE DEF d
<1>4. seg.start < seg.end /\ seg.end <= c.len /\ seg \in Segments
  BY <1>1 DEF Segments
<1>5. c.boundaries \in Seq(Segments)
  BY BufferFields DEF SegmentSeqs
<1> HIDE DEF seg
<1>6. /\ d.boundaries # <<>>
      /\ \A i \in DOMAIN d.boundaries :
           (i \in DOMAIN c.boundaries /\ d.boundaries[i] = c.boundaries[i]) \/ d.boundaries[i] = seg
  BY <1>3, <1>4, <1>5, Appended
<1>7. SegmentsOK(d)
  BY <1>2, <1>4, <1>6 DEF SegmentsOK
<1>8. HasChunks(d)
  BY <1>6 DEF HasChunks
<1>9. d.len = d.currStart + d.currChars /\ d.currChars < k.max /\ d.currStart > 0
  BY <1>1, <1>2
<1>10. Total(d) = Total(c)
  BY <1>1, <1>2 DEF Total
<1> QED BY <1>7, <1>8, <1>9, <1>10 DEF BufferOK, d

(* It covers what the buffer holds: two characters that are not both       *)
(* covered yet lie in the chunk being built.                               *)
LEMMA NewChunkCovers ==
  ASSUME NEW k, k.max \in Nat, k.overlap \in Nat, k.overlap < k.max,
         NEW c \in Buffers, c.len = c.currStart + c.currChars, c.currChars > 0,
         NEW b \in BOOLEAN, b \/ c.currChars = k.max,
         NEW X, NEW lo \in Nat, CoveredBy(k, X \union Ready(c), lo, c)
  PROVE  LET d == startNewChunk(c, k, b)
         IN /\ Ready(c) \subseteq Ready(d)
            /\ Joined(k, X \union Ready(d), lo, d.base + d.len)
            /\ lo <= d.base + d.len
<1> DEFINE d == startNewChunk(c, k, b)
           seg == [start |-> c.currStart, end |-> c.len]
           new == [from |-> c.base + c.currStart, to |-> c.base + c.len]
<1>1. c.base \in Nat /\ c.len \in Nat /\ c.currStart \in Nat /\ c.currChars \in Nat
  BY BufferFields
<1>2. d.base = c.base /\ d.len = c.len /\ d.boundaries = Append(c.boundaries, seg)
  BY NewChunkFields
<1> HIDE DEF d
<1>3. c.boundaries \in Seq(Segments) /\ seg \in Segments
  BY <1>1, BufferFields DEF SegmentSeqs, Segments
<1>4. Ready(c) \subseteq Ready(d) /\ new \in Ready(d)
  <2> HIDE DEF seg
  <2>1. /\ \A i \in DOMAIN c.boundaries : i \in DOMAIN d.boundaries /\ d.boundaries[i] = c.boundaries[i]
        /\ Len(d.boundaries) \in DOMAIN d.boundaries /\ d.boundaries[Len(d.boundaries)] = seg
    BY <1>2, <1>3, Appended
  <2>2. \A i \in DOMAIN c.boundaries : Chunks(d)[i] = Chunks(c)[i]
    BY <1>2, <2>1 DEF Chunks
  <2>3. Chunks(d)[Len(d.boundaries)] = new
    BY <1>2, <2>1 DEF Chunks, seg
  <2> HIDE DEF new
  <2> QED BY <2>1, <2>2, <2>3 DEF Ready
<1>5. new.from = c.base + c.currStart /\ new.to = c.base + c.len
  OBVIOUS
<1> HIDE DEF new
<1>6. Joined(k, X \union Ready(d), lo, d.base + d.len)
  <2> SUFFICES ASSUME NEW a \in lo + 1 .. c.base + c.len, NEW e \in lo + 1 .. c.base + c.len,
                      a <= e, e <= a + k.overlap
               PROVE  \E p \in X \union Ready(d) : In(p, a) /\ In(p, e)
    BY <1>2 DEF Joined
  <2>1. CASE a > c.base + c.currStart
    BY <1>1, <1>4, <1>5, <2>1 DEF In
  <2>2. CASE ~(a > c.base + c.currStart)
    <3>1. Joined(k, X \union Ready(c), lo, c.base + c.currStart + k.overlap)
      BY <1>1, <2>2 DEF CoveredBy
    <3>2. a \in lo + 1 .. c.base + c.currStart + k.overlap /\ e \in lo + 1 .. c.base + c.currStart + k.overlap
      BY <1>1, <2>2
    <3>3. \E p \in X \union Ready(c) : In(p, a) /\ In(p, e)
      BY <3>1, <3>2 DEF Joined
    <3> QED BY <3>3, <1>4
  <2> QED BY <2>1, <2>2
<1>7. lo <= d.base + d.len
  BY <1>1, <1>2 DEF CoveredBy
<1> QED BY <1>4, <1>6, <1>7 DEF d

(* A character more.                                                       *)
More(c) == [c EXCEPT !.len = @ + 1, !.currChars = @ + 1]

(* It leaves the rest of the buffer as it is.                              *)
LEMMA MoreFields ==
  ASSUME NEW c \in Buffers
  PROVE  /\ More(c) \in Buffers
         /\ More(c).len = c.len + 1 /\ More(c).currChars = c.currChars + 1
         /\ More(c).base = c.base /\ More(c).currStart = c.currStart
         /\ More(c).boundaries = c.boundaries /\ More(c).completed = c.completed
         /\ More(c).currEvents = c.currEvents /\ More(c).overlapEvents = c.overlapEvents
<1> DEFINE len == c.len + 1
           chars == c.currChars + 1
           d == More(c)
<1>1. len \in Nat /\ chars \in Nat
  BY BufferFields
<1>2. d = [c EXCEPT !.len = len, !.currChars = chars]
  BY DEF More
<1> HIDE DEF len, chars, d
<1>3. d \in Buffers /\ d.len = len /\ d.currChars = chars
  BY <1>1, <1>2 DEF Buffers
<1>4. /\ d.base = c.base /\ d.currStart = c.currStart
      /\ d.boundaries = c.boundaries /\ d.completed = c.completed
      /\ d.currEvents = c.currEvents /\ d.overlapEvents = c.overlapEvents
  BY <1>2 DEF Buffers
<1> QED BY <1>3, <1>4 DEF len, chars, d

(* It makes the chunk being built longer, and covers nothing less.         *)
LEMMA MoreOK ==
  ASSUME NEW k, NEW c \in Buffers, BufferOK(c, k), NEW X, NEW lo \in Nat,
         CoveredBy(k, X \union Ready(c), lo, c)
  PROVE  LET d == More(c)
         IN /\ d.len = d.currStart + d.currChars /\ d.currChars > 0 /\ SegmentsOK(d)
            /\ Ready(d) = Ready(c) /\ CoveredBy(k, X \union Ready(d), lo, d)
            /\ Total(d) = Total(c) /\ HasChunks(d) = HasChunks(c)
<1> DEFINE d == More(c)
<1>1. /\ c.base \in Nat /\ c.len \in Nat /\ c.currStart \in Nat /\ c.currChars \in Nat
      /\ c.completed \in Nat /\ c.currEvents \in Nat /\ c.overlapEvents \in Nat
  BY BufferFields
<1>2. /\ d.len = c.len + 1 /\ d.currChars = c.currChars + 1
      /\ d.base = c.base /\ d.currStart = c.currStart
      /\ d.boundaries = c.boundaries /\ d.completed = c.completed
      /\ d.currEvents = c.currEvents /\ d.overlapEvents = c.overlapEvents
  BY MoreFields
<1> HIDE DEF d
<1>3. d.len = d.currStart + d.currChars /\ d.currChars > 0
  BY <1>1, <1>2 DEF BufferOK
<1>4. SegmentsOK(d)
  <2> SUFFICES ASSUME NEW i \in DOMAIN c.boundaries
               PROVE  c.boundaries[i].start < c.boundaries[i].end /\ c.boundaries[i].end <= c.len + 1
    BY <1>2 DEF SegmentsOK
  <2>1. c.boundaries \in Seq(Segments)
    BY BufferFields DEF SegmentSeqs
  <2>2. c.boundaries[i] \in Segments
    BY <2>1
  <2>3. c.boundaries[i].start < c.boundaries[i].end /\ c.boundaries[i].end <= c.len
    BY DEF BufferOK, SegmentsOK
  <2>4. c.boundaries[i].end \in Nat
    BY <2>2 DEF Segments
  <2> QED BY <1>1, <2>3, <2>4
<1>5. Ready(d) = Ready(c) /\ HasChunks(d) = HasChunks(c)
  BY <1>2 DEF Ready, Chunks, HasChunks
<1>6. CoveredBy(k, X \union Ready(d), lo, d)
  BY <1>2, <1>5 DEF CoveredBy
<1>7. Total(d) = Total(c)
  BY <1>2 DEF Total
<1> QED BY <1>3, <1>4, <1>5, <1>6, <1>7 DEF d

(* Write keeps the buffer well-formed, and all that precedes the chunk     *)
(* being built covered; when it completes events, all there is.            *)
LEMMA WriteCharOK ==
  ASSUME NEW k, k.max \in Nat, k.overlap \in Nat, k.overlap < k.max,
         NEW c \in Buffers, BufferOK(c, k),
         NEW X, NEW lo \in Nat, CoveredBy(k, X \union Ready(c), lo, c)
  PROVE  LET d == WriteChar(c, k)
         IN /\ d \in Buffers /\ BufferOK(d, k)
            /\ d.base = c.base /\ d.len = c.len + 1
            /\ d.currChars = 0 => HasChunks(d)
            /\ CoveredBy(k, X \union Ready(d), lo, d)
            /\ Ready(c) \subseteq Ready(d)
            /\ Total(d) = Total(c)
            /\ d.completed = c.completed \/ Joined(k, X \union Ready(d), lo, d.base + d.len)
<1> DEFINE d == WriteChar(c, k)
           m == More(c)
<1>1. /\ c.base \in Nat /\ c.len \in Nat /\ c.currStart \in Nat /\ c.currChars \in Nat
      /\ c.completed \in Nat
  BY BufferFields
<1>2. m \in Buffers
  BY MoreFields
<1>3. /\ m.len = c.len + 1 /\ m.currChars = c.currChars + 1
      /\ m.base = c.base /\ m.currStart = c.currStart /\ m.completed = c.completed
  BY MoreFields
<1>4. m.len = m.currStart + m.currChars /\ m.currChars > 0 /\ SegmentsOK(m)
  BY MoreOK
<1>5. /\ Ready(m) = Ready(c) /\ CoveredBy(k, X \union Ready(m), lo, m)
      /\ Total(m) = Total(c) /\ HasChunks(m) = HasChunks(c)
  BY MoreOK
<1>6. d = IF m.currChars = k.max THEN startNewChunk(m, k, FALSE) ELSE m
  BY DEF WriteChar, More
<1>7. c.currChars < k.max /\ c.len = c.currStart + c.currChars
      /\ (HasChunks(c) => c.currStart > 0) /\ (~HasChunks(c) => c.completed = 0)
  BY DEF BufferOK
<1> HIDE DEF d, m
<1>8. CASE m.currChars = k.max
  <2>1. d = startNewChunk(m, k, FALSE)
    BY <1>6, <1>8
  <2>2. d \in Buffers /\ d.base = m.base /\ d.len = m.len
    BY <1>2, <1>4, <1>8, <2>1, NewChunkFields
  <2>3. d.currStart = m.len - k.overlap
    BY <1>2, <1>4, <1>8, <2>1, NewChunkFields
  <2>4. BufferOK(d, k) /\ HasChunks(d) /\ Total(d) = Total(m)
    BY <1>2, <1>4, <1>8, <2>1, NewChunkOK
  <2>5. /\ Ready(m) \subseteq Ready(d)
        /\ Joined(k, X \union Ready(d), lo, d.base + d.len)
        /\ lo <= d.base + d.len
    BY <1>2, <1>4, <1>5, <1>8, <2>1, NewChunkCovers
  <2>6. d.base + d.currStart + k.overlap = d.base + d.len
    BY <1>1, <1>3, <2>2, <2>3
  <2>7. lo <= d.base + d.currStart
    <3>1. lo <= m.base + m.currStart
      BY <1>5 DEF CoveredBy
    <3> QED BY <1>1, <1>3, <1>7, <1>8, <2>2, <2>3, <3>1
  <2>8. CoveredBy(k, X \union Ready(d), lo, d)
    BY <2>5, <2>6, <2>7 DEF CoveredBy
  <2> QED BY <1>3, <1>5, <2>2, <2>4, <2>5, <2>8 DEF d
<1>9. CASE m.currChars # k.max
  <2>1. d = m
    BY <1>6, <1>9
  <2>2. BufferOK(d, k)
    BY <1>1, <1>3, <1>4, <1>5, <1>7, <1>9, <2>1 DEF BufferOK
  <2>3. d.currChars # 0
    BY <1>1, <1>3, <2>1
  <2> QED BY <1>2, <1>3, <1>5, <2>1, <2>2, <2>3 DEF d
<1> QED BY <1>8, <1>9

(* Write counts its event once; as completed already only if the content   *)
(* has just filled a chunk that nothing of is repeated.                    *)
LEMMA CountEventOK ==
  ASSUME NEW k, k.max \in Nat, k.overlap \in Nat,
         NEW c \in Buffers, BufferOK(c, k), NEW n \in Nat,
         n > 0 /\ c.currChars = 0 => HasChunks(c)
  PROVE  LET d == CountEvent(c, k, n)
         IN /\ d \in Buffers /\ BufferOK(d, k)
            /\ d.base = c.base /\ d.len = c.len /\ d.currStart = c.currStart
            /\ d.currChars = c.currChars /\ d.boundaries = c.boundaries
            /\ Total(d) = Total(c) + 1
            /\ d.completed = c.completed \/ (c.currChars = 0 /\ d.completed = c.completed + 1)
<1> DEFINE d == CountEvent(c, k, n)
           done == c.completed + 1
           ends == c.currEvents + 1
           again == c.overlapEvents + 1
<1>1. /\ c.base \in Nat /\ c.len \in Nat /\ c.currStart \in Nat /\ c.currChars \in Nat
      /\ c.completed \in Nat /\ c.currEvents \in Nat /\ c.overlapEvents \in Nat
  BY BufferFields
<1>2. done \in Nat /\ ends \in Nat /\ again \in Nat
  BY <1>1
<1>3. SegmentsOK(c) /\ c.len = c.currStart + c.currChars /\ c.currChars < k.max
      /\ (HasChunks(c) => c.currStart > 0) /\ (~HasChunks(c) => c.completed = 0)
  BY DEF BufferOK
<1>4. \/ n > 0 /\ c.currChars = 0 /\ d = [c EXCEPT !.completed = done]
      \/ d = [c EXCEPT !.overlapEvents = again]
      \/ d = [c EXCEPT !.currEvents = ends]
  BY <1>1 DEF CountEvent
<1> HIDE DEF d, done, ends, again
<1>5. d \in Buffers
  BY <1>2, <1>4 DEF Buffers
<1>6. /\ d.base = c.base /\ d.len = c.len /\ d.currStart = c.currStart
      /\ d.currChars = c.currChars /\ d.boundaries = c.boundaries
  BY <1>4 DEF Buffers
<1>7. \/ /\ n > 0 /\ c.currChars = 0
         /\ d.completed = done /\ d.currEvents = c.currEvents /\ d.overlapEvents = c.overlapEvents
      \/ d.completed = c.completed /\ d.currEvents = c.currEvents /\ d.overlapEvents = again
      \/ d.completed = c.completed /\ d.currEvents = ends /\ d.overlapEvents = c.overlapEvents
  BY <1>4 DEF Buffers
<1>8. SegmentsOK(d) /\ HasChunks(d) = HasChunks(c)
  BY <1>3, <1>6 DEF SegmentsOK, HasChunks
<1>9. BufferOK(d, k)
  BY <1>3, <1>6, <1>7, <1>8 DEF BufferOK
<1>10. Total(d) = Total(c) + 1
  BY <1>1, <1>7 DEF Total, done, ends, again
<1> QED BY <1>5, <1>6, <1>7, <1>9, <1>10 DEF d, done

(* Flush puts what is left into a chunk.                                   *)
LEMMA FlushOK ==
  ASSUME NEW k, k.max \in Nat, k.overlap \in Nat, k.overlap < k.max,
         NEW c \in Buffers, BufferOK(c, k),
         NEW X, NEW lo \in Nat, CoveredBy(k, X \union Ready(c), lo, c)
  PROVE  LET d == Flush(c, k)
         IN /\ d \in Buffers /\ BufferOK(d, k)
            /\ d.base = c.base /\ d.len = c.len /\ d.currChars = 0
            /\ Ready(c) \subseteq Ready(d)
            /\ Joined(k, X \union Ready(d), lo, d.base + d.len)
            /\ lo <= d.base + d.len
            /\ Total(d) = Total(c) \/ (HasChunks(d) /\ d.completed = Total(c))
<1> DEFINE d == Flush(c, k)
           ends == c.currEvents + c.overlapEvents
           e == [c EXCEPT !.currEvents = ends]
<1>1. /\ c.base \in Nat /\ c.len \in Nat /\ c.currStart \in Nat /\ c.currChars \in Nat
      /\ c.completed \in Nat /\ c.currEvents \in Nat /\ c.overlapEvents \in Nat
  BY BufferFields
<1>2. SegmentsOK(c) /\ c.len = c.currStart + c.currChars /\ c.currChars < k.max
  BY DEF BufferOK
<1>3. d = IF c.currChars = 0 THEN c ELSE startNewChunk(e, k, TRUE)
  BY DEF Flush
<1>4. ends \in Nat
  BY <1>1
<1> HIDE DEF d
<1>5. CASE c.currChars = 0
  <2>1. d = c
    BY <1>3, <1>5
  <2>2. Joined(k, X \union Ready(c), lo, c.base + c.currStart)
    BY CoveredBefore
  <2>3. c.base + c.currStart = c.base + c.len
    BY <1>1, <1>2, <1>5
  <2>4. lo <= c.base + c.len
    BY <1>1, <1>2 DEF CoveredBy
  <2> QED BY <1>5, <2>1, <2>2, <2>3, <2>4 DEF d
<1>6. CASE c.currChars # 0
  <2> HIDE DEF ends
  <2>1. e \in Buffers
    BY <1>4 DEF Buffers
  <2>2. /\ e.base = c.base /\ e.len = c.len /\ e.currStart = c.currStart
        /\ e.currChars = c.currChars /\ e.boundaries = c.boundaries /\ e.completed = c.completed
        /\ e.currEvents = ends /\ e.overlapEvents = c.overlapEvents
    BY DEF Buffers
  <2>3. d = startNewChunk(e, k, TRUE)
    BY <1>3, <1>6
  <2> HIDE DEF e
  <2>4. e.currChars > 0 /\ e.len = e.currStart + e.currChars
    BY <1>1, <1>2, <1>6, <2>2
  <2>5. SegmentsOK(e) /\ Ready(e) = Ready(c)
    BY <1>2, <2>2 DEF SegmentsOK, Ready, Chunks
  <2>6. CoveredBy(k, X \union Ready(e), lo, e)
    BY <2>2, <2>5 DEF CoveredBy
  <2>7. /\ d \in Buffers /\ d.base = e.base /\ d.len = e.len
        /\ d.completed = e.completed + e.currEvents /\ d.currChars = 0
    BY <2>1, <2>3, <2>4, NewChunkFields
  <2>8. BufferOK(d, k) /\ HasChunks(d)
    BY <2>1, <2>3, <2>4, <2>5, NewChunkOK
  <2>9. /\ Ready(e) \subseteq Ready(d)
        /\ Joined(k, X \union Ready(d), lo, d.base + d.len)
        /\ lo <= d.base + d.len
    BY <2>1, <2>3, <2>4, <2>6, NewChunkCovers
  <2>10. d.completed = Total(c)
    BY <1>1, <2>2, <2>7 DEF Total, ends
  <2> QED BY <2>2, <2>5, <2>7, <2>8, <2>9, <2>10 DEF d
<1> QED BY <1>5, <1>6

(* GetCompletedResult returns all chunks, the events it returns are no     *)
(* longer counted, and nothing but what is covered is dropped.             *)
LEMMA RetrievedOK ==
  ASSUME NEW k, k.max \in Nat, NEW c \in Buffers, BufferOK(c, k)
  PROVE  LET d == Retrieved(c)
         IN /\ d \in Buffers /\ BufferOK(d, k) /\ ~HasChunks(d)
            /\ d.base + d.len = c.base + c.len /\ d.base + d.currStart = c.base + c.currStart
            /\ d.currChars = c.currChars /\ d.completed = 0
            /\ CompletedEvents(c) \in Nat
            /\ Total(d) + CompletedEvents(c) = Total(c)
            /\ CompletedEvents(c) <= c.completed \/ (c.currChars = 0 /\ ~HasChunks(c))
<1> DEFINE d == Retrieved(c)
           n == CompletedEvents(c)
<1>1. /\ c.base \in Nat /\ c.len \in Nat /\ c.currStart \in Nat /\ c.currChars \in Nat
      /\ c.completed \in Nat /\ c.currEvents \in Nat /\ c.overlapEvents \in Nat
  BY BufferFields
<1>2. SegmentsOK(c) /\ c.len = c.currStart + c.currChars /\ c.currChars < k.max
      /\ (HasChunks(c) => c.currStart > 0) /\ (~HasChunks(c) => c.completed = 0)
  BY DEF BufferOK
<1>3. CASE ~HasChunks(c) /\ c.currChars = 0
  <2>1. d = [c EXCEPT !.currEvents = 0] /\ n = c.currEvents
    BY <1>3 DEF Retrieved, CompletedEvents, HasChunks
  <2> HIDE DEF d, n
  <2>2. d \in Buffers
    BY <2>1 DEF Buffers
  <2>3. /\ d.base = c.base /\ d.len = c.len /\ d.boundaries = c.boundaries /\ d.completed = c.completed
        /\ d.currStart = c.currStart /\ d.currChars = c.currChars /\ d.currEvents = 0
        /\ d.overlapEvents = c.overlapEvents
    BY <2>1 DEF Buffers
  <2>4. SegmentsOK(d) /\ ~HasChunks(d)
    BY <1>2, <1>3, <2>3 DEF SegmentsOK, HasChunks
  <2>5. BufferOK(d, k)
    BY <1>2, <1>3, <2>3, <2>4 DEF BufferOK
  <2>6. Total(d) + n = Total(c)
    BY <1>1, <2>1, <2>3 DEF Total
  <2>7. d.completed = 0 /\ n \in Nat
    BY <1>1, <1>2, <1>3, <2>1, <2>3
  <2> QED BY <1>3, <2>2, <2>3, <2>4, <2>5, <2>6, <2>7 DEF d, n
<1>4. CASE ~HasChunks(c) /\ c.currChars # 0
  <2>1. d = c /\ n = 0
    BY <1>4 DEF Retrieved, CompletedEvents, HasChunks
  <2> HIDE DEF d, n
  <2>2. Total(d) + n = Total(c)
    BY <1>1, <2>1 DEF Total
  <2>3. n \in Nat /\ n <= c.completed
    BY <1>1, <2>1
  <2> QED BY <1>2, <1>4, <2>1, <2>2, <2>3 DEF d, n
<1>5. CASE HasChunks(c)
  <2> DEFINE base == c.base + c.currStart
             len == c.len - c.currStart
  <2>1. base \in Nat /\ len \in Nat /\ len = c.currChars
    BY <1>1, <1>2
  <2>2. d = [c EXCEPT !.base = base, !.len = len, !.boundaries = <<>>, !.completed = 0, !.currStart = 0]
        /\ n = c.completed
    BY <1>1, <1>2, <1>5 DEF Retrieved, CompletedEvents, HasChunks
  <2>3. <<>> \in SegmentSeqs
    BY DEF SegmentSeqs
  <2> HIDE DEF d, n, base, len
  <2>4. d \in Buffers
    BY <2>1, <2>2, <2>3 DEF Buffers
  <2>5. /\ d.base = base /\ d.len = len /\ d.completed = 0
        /\ d.currStart = 0 /\ d.currChars = c.currChars /\ d.currEvents = c.currEvents
        /\ d.overlapEvents = c.overlapEvents
    BY <2>2 DEF Buffers
  <2>6. d.boundaries = <<>>
    BY <2>2 DEF Buffers
  <2>7. SegmentsOK(d) /\ ~HasChunks(d)
    BY <2>6 DEF SegmentsOK, HasChunks
  <2>8. d.len = d.currStart + d.currChars
    BY <1>1, <2>1, <2>5
  <2>9. BufferOK(d, k)
    BY <1>2, <2>5, <2>7, <2>8 DEF BufferOK
  <2>10. Total(d) + n = Total(c) /\ n \in Nat /\ n <= c.completed
    BY <1>1, <2>2, <2>5 DEF Total
  <2>11. d.base + d.len = c.base + c.len /\ d.base + d.currStart = c.base + c.currStart
    BY <1>1, <2>1, <2>5 DEF base, len
  <2> QED BY <2>4, <2>5, <2>7, <2>9, <2>10, <2>11 DEF d, n
<1> QED BY <1>3, <1>4, <1>5

-----------------------------------------------------------------------------
(* The parser.  Its operations keep its offsets within its buffer.         *)
LEMMA ParserFields ==
  ASSUME NEW p \in Parsers
  PROVE  /\ p.base \in Nat /\ p.len \in Nat /\ p.parsedOffset \in Nat /\ p.lastParseEnd \in Nat
         /\ p.boundaries \in Offsets
BY DEF Parsers

(* More data is only appended.                                             *)
LEMMA AppendDataOK ==
  ASSUME NEW p \in Parsers, ParserOK(p), NEW n \in Nat
  PROVE  LET q == AppendData(p, n)
         IN /\ q \in Parsers /\ ParserOK(q)
            /\ q.base = p.base /\ q.len = p.len + n
            /\ q.parsedOffset = p.parsedOffset /\ q.lastParseEnd = p.lastParseEnd
<1> DEFINE q == AppendData(p, n)
           len == p.len + n
<1>1. p.len \in Nat /\ p.parsedOffset \in Nat /\ p.lastParseEnd \in Nat /\ len \in Nat
  BY ParserFields
<1>2. q = [p EXCEPT !.len = len]
  BY DEF AppendData
<1> HIDE DEF q, len
<1>3. q \in Parsers
  BY <1>1, <1>2 DEF Parsers
<1>4. /\ q.base = p.base /\ q.len = len /\ q.boundaries = p.boundaries
      /\ q.parsedOffset = p.parsedOffset /\ q.lastParseEnd = p.lastParseEnd
  BY <1>2 DEF Parsers
<1>5. ParserOK(q)
  <2>1. q.parsedOffset <= q.lastParseEnd /\ q.lastParseEnd <= q.len
    BY <1>1, <1>4 DEF ParserOK, len
  <2> QED BY <1>4, <2>1 DEF ParserOK
<1> QED BY <1>3, <1>4, <1>5 DEF q, len

(* An event that is found ends where the next one is looked for.           *)
LEMMA TryParseOK ==
  ASSUME NEW p \in Parsers, ParserOK(p), Parsable(p)
  PROVE  LET q == TryParse(p)
         IN /\ q \in Parsers /\ ParserOK(q)
            /\ q.base = p.base /\ q.len = p.len
            /\ q.parsedOffset = p.parsedOffset /\ q.lastParseEnd = p.lastParseEnd + Parts
<1> DEFINE q == TryParse(p)
           last == p.lastParseEnd + Parts
           grown == Append(p.boundaries, last)
<1>1. p.len \in Nat /\ p.parsedOffset \in Nat /\ p.lastParseEnd \in Nat /\ last \in Nat
      /\ last <= p.len
  BY ParserFields DEF Parts, Parsable
<1>2. p.boundaries \in Seq(Nat)
  BY ParserFields DEF Offsets
<1>3. q = [p EXCEPT !.lastParseEnd = last, !.boundaries = grown]
  BY DEF TryParse
<1> HIDE DEF q, last
<1>4. /\ grown \in Seq(Nat) /\ Len(p.boundaries) \in Nat /\ Len(grown) = Len(p.boundaries) + 1
      /\ \A i \in DOMAIN grown : i \in DOMAIN p.boundaries \/ i = Len(grown)
      /\ grown[Len(grown)] = last /\ \A i \in DOMAIN p.boundaries : grown[i] = p.boundaries[i]
  BY <1>1, <1>2, Appended
<1>5. grown \in Offsets
  BY <1>4 DEF Offsets
<1> HIDE DEF grown
<1>6. q \in Parsers
  BY <1>1, <1>3, <1>5 DEF Parsers
<1>7. /\ q.base = p.base /\ q.len = p.len /\ q.boundaries = grown
      /\ q.parsedOffset = p.parsedOffset /\ q.lastParseEnd = last
  BY <1>3 DEF Parsers
<1>8. p.parsedOffset <= p.lastParseEnd /\ p.lastParseEnd = p.parsedOffset + Parts * Len(p.boundaries)
      /\ \A i \in DOMAIN p.boundaries : p.boundaries[i] = p.parsedOffset + Parts * i
  BY DEF ParserOK
<1>9. last = p.parsedOffset + Parts * Len(grown)
  BY <1>1, <1>4, <1>8 DEF last, Parts
<1>10. ParserOK(q)
  <2>1. q.parsedOffset <= q.lastParseEnd /\ q.lastParseEnd <= q.len
    BY <1>1, <1>7, <1>8 DEF last, Parts
  <2>2. \A i \in DOMAIN grown : grown[i] = p.parsedOffset + Parts * i
    BY <1>4, <1>8, <1>9
  <2> QED BY <1>7, <1>9, <2>1, <2>2 DEF ParserOK
<1> QED BY <1>6, <1>7, <1>10 DEF q, last

(* Consume passes over events that were found, and over no others.         *)
LEMMA ConsumeOK ==
  ASSUME NEW p \in Parsers, ParserOK(p), NEW n \in Nat, Consumable(p, n)
  PROVE  LET q == Consume(p, n)
         IN /\ q \in Parsers /\ ParserOK(q)
            /\ q.base = p.base /\ q.len = p.len /\ q.lastParseEnd = p.lastParseEnd
            /\ p.parsedOffset + Parts * n <= p.lastParseEnd => q.parsedOffset = p.parsedOffset + Parts * n
<1> DEFINE q == Consume(p, n)
           m == IF n > Len(p.boundaries) THEN Len(p.boundaries) ELSE n
           first == p.boundaries[m]
           rest == SubSeq(p.boundaries, m + 1, Len(p.boundaries))
<1>1. p.len \in Nat /\ p.parsedOffset \in Nat /\ p.lastParseEnd \in Nat
  BY ParserFields
<1>2. p.boundaries \in Seq(Nat) /\ Len(p.boundaries) \in Nat
  BY ParserFields DEF Offsets
<1>3. p.parsedOffset <= p.lastParseEnd /\ p.lastParseEnd = p.parsedOffset + Parts * Len(p.boundaries)
      /\ p.lastParseEnd <= p.len
      /\ \A i \in DOMAIN p.boundaries : p.boundaries[i] = p.parsedOffset + Parts * i
  BY DEF ParserOK
<1>4. CASE n = 0
  BY <1>1, <1>4 DEF Consume, Parts
<1>5. CASE n # 0
  <2>1. q = [p EXCEPT !.parsedOffset = first, !.boundaries = rest]
    BY <1>5 DEF Consume
  <2>2. Len(p.boundaries) # 0
    BY <1>2, <1>5 DEF Consumable
  <2>3. m \in 1 .. Len(p.boundaries)
    BY <1>2, <1>5, <2>2
  <2>4. p.parsedOffset + Parts * n <= p.lastParseEnd => m = n
    <3>1. n > Len(p.boundaries) => ~(p.parsedOffset + Parts * n <= p.lastParseEnd)
      <4>1. Len(p.boundaries) \in Nat
        BY <1>2
      <4> QED BY <1>1, <1>3, <4>1 DEF Parts
    <3> QED BY <3>1
  <2> HIDE DEF q, m
  <2>5. first = p.parsedOffset + Parts * m
    BY <1>2, <1>3, <2>3
  <2>6. first \in Nat /\ first <= p.lastParseEnd /\ p.parsedOffset <= first
    <3>1. Len(p.boundaries) \in Nat
      BY <1>2
    <3> HIDE DEF first
    <3> QED BY <1>1, <1>3, <2>3, <2>5, <3>1 DEF Parts
  <2>7. /\ rest \in Seq(Nat) /\ Len(rest) = Len(p.boundaries) - m
        /\ \A i \in DOMAIN rest : i \in Nat /\ m + i \in DOMAIN p.boundaries /\ rest[i] = p.boundaries[m + i]
    BY <1>2, <2>3
  <2>8. rest \in Offsets
    BY <2>7 DEF Offsets
  <2>9. \A i \in DOMAIN rest : rest[i] = first + Parts * i
    <3> SUFFICES ASSUME NEW i \in DOMAIN rest
                 PROVE  rest[i] = first + Parts * i
      OBVIOUS
    <3>1. i \in Nat /\ rest[i] = p.parsedOffset + Parts * (m + i)
      BY <1>3, <2>7
    <3> HIDE DEF rest, first
    <3>2. m \in Nat
      BY <1>2, <2>3
    <3> QED BY <1>1, <2>5, <3>1, <3>2 DEF Parts
  <2>10. p.lastParseEnd = first + Parts * Len(rest)
    <3>1. Len(p.boundaries) \in Nat /\ Len(rest) = Len(p.boundaries) - m /\ m \in Nat
      BY <1>2, <2>3, <2>7
    <3> HIDE DEF rest, first
    <3> QED BY <1>1, <1>3, <2>5, <3>1 DEF Parts
  <2> HIDE DEF first, rest
  <2>11. q \in Parsers
    BY <2>1, <2>6, <2>8 DEF Parsers
  <2>12. /\ q.base = p.base /\ q.len = p.len /\ q.lastParseEnd = p.lastParseEnd
         /\ q.parsedOffset = first /\ q.boundaries = rest
    BY <2>1 DEF Parsers
  <2>13. ParserOK(q)
    BY <1>3, <2>6, <2>9, <2>10, <2>12 DEF ParserOK
  <2> QED BY <2>4, <2>5, <2>11, <2>12, <2>13 DEF q
<1> QED BY <1>4, <1>5

(* PruneParsedData moves offsets, and changes nothing they stand for.      *)
LEMMA PruneOK ==
  ASSUME NEW p \in Parsers, ParserOK(p)
  PROVE  LET q == PruneParsedData(p)
         IN /\ q \in Parsers /\ ParserOK(q)
            /\ q.base + q.len = p.base + p.len
            /\ q.base + q.parsedOffset = p.base + p.parsedOffset
            /\ q.base + q.lastParseEnd = p.base + p.lastParseEnd
<1> DEFINE q == PruneParsedData(p)
           base == p.base + p.parsedOffset
           len == p.len - p.parsedOffset
           last == p.lastParseEnd - p.parsedOffset
           moved == [i \in DOMAIN p.boundaries |-> p.boundaries[i] - p.parsedOffset]
<1>1. p.base \in Nat /\ p.len \in Nat /\ p.parsedOffset \in Nat /\ p.lastParseEnd \in Nat
  BY ParserFields
<1>2. p.boundaries \in Seq(Nat) /\ Len(p.boundaries) \in Nat
  BY ParserFields DEF Offsets
<1>3. p.parsedOffset <= p.lastParseEnd /\ p.lastParseEnd = p.parsedOffset + Parts * Len(p.boundaries)
      /\ p.lastParseEnd <= p.len
      /\ \A i \in DOMAIN p.boundaries : p.boundaries[i] = p.parsedOffset + Parts * i
  BY DEF ParserOK
<1>4. base \in Nat /\ len \in Nat /\ last \in Nat /\ last <= len
  BY <1>1, <1>3
<1>5. \A i \in DOMAIN p.boundaries : i \in Nat /\ p.boundaries[i] - p.parsedOffset = Parts * i
  <2> SUFFICES ASSUME NEW i \in DOMAIN p.boundaries
               PROVE  i \in Nat /\ p.boundaries[i] - p.parsedOffset = Parts * i
    OBVIOUS
  <2>1. i \in Nat
    BY <1>2
  <2>2. p.boundaries[i] = p.parsedOffset + Parts * i
    BY <1>3
  <2> QED BY <1>1, <2>1, <2>2 DEF Parts
<1>6. \A i \in DOMAIN moved : moved[i] = Parts * i /\ moved[i] \in Nat
  BY <1>5 DEF Parts
<1>7. moved \in Seq(Nat) /\ Len(moved) = Len(p.boundaries)
  <2>1. DOMAIN moved = 1 .. Len(p.boundaries)
    BY <1>2
  <2>2. \A i \in 1 .. Len(p.boundaries) : moved[i] \in Nat
    BY <1>6, <2>1
  <2>3. moved \in [1 .. Len(p.boundaries) -> Nat]
    BY <2>1, <2>2
  <2> HIDE DEF moved
  <2> QED BY <1>2, <2>3, FunctionIsSequence
<1>8. moved \in Offsets
  BY <1>7 DEF Offsets
<1>9. q = [p EXCEPT !.base = base, !.len = len, !.boundaries = moved,
                    !.lastParseEnd = last, !.parsedOffset = 0]
  BY DEF PruneParsedData, Parsers
<1>10. last = Parts * Len(moved)
  <2>1. Len(p.boundaries) \in Nat /\ Len(moved) = Len(p.boundaries)
    BY <1>2, <1>7
  <2> HIDE DEF moved
  <2> QED BY <1>1, <1>3, <2>1 DEF Parts
<1> HIDE DEF q, base, len, last, moved
<1>11. q \in Parsers
  BY <1>4, <1>8, <1>9 DEF Parsers
<1>12. /\ q.base = base /\ q.len = len /\ q.lastParseEnd = last /\ q.parsedOffset = 0
       /\ q.boundaries = moved
  BY <1>9 DEF Parsers
<1>13. ParserOK(q)
  <2>1. last = 0 + Parts * Len(moved) /\ 0 <= last
    BY <1>4, <1>10
  <2>2. \A i \in DOMAIN moved : moved[i] = 0 + Parts * i
    BY <1>6
  <2> QED BY <1>4, <1>12, <2>1, <2>2 DEF ParserOK
<1>14. /\ q.base + q.len = p.base + p.len
       /\ q.base + q.parsedOffset = p.base + p.parsedOffset
       /\ q.base + q.lastParseEnd = p.base + p.lastParseEnd
  BY <1>1, <1>4, <1>12 DEF base, len, last
<1> QED BY <1>11, <1>13, <1>14 DEF q

-----------------------------------------------------------------------------
(* What the world is.                                                      *)
LEMMA WorldFields ==
  ASSUME Types
  PROVE  /\ world.max \in Nat /\ world.max > 0 /\ world.overlap \in Nat /\ world.overlap < world.max
         /\ world.streaming \in BOOLEAN
BY WorldsAssumption DEF Types

(* What a message is.                                                      *)
LEMMA MessageFields ==
  ASSUME Types, NEW s \in Streams
  PROVE  /\ Message(s).contents \in Seq(Nat) /\ Len(Message(s).contents) \in Nat
         /\ Message(s).events \in BOOLEAN
         /\ ~Message(s).events => Len(Message(s).contents) <= 1
         /\ Message(s).events => stream[s].path = "response"
         /\ Mode(s) = "whole" <=> ~Message(s).events
         /\ Mode(s) \in {"whole", "stream", "wait"}
         /\ Size(Message(s)) = Parts * Len(Message(s).contents) /\ Size(Message(s)) \in Nat
<1>1. stream[s].path \in Paths
  BY DEF Types, StreamStates
<1>2. /\ Message(s).contents \in Seq(Nat)
      /\ Message(s).events \in BOOLEAN
      /\ ~Message(s).events => Len(Message(s).contents) <= 1
      /\ Message(s).events => stream[s].path = "response"
  BY <1>1, WorldsAssumption DEF Types, Message
<1>3. Len(Message(s).contents) \in Nat
  BY <1>2
<1>4. /\ Mode(s) = "whole" <=> ~Message(s).events
      /\ Mode(s) \in {"whole", "stream", "wait"}
  BY <1>2, WorldFields DEF Mode
<1>5. Size(Message(s)) = Parts * Len(Message(s).contents) /\ Size(Message(s)) \in Nat
  BY <1>3 DEF Size, Parts
<1> QED BY <1>2, <1>3, <1>4, <1>5

(* What the record of a filter holds.                                      *)
LEMMA FilterFields ==
  ASSUME Types, NEW s \in Streams
  PROVE  /\ filter[s].pc \in PCs /\ filter[s].content \in Buffers /\ filter[s].parser \in Parsers
         /\ filter[s].body \in [Paths -> Nat] /\ filter[s].data \in Nat
         /\ filter[s].closed \in BOOLEAN /\ filter[s].end \in BOOLEAN /\ filter[s].none \in BOOLEAN
         /\ filter[s].size \in Nat /\ filter[s].left \in Nat /\ filter[s].chunks \in CharSeqs
BY DEF Types, Filters

(* What the record of a stream holds.                                      *)
LEMMA StreamFields ==
  ASSUME Types, NEW s \in Streams
  PROVE  /\ stream[s].path \in Paths /\ stream[s].arrived \in Nat /\ stream[s].outcome \in Outcomes
         /\ stream[s].sent \in [Paths -> Nat]
BY DEF Types, StreamStates

(* What the record of a history holds.                                     *)
LEMMA HistoryFields ==
  ASSUME Types, NEW s \in Streams
  PROVE  /\ history[s].spans \in [Paths -> CharSeqs] /\ history[s].passed \in SUBSET Chars
         /\ history[s].denied \in BOOLEAN /\ history[s].spare \in Nat /\ history[s].foreign \in BOOLEAN
BY DEF Types, Histories

(* A stream that takes no step stays as it is.                             *)
LEMMA Unmoved ==
  ASSUME NEW s \in Streams, Good(s), world' = world,
         filter'[s] = filter[s], stream'[s] = stream[s], history'[s] = history[s]
  PROVE  Good(s)'
<1>1. Message(s)' = Message(s) /\ Mode(s)' = Mode(s) /\ End(s)' = End(s) /\ Active(s)' = Active(s)
  BY DEF Message, Mode, End, Active
<1>2. Judged(s)' = Judged(s) /\ Submitted(s)' = Submitted(s)
  BY DEF Judged, Behind, Submitted
<1>3. \A d : Start(s, d)' = Start(s, d)
  BY DEF Start
<1>4. Content(s)' /\ Parser(s)' /\ Arrived(s)'
  BY <1>1 DEF Good, Content, Parser, Arrived
<1>5. Spans(s)'
  BY <1>1, <1>3 DEF Good, Spans
<1>6. Where(s)'
  BY <1>1, <1>2, <1>3 DEF Good, Where
<1>7. Whole(s)'
  <2>1. Released(s)' = Released(s)
    BY <1>1 DEF Released
  <2> QED BY <1>1, <2>1 DEF Good, Whole
<1>8. Request(s)'
  BY DEF Good, Request
<1>9. Streamed(s)'
  <2>1. Consumed(s)' = Consumed(s) /\ Flushed(s)' = Flushed(s) /\ Counts(s)' = Counts(s)
    BY DEF Consumed, Flushed, Counts
  <2> QED BY <1>1, <1>2, <1>3, <2>1 DEF Good, Streamed
<1>10. Covered(s)'
  <2>1. Flushed(s)' = Flushed(s)
    BY DEF Flushed
  <2> QED BY <1>1, <1>2, <1>3, <2>1 DEF Good, Covered
<1>11. Sent(s)'
  BY <1>3 DEF Good, Sent
<1> QED BY <1>4, <1>5, <1>6, <1>7, <1>8, <1>9, <1>10, <1>11 DEF Good

(* A step of the stream s.                                                 *)
Alters(s) ==
  /\ world' = world
  /\ filter' = [filter EXCEPT ![s] = filter'[s]] /\ filter'[s] \in Filters
  /\ stream' = [stream EXCEPT ![s] = stream'[s]] /\ stream'[s] \in StreamStates
  /\ history' = [history EXCEPT ![s] = history'[s]] /\ history'[s] \in Histories
  /\ loaded' = <<>> \/ Document(loaded)'

(* It leaves the other streams as they are.                                *)
LEMMA StepOfOne ==
  ASSUME IInv, NEW s \in Streams, Alters(s), Good(s)'
  PROVE  IInv'
<1>1. Types'
  BY DEF IInv, Types, Alters
<1>2. ASSUME NEW u \in Streams, u # s
      PROVE  Good(u)'
  <2>1. world' = world /\ filter'[u] = filter[u] /\ stream'[u] = stream[u] /\ history'[u] = history[u]
    BY <1>2 DEF IInv, Types, Alters
  <2> QED BY <2>1, Unmoved DEF IInv
<1> QED BY <1>1, <1>2 DEF IInv

-----------------------------------------------------------------------------
(* The inductive invariant holds at the start.                             *)
LEMMA Begins ==
  ASSUME Init
  PROVE  IInv
<1>1. NewContentBuffer \in Buffers /\ NewStreamEventParser \in Parsers
  <2>1. <<>> \in SegmentSeqs /\ <<>> \in Offsets
    BY DEF SegmentSeqs, Offsets
  <2> QED BY <2>1 DEF NewContentBuffer, NewStreamEventParser, Buffers, Parsers
<1>2. <<>> \in CharSeqs
  BY DEF CharSeqs
<1>3. Types
  <2>1. filter \in [Streams -> Filters]
    BY <1>1, <1>2 DEF Init, Filters, PCs, NoBody
  <2>2. stream \in [Streams -> StreamStates]
    BY DEF Init, StreamStates, Outcomes, Paths
  <2>3. history \in [Streams -> Histories]
    BY <1>2 DEF Init, Histories
  <2> QED BY <2>1, <2>2, <2>3 DEF Types, Init
<1> SUFFICES ASSUME NEW s \in Streams
             PROVE  Good(s)
  BY <1>3 DEF IInv
<1>4. /\ filter[s].pc = "idle" /\ filter[s].content = NewContentBuffer
      /\ filter[s].parser = NewStreamEventParser /\ filter[s].body = NoBody
      /\ filter[s].closed = FALSE /\ filter[s].left = 0 /\ filter[s].size = 0
      /\ filter[s].chunks = <<>>
  BY DEF Init
<1>5. /\ stream[s].path = "request" /\ stream[s].arrived = 0 /\ stream[s].outcome = "open"
      /\ stream[s].sent = [d \in Paths |-> 0]
      /\ history[s].spans = [d \in Paths |-> <<>>] /\ history[s].spare = 0
  BY DEF Init
<1>6. /\ NewContentBuffer.base = 0 /\ NewContentBuffer.len = 0 /\ NewContentBuffer.currStart = 0
      /\ NewContentBuffer.currChars = 0 /\ NewContentBuffer.completed = 0
      /\ ~HasChunks(NewContentBuffer) /\ SegmentsOK(NewContentBuffer)
  BY DEF NewContentBuffer, HasChunks, SegmentsOK
<1>7. /\ NewStreamEventParser.len = 0 /\ NewStreamEventParser.boundaries = <<>>
      /\ NewStreamEventParser.parsedOffset = 0 /\ NewStreamEventParser.lastParseEnd = 0
  BY DEF NewStreamEventParser
<1>8. Content(s)
  BY <1>3, <1>4, <1>6, WorldFields DEF Content, BufferOK
<1>9. Parser(s)
  BY <1>4, <1>7 DEF Parser, ParserOK, Parts
<1>10. Arrived(s)
  BY <1>3, <1>5, MessageFields DEF Arrived
<1>11. Spans(s) /\ Sent(s)
  BY <1>5 DEF Spans, Sent, Parts
<1>12. Submitted(s) = {}
  BY <1>4 DEF Submitted
<1>13. Where(s)
  BY <1>4, <1>6, <1>12 DEF Where
<1>14. Whole(s)
  BY <1>4, <1>5 DEF Whole, NoBody, Paths
<1>15. Request(s)
  BY <1>4, <1>5 DEF Request, NoBody, Paths
<1>16. Streamed(s)
  BY <1>5 DEF Streamed
<1>17. Covered(s)
  <2>1. Start(s, "request") = 0
    BY DEF Start
  <2> QED BY <1>4, <1>5, <1>6, <2>1 DEF Covered, CoveredBy, Flushed
<1> QED BY <1>8, <1>9, <1>10, <1>11, <1>13, <1>14, <1>15, <1>16, <1>17 DEF Good

-----------------------------------------------------------------------------
(* Where a message begins is a number.                                     *)
LEMMA StartNat ==
  ASSUME Types, NEW s \in Streams, NEW d
  PROVE  Start(s, d) \in Nat
<1>1. history[s].spans["request"] \in Seq(Chars)
  BY HistoryFields DEF CharSeqs, Paths
<1>2. history[s].spans["request"] # <<>> => history[s].spans["request"][1] \in Chars
  BY <1>1
<1> QED BY <1>2 DEF Start, Chars

(* The stream is served while one of its handlers runs, and what is in the *)
(* content buffer is covered.                                              *)
LEMMA Running ==
  ASSUME IInv, NEW s \in Streams, NEW pc, pc # "idle", At(s, pc)
  PROVE  /\ Types /\ Good(s) /\ Active(s) /\ filter[s].pc = pc /\ stream[s].outcome = "open"
         /\ filter[s].content \in Buffers /\ BufferOK(filter[s].content, world)
         /\ Judged(s) = Behind(s) \union Ready(filter[s].content)
         /\ Start(s, stream[s].path) \in Nat
         /\ ~Flushed(s) => CoveredBy(world, Judged(s), Start(s, stream[s].path), filter[s].content)
         /\ Start(s, stream[s].path) <= End(s) /\ End(s) \in Nat
<1>1. Types /\ Good(s) /\ filter[s].pc = pc /\ stream[s].outcome = "open"
  BY DEF IInv, At
<1>2. Active(s)
  BY <1>1, FilterFields DEF Good, Where, Active
<1>3. filter[s].content \in Buffers /\ BufferOK(filter[s].content, world)
  BY <1>1, FilterFields DEF Good, Content
<1>4. Start(s, stream[s].path) \in Nat
  BY <1>1, StartNat
<1>5. ~Flushed(s) => CoveredBy(world, Judged(s), Start(s, stream[s].path), filter[s].content)
  BY <1>1, <1>2 DEF Good, Covered
<1>6. Start(s, stream[s].path) <= End(s) /\ End(s) \in Nat
  <2>1. /\ filter[s].content.base \in Nat /\ filter[s].content.len \in Nat
        /\ filter[s].content.currStart \in Nat /\ filter[s].content.currChars \in Nat
        /\ filter[s].content.len = filter[s].content.currStart + filter[s].content.currChars
    BY <1>3, BufferFields DEF BufferOK
  <2>2. CASE Flushed(s)
    BY <1>1, <1>2, <2>1, <2>2 DEF Good, Covered, End
  <2>3. CASE ~Flushed(s)
    <3>1. Start(s, stream[s].path) <= filter[s].content.base + filter[s].content.currStart
      BY <1>5, <2>3 DEF CoveredBy
    <3> QED BY <1>4, <2>1, <3>1 DEF End
  <2> QED BY <2>2, <2>3
<1> QED BY <1>1, <1>2, <1>3, <1>4, <1>5, <1>6 DEF Judged

(* What depends on the stream's side alone.                                *)
LEMMA SameStream ==
  ASSUME NEW s \in Streams, world' = world, stream'[s].path = stream[s].path
  PROVE  Message(s)' = Message(s) /\ Mode(s)' = Mode(s) /\ Size(Message(s))' = Size(Message(s))
BY DEF Message, Mode, Size

(* Char.                                                                   *)
LEMMA CharStep ==
  ASSUME IInv, NEW s \in Streams, Char(s)
  PROVE  IInv'
<1> DEFINE f == filter[s]
           c == f.content
           d == WriteChar(c, world)
           left == f.left - 1
           lo == Start(s, stream[s].path)
<1>1. At(s, "write") /\ f.left > 0
  BY DEF Char
<1>2. /\ Types /\ Good(s) /\ Active(s) /\ f.pc = "write" /\ stream[s].outcome = "open"
      /\ c \in Buffers /\ BufferOK(c, world)
      /\ Judged(s) = Behind(s) \union Ready(c)
      /\ lo \in Nat /\ lo <= End(s) /\ End(s) \in Nat
  BY <1>1, Running
<1>3. ~Flushed(s)
  BY <1>2 DEF Flushed
<1>4. CoveredBy(world, Behind(s) \union Ready(c), lo, c)
  BY <1>1, <1>2, <1>3, Running
<1>5. world.max \in Nat /\ world.max > 0 /\ world.overlap \in Nat /\ world.overlap < world.max
  BY <1>2, WorldFields
<1>6. /\ d \in Buffers /\ BufferOK(d, world)
      /\ d.base = c.base /\ d.len = c.len + 1
      /\ d.currChars = 0 => HasChunks(d)
      /\ CoveredBy(world, Behind(s) \union Ready(d), lo, d)
      /\ Ready(c) \subseteq Ready(d)
      /\ Total(d) = Total(c)
      /\ d.completed = c.completed \/ Joined(world, Behind(s) \union Ready(d), lo, d.base + d.len)
  BY <1>2, <1>4, <1>5, WriteCharOK
<1>7. left \in Nat /\ f.left \in Nat /\ f.size \in Nat
  BY <1>1, <1>2, FilterFields
<1> HIDE DEF d, left
<1>8. /\ filter'[s] = [f EXCEPT !.content = d, !.left = left]
      /\ filter' = [filter EXCEPT ![s] = filter'[s]]
      /\ f \in Filters
  BY <1>2 DEF Char, Types, d, left
<1>9. /\ filter'[s].content = d /\ filter'[s].left = left /\ filter'[s].size = f.size
      /\ filter'[s].pc = "write" /\ filter'[s].parser = f.parser /\ filter'[s].body = f.body
      /\ filter'[s].closed = f.closed /\ filter'[s].end = f.end /\ filter'[s].chunks = f.chunks
      /\ filter'[s].data = f.data /\ filter'[s].none = f.none
  BY <1>2, <1>8 DEF Filters
<1>10. world' = world /\ loaded' = loaded /\ stream' = stream /\ history' = history
  BY DEF Char
<1>11. Alters(s)
  <2>1. filter'[s] \in Filters
    BY <1>6, <1>7, <1>8 DEF Filters
  <2>2. stream' = [stream EXCEPT ![s] = stream'[s]] /\ stream'[s] \in StreamStates
    BY <1>2, <1>10 DEF Types
  <2>3. history' = [history EXCEPT ![s] = history'[s]] /\ history'[s] \in Histories
    BY <1>2, <1>10 DEF Types
  <2>4. loaded' = <<>> \/ Document(loaded)'
    BY <1>2, <1>10 DEF Types, Document
  <2> QED BY <1>8, <1>10, <2>1, <2>2, <2>3, <2>4 DEF Alters
<1>12. /\ Message(s)' = Message(s) /\ Mode(s)' = Mode(s) /\ Size(Message(s))' = Size(Message(s))
       /\ \A e : Start(s, e)' = Start(s, e)
       /\ Active(s)' /\ ~Flushed(s)' /\ Consumed(s)' = Consumed(s)
       /\ Submitted(s)' = Submitted(s) /\ Judged(s)' = Behind(s) \union Ready(d)
  <2>1. Submitted(s)' = Submitted(s) /\ Behind(s)' = Behind(s)
    BY <1>9, <1>10 DEF Submitted, Behind
  <2> QED BY <1>2, <1>9, <1>10, <2>1, SameStream DEF Start, Active, Flushed, Consumed, Judged
<1>13. End(s)' = End(s) + 1
  <2>1. c.base \in Nat /\ c.len \in Nat
    BY <1>2, BufferFields
  <2> QED BY <1>6, <1>9, <2>1 DEF End
<1>14. Content(s)' /\ Parser(s)' /\ Arrived(s)'
  BY <1>2, <1>6, <1>9, <1>10, <1>12 DEF Good, Content, Parser, Arrived
<1>15. Spans(s)'
  <2> SUFFICES ASSUME NEW e \in Paths, NEW i \in DOMAIN history[s].spans[e]
               PROVE  Start(s, e) <= history[s].spans[e][i].from /\ history[s].spans[e][i].to <= End(s) + 1
    BY <1>10, <1>12, <1>13 DEF Spans
  <2>1. Start(s, e) <= history[s].spans[e][i].from /\ history[s].spans[e][i].to <= End(s)
    BY <1>2 DEF Good, Spans
  <2>2. history[s].spans[e] \in Seq(Chars)
    BY <1>2, HistoryFields DEF CharSeqs
  <2>3. history[s].spans[e][i] \in Chars
    BY <2>2
  <2>4. history[s].spans[e][i].to \in Nat
    BY <2>3 DEF Chars
  <2> QED BY <1>2, <2>1, <2>4
<1>16. Where(s)'
  <2>1. /\ f.left <= f.size /\ Submitted(s) = {}
        /\ lo + f.size <= End(s) + f.left
        /\ Mode(s) # "stream" => f.end
        /\ Mode(s) # "whole" => ~f.none
    BY <1>2 DEF Good, Where
  <2>2. left <= f.size /\ lo + f.size <= End(s) + 1 + left
    BY <1>1, <1>2, <1>7, <2>1 DEF left
  <2> QED BY <1>2, <1>6, <1>9, <1>10, <1>12, <1>13, <2>1, <2>2 DEF Where, Active
<1>17. Whole(s)'
  <2>1. Released(s)' = Released(s)
    BY <1>9, <1>10, <1>12 DEF Released
  <2> QED BY <1>2, <1>9, <1>10, <1>12, <2>1 DEF Good, Whole
<1>18. Request(s)'
  BY <1>2, <1>9, <1>10 DEF Good, Request
<1>19. Streamed(s)'
  <2> SUFFICES ASSUME stream[s].path = "response", Mode(s) # "whole"
               PROVE  Streamed(s)'
    BY <1>10, <1>12 DEF Streamed
  <2> DEFINE spans == history[s].spans["response"]
             done == Consumed(s) + Parts * d.completed
  <2>1. /\ f.parser.base + f.parser.len = stream[s].arrived
        /\ f.parser.base + f.parser.lastParseEnd = Parts * (Len(spans) + 1)
    BY <1>2 DEF Good, Streamed
  <2>2. ASSUME history[s].spare = 0
        PROVE  /\ Counts(s)' /\ done <= Parts * Len(spans)
               /\ \A i \in DOMAIN spans :
                    Parts * i <= done => Joined(world, Behind(s) \union Ready(d), lo, spans[i].to)
    <3>1. /\ Counts(s)
          /\ \A i \in DOMAIN spans :
               Parts * i <= Consumed(s) + Parts * c.completed => Joined(world, Judged(s), lo, spans[i].to)
      BY <1>2, <1>3, <2>2 DEF Good, Streamed
    <3>2. Consumed(s) + Parts * Total(c) = Parts * Len(spans)
      BY <3>1 DEF Counts, Total
    <3>3. Counts(s)'
      BY <1>6, <1>9, <1>10, <1>12, <3>2 DEF Counts, Total
    <3>4. /\ d.completed \in Nat /\ d.currEvents \in Nat /\ d.overlapEvents \in Nat
          /\ d.base \in Nat /\ d.len \in Nat
      BY <1>6, BufferFields
    <3>5. Consumed(s) \in Nat
      BY <1>2, FilterFields, ParserFields DEF Consumed
    <3>6. done <= Parts * Len(spans)
      BY <1>6, <3>2, <3>4, <3>5 DEF Total, Parts
    <3>7. ASSUME NEW i \in DOMAIN spans, Parts * i <= done
          PROVE  Joined(world, Behind(s) \union Ready(d), lo, spans[i].to)
      <4>1. spans \in Seq(Chars)
        BY <1>2, HistoryFields DEF CharSeqs, Paths
      <4>2. spans[i] \in Chars
        BY <4>1
      <4>3. spans[i].to \in Nat /\ spans[i].to <= d.base + d.len
        <5>1. spans[i].to \in Nat /\ spans[i].to <= End(s)
          BY <1>2, <4>2 DEF Good, Spans, Paths, Chars
        <5>2. c.base \in Nat /\ c.len \in Nat
          BY <1>2, BufferFields
        <5> QED BY <1>6, <5>1, <5>2 DEF End
      <4>4. CASE d.completed = c.completed
        <5>1. Joined(world, Behind(s) \union Ready(c), lo, spans[i].to)
          BY <1>2, <3>1, <3>7, <4>4
        <5> QED BY <1>2, <1>6, <4>3, <5>1, JoinedWeaker
      <4>5. CASE Joined(world, Behind(s) \union Ready(d), lo, d.base + d.len)
        <5>1. d.base + d.len \in Nat
          BY <3>4
        <5> QED BY <1>2, <4>3, <4>5, <5>1, JoinedWeaker
      <4> QED BY <1>6, <4>4, <4>5
    <3> QED BY <3>3, <3>6, <3>7
  <2> QED BY <1>9, <1>10, <1>12, <2>1, <2>2 DEF Streamed
<1>20. Covered(s)'
  BY <1>6, <1>9, <1>10, <1>12 DEF Covered
<1>21. Sent(s)'
  BY <1>2, <1>10, <1>12 DEF Good, Sent
<1> QED BY <1>11, <1>14, <1>15, <1>16, <1>17, <1>18, <1>19, <1>20, <1>21, StepOfOne DEF Good

(* What the handler's next call leaves alone: where only the handler's     *)
(* place changes and the buffers stay, the other conjuncts stay.           *)
LEMMA SameContent ==
  ASSUME IInv, NEW s \in Streams, world' = world, stream' = stream,
         history'[s].spans = history[s].spans, history'[s].passed = history[s].passed,
         history'[s].spare = history[s].spare,
         filter'[s].content = filter[s].content, filter'[s].chunks = filter[s].chunks,
         filter'[s].closed = filter[s].closed, filter'[s].end = filter[s].end
  PROVE  /\ Message(s)' = Message(s) /\ Mode(s)' = Mode(s) /\ Size(Message(s))' = Size(Message(s))
         /\ \A e : Start(s, e)' = Start(s, e)
         /\ Active(s)' = Active(s) /\ End(s)' = End(s)
         /\ Submitted(s)' = Submitted(s) /\ Judged(s)' = Judged(s)
         /\ Content(s)' /\ Arrived(s)' /\ Spans(s)' /\ Sent(s)'
<1>1. /\ Message(s)' = Message(s) /\ Mode(s)' = Mode(s) /\ Size(Message(s))' = Size(Message(s))
  BY SameStream
<1>2. \A e : Start(s, e)' = Start(s, e)
  BY DEF Start
<1>3. Submitted(s)' = Submitted(s) /\ Judged(s)' = Judged(s)
  BY DEF Submitted, Behind, Judged
<1>4. Active(s)' = Active(s) /\ End(s)' = End(s)
  BY DEF Active, End
<1>5. Good(s)
  BY DEF IInv
<1>6. Content(s)' /\ Arrived(s)'
  BY <1>1, <1>5 DEF Good, Content, Arrived
<1>7. Spans(s)'
  BY <1>2, <1>4, <1>5 DEF Good, Spans
<1>8. Sent(s)'
  BY <1>2, <1>5 DEF Good, Sent
<1> QED BY <1>1, <1>2, <1>3, <1>4, <1>6, <1>7, <1>8

(* What the extractor holds has a length.                                  *)
LEMMA LengthNat ==
  ASSUME Types
  PROVE  Length(loaded) \in Nat
<1>1. CASE loaded = <<>>
  BY <1>1 DEF Length
<1>2. CASE loaded # <<>> /\ Document(loaded)
  <2>1. PICK u \in Streams, d \in Paths :
          \E j \in DOMAIN world.message[u][d].contents : loaded = <<u, d, j>>
    BY <1>2 DEF Document
  <2>2. PICK j \in DOMAIN world.message[u][d].contents : loaded = <<u, d, j>>
    BY <2>1
  <2>3. world.message[u][d].contents \in Seq(Nat)
    BY WorldsAssumption DEF Types
  <2>4. world.message[u][d].contents[j] \in Nat
    <3> DEFINE contents == world.message[u][d].contents
    <3>1. contents \in Seq(Nat) /\ j \in DOMAIN contents
      BY <2>2, <2>3
    <3> HIDE DEF contents
    <3>2. contents[j] \in Nat
      BY <3>1
    <3> QED BY <3>2 DEF contents
  <2>5. loaded[1] = u /\ loaded[2] = d /\ loaded[3] = j
    BY <2>2
  <2> QED BY <1>2, <2>4, <2>5 DEF Length
<1> QED BY <1>1, <1>2 DEF Types

(* Extract.                                                                *)
LEMMA ExtractStep ==
  ASSUME IInv, NEW s \in Streams, Extract(s)
  PROVE  IInv'
<1> DEFINE f == filter[s]
           c == f.content
           lo == Start(s, stream[s].path)
<1>1. /\ Types /\ Good(s) /\ Active(s) /\ f.pc = "extract" /\ stream[s].outcome = "open"
      /\ lo \in Nat /\ lo <= End(s) /\ End(s) \in Nat
  BY Running DEF Extract
<1>2. PICK n \in Nat : filter' = [filter EXCEPT ![s].pc = "write", ![s].size = n, ![s].left = n]
  <2>1. Length(loaded) \in Nat
    BY <1>1, LengthNat
  <2> QED BY <2>1 DEF Extract
<1>3. /\ filter'[s] = [f EXCEPT !.pc = "write", !.size = n, !.left = n]
      /\ filter' = [filter EXCEPT ![s] = filter'[s]] /\ f \in Filters
  BY <1>1, <1>2 DEF Types
<1>4. /\ filter'[s].content = c /\ filter'[s].left = n /\ filter'[s].size = n
      /\ filter'[s].pc = "write" /\ filter'[s].parser = f.parser /\ filter'[s].body = f.body
      /\ filter'[s].closed = f.closed /\ filter'[s].end = f.end /\ filter'[s].chunks = f.chunks
      /\ filter'[s].data = f.data /\ filter'[s].none = f.none
  BY <1>3 DEF Filters
<1>5. world' = world /\ loaded' = loaded /\ stream' = stream
  BY DEF Extract
<1> DEFINE seen == history[s].foreign \/ loaded # Current(s)
<1>6. /\ history'[s] = [history[s] EXCEPT !.foreign = seen]
      /\ history' = [history EXCEPT ![s] = history'[s]] /\ history[s] \in Histories
  BY <1>1 DEF Extract, Types
<1>7. seen \in BOOLEAN
  BY <1>1, HistoryFields
<1> HIDE DEF seen
<1>8. /\ history'[s].spans = history[s].spans /\ history'[s].passed = history[s].passed
      /\ history'[s].spare = history[s].spare
  BY <1>6 DEF Histories
<1>9. Alters(s)
  <2>1. filter'[s] \in Filters
    BY <1>3 DEF Filters, PCs
  <2>2. history'[s] \in Histories
    BY <1>6, <1>7 DEF Histories
  <2>3. loaded' = <<>> \/ Document(loaded)'
    BY <1>1, <1>5 DEF Types, Document
  <2> QED BY <1>1, <1>3, <1>5, <1>6, <2>1, <2>2, <2>3 DEF Alters, Types
<1>10. /\ Message(s)' = Message(s) /\ Mode(s)' = Mode(s) /\ Size(Message(s))' = Size(Message(s))
       /\ \A e : Start(s, e)' = Start(s, e)
       /\ Active(s)' = Active(s) /\ End(s)' = End(s)
       /\ Submitted(s)' = Submitted(s) /\ Judged(s)' = Judged(s)
       /\ Content(s)' /\ Arrived(s)' /\ Spans(s)' /\ Sent(s)'
  BY <1>4, <1>5, <1>8, SameContent
<1>11. Flushed(s)' = Flushed(s) /\ Consumed(s)' = Consumed(s) /\ Counts(s)' = Counts(s)
  BY <1>1, <1>4, <1>8 DEF Flushed, Consumed, Counts
<1>12. Parser(s)'
  BY <1>1, <1>4 DEF Good, Parser
<1>13. Where(s)'
  <2>1. /\ Submitted(s) = {} /\ (Mode(s) # "stream" => f.end) /\ (Mode(s) # "whole" => ~f.none)
    BY <1>1 DEF Good, Where
  <2>2. n <= n /\ ~(n < n) /\ lo + n <= End(s) + n
    BY <1>1
  <2> QED BY <1>1, <1>4, <1>5, <1>10, <2>1, <2>2 DEF Where, Active
<1>14. Whole(s)'
  <2>1. Released(s)' = Released(s)
    BY <1>4, <1>5, <1>10 DEF Released
  <2> QED BY <1>1, <1>4, <1>5, <1>8, <1>10, <2>1 DEF Good, Whole
<1>15. Request(s)'
  BY <1>1, <1>4, <1>5, <1>8 DEF Good, Request
<1>16. Streamed(s)'
  BY <1>1, <1>4, <1>5, <1>8, <1>10, <1>11 DEF Good, Streamed
<1>17. Covered(s)'
  BY <1>1, <1>4, <1>5, <1>10, <1>11 DEF Good, Covered
<1> QED BY <1>9, <1>10, <1>12, <1>13, <1>14, <1>15, <1>16, <1>17, StepOfOne DEF Good

(* A message that is not a document is the response.                       *)
LEMMA EventsRespond ==
  ASSUME Types, NEW s \in Streams, Mode(s) # "whole"
  PROVE  stream[s].path = "response" /\ Message(s) = world.message[s]["response"]
BY MessageFields DEF Message

(* The event that is found is one of those that were sent.                 *)
LEMMA NextEventExists ==
  ASSUME IInv, NEW s \in Streams, At(s, "parse"), Parsable(filter[s].parser)
  PROVE  NextEvent(filter[s].parser) \in DOMAIN world.message[s]["response"].contents
<1> DEFINE p == filter[s].parser
           contents == world.message[s]["response"].contents
           spans == history[s].spans["response"]
<1>1. Types /\ Good(s) /\ Active(s) /\ filter[s].pc = "parse"
  BY Running
<1>2. Mode(s) # "whole"
  BY <1>1 DEF Good, Where
<1>3. stream[s].path = "response" /\ Message(s).contents = contents
  BY <1>1, <1>2, EventsRespond
<1>4. p.base + p.len = stream[s].arrived /\ p.base + p.lastParseEnd = Parts * Len(spans)
  BY <1>1, <1>2, <1>3 DEF Good, Streamed
<1>5. stream[s].arrived <= Parts * Len(contents)
  BY <1>1, <1>3, MessageFields DEF Good, Arrived
<1>6. p.base \in Nat /\ p.len \in Nat /\ p.lastParseEnd \in Nat
  BY <1>1, FilterFields, ParserFields
<1>7. Len(spans) \in Nat
  <2>1. spans \in Seq(Chars)
    BY <1>1, HistoryFields DEF CharSeqs, Paths
  <2> QED BY <2>1
<1>8. contents \in Seq(Nat) /\ Len(contents) \in Nat
  BY <1>1, <1>3, MessageFields
<1> HIDE DEF spans
<1>9. NextEvent(p) = Len(spans) + 1
  <2>1. (Parts * Len(spans)) \div Parts = Len(spans)
    BY <1>7 DEF Parts
  <2> QED BY <1>4, <2>1 DEF NextEvent
<1>10. Len(spans) + 1 \in 1 .. Len(contents)
  <2> DEFINE n == Len(contents)
  <2>1. n \in Nat /\ stream[s].arrived \in Nat /\ stream[s].arrived <= Parts * n
    BY <1>1, <1>5, <1>8, StreamFields
  <2>2. p.lastParseEnd + Parts <= p.len
    BY DEF Parsable
  <2> HIDE DEF p, n
  <2>3. p.base + p.lastParseEnd + Parts <= Parts * n
    BY <1>4, <1>6, <2>1, <2>2 DEF Parts
  <2>4. Len(spans) + 1 \in 1 .. n
    BY <1>4, <1>6, <1>7, <2>1, <2>3 DEF Parts
  <2> QED BY <2>4 DEF n
<1> QED BY <1>8, <1>9, <1>10

(* Parse.                                                                  *)
LEMMA ParseStep ==
  ASSUME IInv, NEW s \in Streams, Parse(s)
  PROVE  IInv'
<1> DEFINE f == filter[s]
           c == f.content
           p == f.parser
           lo == Start(s, stream[s].path)
<1>1. /\ Types /\ Good(s) /\ Active(s) /\ f.pc = "parse" /\ stream[s].outcome = "open"
      /\ lo \in Nat /\ lo <= End(s) /\ End(s) \in Nat
  BY Running DEF Parse
<1>2. Mode(s) # "whole" /\ Submitted(s) = {} /\ (Mode(s) # "stream" => f.end)
      /\ (f.none => ~HasChunks(c)) /\ f.left <= f.size
  BY <1>1 DEF Good, Where
<1>3. stream[s].path = "response"
  BY <1>1, <1>2, EventsRespond
<1>4. world' = world /\ stream' = stream /\ history' = history
  BY DEF Parse
<1>5. p \in Parsers /\ ParserOK(p)
  BY <1>1, FilterFields DEF Good, Parser
<1>6. ASSUME filter' = [filter EXCEPT ![s] = filter'[s]], filter'[s] \in Filters,
             loaded' = <<>> \/ Document(loaded)',
             filter'[s].content = c, filter'[s].left = f.left, filter'[s].size = f.size,
             filter'[s].body = f.body, filter'[s].closed = f.closed, filter'[s].end = f.end,
             filter'[s].chunks = f.chunks, filter'[s].data = f.data,
             filter'[s].parser \in Parsers, ParserOK(filter'[s].parser),
             filter'[s].parser.base = p.base, filter'[s].parser.len = p.len,
             filter'[s].parser.parsedOffset = p.parsedOffset,
             filter'[s].pc \in {"extract", "idle", "collect"},
             filter'[s].pc = "extract" => /\ ~filter'[s].none
                                          /\ filter'[s].parser.lastParseEnd = p.lastParseEnd + Parts,
             filter'[s].pc # "extract" => filter'[s].parser.lastParseEnd = p.lastParseEnd,
             filter'[s].pc = "idle" => ~HasChunks(c)
      PROVE  IInv'
  <2>1. Alters(s)
    BY <1>1, <1>4, <1>6 DEF Alters, Types
  <2>2. /\ Message(s)' = Message(s) /\ Mode(s)' = Mode(s) /\ Size(Message(s))' = Size(Message(s))
        /\ \A e : Start(s, e)' = Start(s, e)
        /\ Active(s)' = Active(s) /\ End(s)' = End(s)
        /\ Submitted(s)' = Submitted(s) /\ Judged(s)' = Judged(s)
        /\ Content(s)' /\ Arrived(s)' /\ Spans(s)' /\ Sent(s)'
    BY <1>4, <1>6, SameContent
  <2>3. ~Flushed(s)' /\ ~Flushed(s) /\ Consumed(s)' = Consumed(s) /\ Counts(s)' = Counts(s)
    BY <1>1, <1>4, <1>6 DEF Flushed, Consumed, Counts
  <2>4. Parser(s)'
    BY <1>6 DEF Parser
  <2>5. Where(s)'
    BY <1>1, <1>2, <1>4, <1>6, <2>2 DEF Where, Active
  <2>6. Whole(s)' /\ Request(s)'
    BY <1>2, <1>3, <1>4, <2>2 DEF Whole, Request
  <2>7. Streamed(s)'
    <3> DEFINE spans == history[s].spans["response"]
    <3>1. p.base + p.len = stream[s].arrived /\ p.base + p.lastParseEnd = Parts * (Len(spans) + 0)
      BY <1>1, <1>2, <1>3 DEF Good, Streamed
    <3>5. history[s].spare = 0 =>
               /\ Counts(s)
               /\ Consumed(s) + Parts * c.completed <= Parts * Len(spans)
               /\ \A i \in DOMAIN spans :
                    Parts * i <= Consumed(s) + Parts * c.completed =>
                      Joined(world, Judged(s), Start(s, "response"), spans[i].to)
      BY <1>1, <1>2, <1>3, <2>3 DEF Good, Streamed
    <3>2. filter'[s].parser.base + filter'[s].parser.lastParseEnd =
            Parts * (Len(spans) + IF filter'[s].pc \in {"extract", "write"} THEN 1 ELSE 0)
      <4>1. p.base \in Nat /\ p.lastParseEnd \in Nat
        BY <1>5, ParserFields
      <4>2. Len(spans) \in Nat
        <5>1. spans \in Seq(Chars)
          BY <1>1, HistoryFields DEF CharSeqs, Paths
        <5> QED BY <5>1
      <4> DEFINE q == filter'[s].parser
                 n == Len(spans)
      <4>3. q.base = p.base
        BY <1>6
      <4>4. CASE filter'[s].pc = "extract"
        <5>1. q.lastParseEnd = p.lastParseEnd + Parts
          BY <1>6, <4>4
        <5>2. q.base + q.lastParseEnd = Parts * (n + 1)
          <6>1. n \in Nat /\ p.base + p.lastParseEnd = Parts * (n + 0)
            BY <3>1, <4>2
          <6> HIDE DEF q, p, n
          <6> QED BY <4>1, <4>3, <5>1, <6>1 DEF Parts
        <5> QED BY <4>4, <5>2
      <4>5. CASE filter'[s].pc # "extract"
        <5>1. q.lastParseEnd = p.lastParseEnd /\ filter'[s].pc # "write"
          BY <1>6, <4>5
        <5> QED BY <3>1, <4>3, <4>5, <5>1
      <4> QED BY <4>4, <4>5
    <3>3. filter'[s].parser.base + filter'[s].parser.len = stream'[s].arrived
      BY <1>4, <1>6, <3>1
    <3>4. filter'[s].content = c /\ history'[s].spans["response"] = spans /\ history'[s].spare = history[s].spare
      BY <1>4, <1>6
    <3>6. Start(s, "response")' = Start(s, "response") /\ Judged(s)' = Judged(s) /\ Mode(s)' = Mode(s)
      BY <2>2
    <3> QED BY <1>4, <2>3, <3>2, <3>3, <3>4, <3>5, <3>6 DEF Streamed
  <2>8. Covered(s)'
    BY <1>1, <1>4, <1>6, <2>2, <2>3 DEF Good, Covered
  <2> QED BY <2>1, <2>2, <2>4, <2>5, <2>6, <2>7, <2>8, StepOfOne DEF Good
<1>7. CASE Parsable(p)
  <2> DEFINE q == TryParse(p)
  <2>1. /\ q \in Parsers /\ ParserOK(q) /\ q.base = p.base /\ q.len = p.len
        /\ q.parsedOffset = p.parsedOffset /\ q.lastParseEnd = p.lastParseEnd + Parts
    BY <1>5, <1>7, TryParseOK
  <2> HIDE DEF q
  <2>2. /\ filter'[s] = [f EXCEPT !.parser = q, !.none = FALSE, !.pc = "extract"]
        /\ filter' = [filter EXCEPT ![s] = filter'[s]] /\ f \in Filters
    BY <1>1, <1>7 DEF Parse, Types, q
  <2>3. filter'[s] \in Filters
    BY <2>1, <2>2 DEF Filters, PCs
  <2>4. /\ filter'[s].content = c /\ filter'[s].left = f.left /\ filter'[s].size = f.size
        /\ filter'[s].body = f.body /\ filter'[s].closed = f.closed /\ filter'[s].end = f.end
        /\ filter'[s].chunks = f.chunks /\ filter'[s].data = f.data
        /\ filter'[s].parser = q /\ filter'[s].pc = "extract" /\ ~filter'[s].none
    BY <2>2 DEF Filters
  <2>5. Document(loaded)'
    <3>1. NextEvent(p) \in DOMAIN world.message[s]["response"].contents
      BY <1>7, NextEventExists DEF Parse
    <3>2. loaded' = <<s, "response", NextEvent(p)>>
      BY <1>7 DEF Parse
    <3>3. "response" \in Paths
      BY DEF Paths
    <3> QED BY <1>4, <3>1, <3>2, <3>3 DEF Document
  <2> QED BY <1>6, <2>1, <2>2, <2>3, <2>4, <2>5
<1>8. CASE ~Parsable(p)
  <2>1. loaded' = <<>> \/ Document(loaded)'
    BY <1>1, <1>4, <1>8 DEF Parse, Types, Document
  <2>2. PICK pc \in {"idle", "collect"} :
          filter' = [filter EXCEPT ![s].pc = pc] /\ (pc = "idle" => f.none)
    BY <1>8 DEF Parse
  <2>3. filter'[s] = [f EXCEPT !.pc = pc] /\ filter' = [filter EXCEPT ![s] = filter'[s]] /\ f \in Filters
    BY <1>1, <2>2 DEF Types
  <2>4. filter'[s] \in Filters
    BY <2>3 DEF Filters, PCs
  <2>5. /\ filter'[s].content = c /\ filter'[s].left = f.left /\ filter'[s].size = f.size
        /\ filter'[s].body = f.body /\ filter'[s].closed = f.closed /\ filter'[s].end = f.end
        /\ filter'[s].chunks = f.chunks /\ filter'[s].data = f.data
        /\ filter'[s].parser = p /\ filter'[s].pc = pc
    BY <2>3 DEF Filters
  <2> QED BY <1>2, <1>5, <1>6, <2>1, <2>2, <2>3, <2>4, <2>5
<1> QED BY <1>7, <1>8

(* What a list of contents is after one more.                              *)
WithOne(old, seg) == Append(old, seg)
InOneMore(i, old, seg, grown) ==
  /\ i \in Nat /\ grown[i] \in Chars
  /\ \/ i \in DOMAIN old /\ i <= Len(old) /\ grown[i] = old[i]
     \/ i = Len(grown) /\ grown[i] = seg

(* Each element of it is one of the old ones, or the new one.              *)
LEMMA OneMore ==
  ASSUME NEW old \in CharSeqs, NEW seg \in Chars, NEW grown, grown = WithOne(old, seg)
  PROVE  /\ grown \in CharSeqs /\ Len(old) \in Nat /\ Len(grown) = Len(old) + 1
         /\ \A i \in DOMAIN grown : InOneMore(i, old, seg, grown)
         /\ old = <<>> => Len(grown) = 1 /\ grown[1] = seg
<1>1. old \in Seq(Chars)
  BY DEF CharSeqs
<1>2. /\ grown \in Seq(Chars)
      /\ Len(old) \in Nat /\ Len(grown) = Len(old) + 1
      /\ DOMAIN grown = 1 .. Len(grown) /\ DOMAIN old = 1 .. Len(old)
      /\ DOMAIN grown = DOMAIN old \union {Len(grown)}
      /\ grown[Len(grown)] = seg /\ \A i \in DOMAIN old : grown[i] = old[i]
  BY <1>1, Appended DEF WithOne
<1>3. ASSUME NEW i \in DOMAIN grown
      PROVE  InOneMore(i, old, seg, grown)
  BY <1>2 DEF InOneMore
<1>4. old = <<>> => Len(old) = 0
  OBVIOUS
<1>5. grown \in CharSeqs
  BY <1>2 DEF CharSeqs
<1> QED BY <1>2, <1>3, <1>4, <1>5

(* Counted.                                                                *)
LEMMA CountedStep ==
  ASSUME IInv, NEW s \in Streams, Counted(s)
  PROVE  IInv'
<1>0. PICK path \in Paths : path = stream[s].path
  BY StreamFields DEF IInv
<1> DEFINE f == filter[s]
           c == f.content
           n == f.size
           d == CountEvent(c, world, n)
           lo == Start(s, path)
           to == c.base + c.len
           seg == [from |-> to - n, to |-> to]
           old == history[s].spans[path]
           grown == WithOne(old, seg)
           next == IF Mode(s) = "whole" THEN "collect" ELSE "parse"
<1>1. /\ Types /\ Good(s) /\ Active(s) /\ f.pc = "write" /\ stream[s].outcome = "open"
      /\ c \in Buffers /\ BufferOK(c, world)
      /\ Judged(s) = Behind(s) \union Ready(c)
      /\ lo \in Nat /\ lo <= End(s) /\ End(s) \in Nat
  BY <1>0, Running DEF Counted
<1>2. f.left = 0 /\ n \in Nat /\ path \in {"request", "response"}
  BY <1>1, FilterFields DEF Counted, Paths
<1>3. ~Flushed(s) /\ CoveredBy(world, Behind(s) \union Ready(c), lo, c)
  <2>1. ~Flushed(s)
    BY <1>1 DEF Flushed
  <2> QED BY <1>0, <1>1, <2>1 DEF Good, Covered
<1>4. /\ f.left <= n /\ Submitted(s) = {} /\ lo + n <= End(s) + f.left
      /\ f.left < n /\ c.currChars = 0 => HasChunks(c)
      /\ Mode(s) # "stream" => f.end
      /\ Mode(s) # "whole" => ~f.none
  BY <1>0, <1>1 DEF Good, Where
<1>5. c.base \in Nat /\ c.len \in Nat /\ c.currStart \in Nat /\ c.currChars \in Nat /\ c.completed \in Nat
  BY <1>1, BufferFields
<1>6. world.max \in Nat /\ world.max > 0 /\ world.overlap \in Nat /\ world.overlap < world.max
  BY <1>1, WorldFields
<1>7. /\ d \in Buffers /\ BufferOK(d, world)
      /\ d.base = c.base /\ d.len = c.len /\ d.currStart = c.currStart
      /\ d.currChars = c.currChars /\ d.boundaries = c.boundaries
      /\ Total(d) = Total(c) + 1
      /\ d.completed = c.completed \/ (c.currChars = 0 /\ d.completed = c.completed + 1)
  <2>1. n > 0 /\ c.currChars = 0 => HasChunks(c)
    BY <1>2, <1>4
  <2> QED BY <1>1, <1>2, <1>6, <2>1, CountEventOK
<1>8. to = End(s) /\ to - n \in Nat /\ lo <= to - n
  BY <1>1, <1>2, <1>4, <1>5 DEF End
<1>9. seg \in Chars /\ seg.from = to - n /\ seg.to = End(s)
  BY <1>1, <1>8 DEF Chars
<1>10. old \in CharSeqs
  BY <1>1, HistoryFields
<1> HIDE DEF d, seg, next, to
<1>11. /\ grown \in CharSeqs /\ Len(old) \in Nat /\ Len(grown) = Len(old) + 1
       /\ \A i \in DOMAIN grown :
            /\ i \in Nat /\ grown[i] \in Chars
            /\ \/ i \in DOMAIN old /\ i <= Len(old) /\ grown[i] = old[i]
               \/ i = Len(grown) /\ grown[i] = seg
       /\ old = <<>> => Len(grown) = 1 /\ grown[1] = seg
  <2>1. grown = WithOne(old, seg)
    OBVIOUS
  <2>2. seg \in Chars
    BY <1>9
  <2> HIDE DEF old, grown
  <2>3. grown \in CharSeqs /\ Len(old) \in Nat /\ Len(grown) = Len(old) + 1
    BY <1>10, <2>1, <2>2, OneMore
  <2>4. old = <<>> => Len(grown) = 1 /\ grown[1] = seg
    BY <1>10, <2>1, <2>2, OneMore
  <2>5. \A i \in DOMAIN grown : InOneMore(i, old, seg, grown)
    BY <1>10, <2>1, <2>2, OneMore
  <2> QED BY <2>3, <2>4, <2>5 DEF InOneMore
<1>12. grown \in CharSeqs
  BY <1>11
<1> HIDE DEF grown, old
<1>13. /\ filter'[s] = [f EXCEPT !.content = d, !.pc = next]
       /\ filter' = [filter EXCEPT ![s] = filter'[s]] /\ f \in Filters
  BY <1>1 DEF Counted, Types, d, next
<1>14. next \in {"collect", "parse"}
  BY DEF next
<1>15. /\ filter'[s].content = d /\ filter'[s].left = f.left /\ filter'[s].size = f.size
       /\ filter'[s].pc = next /\ filter'[s].parser = f.parser /\ filter'[s].body = f.body
       /\ filter'[s].closed = f.closed /\ filter'[s].end = f.end /\ filter'[s].chunks = f.chunks
       /\ filter'[s].data = f.data /\ filter'[s].none = f.none
  BY <1>13 DEF Filters
<1>16. world' = world /\ loaded' = loaded /\ stream' = stream
  BY DEF Counted
<1> DEFINE spans == [history[s].spans EXCEPT ![path] = grown]
<1>17. /\ history'[s] = [history[s] EXCEPT !.spans = spans]
       /\ history' = [history EXCEPT ![s] = history'[s]] /\ history[s] \in Histories
  BY <1>0, <1>1 DEF Counted, Types, WithOne, old, grown, seg, to
<1>18. spans \in [Paths -> CharSeqs]
  BY <1>1, <1>12, HistoryFields
<1>19. spans[path] = grown /\ \A e \in Paths : e # path => spans[e] = history[s].spans[e]
  BY <1>1, HistoryFields
<1> HIDE DEF spans
<1>20. /\ history'[s].spans = spans /\ history'[s].passed = history[s].passed
       /\ history'[s].spare = history[s].spare
  BY <1>17 DEF Histories
<1>21. Alters(s)
  <2>1. filter'[s] \in Filters
    BY <1>7, <1>13, <1>14 DEF Filters, PCs
  <2>2. history'[s] \in Histories
    BY <1>17, <1>18 DEF Histories
  <2>3. loaded' = <<>> \/ Document(loaded)'
    BY <1>1, <1>16 DEF Types, Document
  <2> QED BY <1>1, <1>13, <1>16, <1>17, <2>1, <2>2, <2>3 DEF Alters, Types
<1>22. /\ Message(s)' = Message(s) /\ Mode(s)' = Mode(s) /\ Size(Message(s))' = Size(Message(s))
  BY <1>16, SameStream
<1>23. path = "request" => spans["response"] = <<>> /\ history[s].spans["response"] = <<>>
  BY <1>0, <1>1, <1>19 DEF Good, Request, Paths
<1>24. /\ Start(s, path)' = lo
       /\ path = "response" => \A e : Start(s, e)' = Start(s, e)
       /\ Start(s, "request")' = Start(s, "request")
  <2>1. path = "response" => spans["request"] = history[s].spans["request"]
    BY <1>19 DEF Paths
  <2>2. path = "response" => \A e : Start(s, e)' = Start(s, e)
    BY <1>20, <2>1 DEF Start
  <2>3. Start(s, "request")' = Start(s, "request")
    BY DEF Start
  <2> QED BY <1>2, <2>2, <2>3
<1>25. /\ Active(s)' /\ ~Flushed(s)' /\ Consumed(s)' = Consumed(s) /\ End(s)' = End(s)
       /\ Submitted(s)' = Submitted(s) /\ Ready(d) = Ready(c) /\ Judged(s)' = Judged(s)
  <2>1. Submitted(s)' = Submitted(s) /\ Behind(s)' = Behind(s)
    BY <1>15, <1>20 DEF Submitted, Behind
  <2>2. Ready(d) = Ready(c)
    BY <1>7 DEF Ready, Chunks
  <2> QED BY <1>1, <1>7, <1>14, <1>15, <1>16, <2>1, <2>2 DEF Active, Flushed, Consumed, End, Judged
<1>26. Content(s)' /\ Parser(s)' /\ Arrived(s)'
  BY <1>1, <1>7, <1>15, <1>16, <1>22 DEF Good, Content, Parser, Arrived
<1>28. Spans(s)'
  <2> SUFFICES ASSUME NEW e \in Paths, NEW i \in DOMAIN spans[e]
               PROVE  Start(s, e)' <= spans[e][i].from /\ spans[e][i].to <= End(s)
    BY <1>20, <1>25 DEF Spans
  <2>1. \A j \in DOMAIN history[s].spans[e] :
          Start(s, e) <= history[s].spans[e][j].from /\ history[s].spans[e][j].to <= End(s)
    BY <1>1 DEF Good, Spans
  <2>2. CASE e = path
    <3>1. i \in DOMAIN grown /\ Start(s, e)' = lo
      BY <1>19, <1>24, <2>2
    <3>2. CASE i \in DOMAIN old /\ grown[i] = old[i]
      <4>1. lo <= old[i].from /\ old[i].to <= End(s)
        BY <2>1, <2>2, <3>2 DEF old
      <4> QED BY <1>19, <2>2, <3>1, <3>2, <4>1
    <3>3. CASE grown[i] = seg
      <4>1. lo <= seg.from /\ seg.to <= End(s)
        BY <1>1, <1>8, <1>9
      <4> QED BY <1>19, <2>2, <3>1, <3>3, <4>1
    <3> QED BY <1>11, <3>1, <3>2, <3>3
  <2>3. CASE e # path
    <3>1. CASE path = "response"
      BY <1>19, <1>24, <2>1, <2>3, <3>1
    <3>2. CASE path = "request"
      BY <1>23, <2>3, <3>2 DEF Paths
    <3> QED BY <1>2, <3>1, <3>2
  <2> QED BY <2>2, <2>3
<1>29. Where(s)'
  BY <1>0, <1>1, <1>4, <1>14, <1>15, <1>16, <1>22, <1>25 DEF Where, Active, next
<1>30. Whole(s)'
  <2> SUFFICES ASSUME Mode(s) = "whole"
               PROVE  Whole(s)'
    BY <1>22 DEF Whole
  <2>1. Released(s)' = Released(s)
    BY <1>15, <1>16, <1>22 DEF Released
  <2>2. Released(s) = Size(Message(s)) /\ old = <<>>
    BY <1>0, <1>1 DEF Good, Whole, old
  <2>3. Len(grown) = 1 /\ grown[1].to = End(s)
    BY <1>9, <1>11, <2>2
  <2>4. next = "collect"
    BY DEF next
  <2> QED BY <1>0, <1>15, <1>16, <1>19, <1>20, <1>22, <1>25, <2>1, <2>2, <2>3, <2>4 DEF Whole
<1>31. Request(s)'
  BY <1>0, <1>1, <1>14, <1>15, <1>16, <1>20, <1>23 DEF Good, Request
<1>32. Streamed(s)'
  <2> SUFFICES ASSUME path = "response", Mode(s) # "whole"
               PROVE  Streamed(s)'
    BY <1>0, <1>16, <1>22 DEF Streamed
  <2> DEFINE done == Consumed(s) + Parts * d.completed
  <2>1. /\ f.parser.base + f.parser.len = stream[s].arrived
        /\ f.parser.base + f.parser.lastParseEnd = Parts * (Len(old) + 1)
    BY <1>0, <1>1 DEF Good, Streamed, old
  <2>2. /\ filter'[s].parser.base + filter'[s].parser.len = stream'[s].arrived
        /\ filter'[s].parser.base + filter'[s].parser.lastParseEnd =
             Parts * (Len(grown) + IF filter'[s].pc \in {"extract", "write"} THEN 1 ELSE 0)
    <3>1. filter'[s].pc \notin {"extract", "write"} /\ Len(grown) = Len(old) + 1 /\ Len(old) + 1 = Len(old) + 1 + 0
      BY <1>11, <1>14, <1>15
    <3> QED BY <1>15, <1>16, <2>1, <3>1
  <2>3. ASSUME history[s].spare = 0
        PROVE  /\ Counts(s)' /\ done <= Parts * Len(grown)
               /\ \A i \in DOMAIN grown :
                    Parts * i <= done => Joined(world, Judged(s), lo, grown[i].to)
    <3>1. /\ Counts(s)
          /\ \A i \in DOMAIN old :
               Parts * i <= Consumed(s) + Parts * c.completed => Joined(world, Judged(s), lo, old[i].to)
          /\ Consumed(s) + Parts * c.completed <= Parts * Len(old)
      BY <1>0, <1>1, <1>3, <2>3 DEF Good, Streamed, old
    <3>2. Consumed(s) + Parts * Total(c) = Parts * Len(old)
      BY <3>1 DEF Counts, Total, old
    <3>3. Consumed(s) \in Nat /\ Total(c) \in Nat
      <4>1. f.parser \in Parsers
        BY <1>1, FilterFields
      <4>2. f.parser.base \in Nat /\ f.parser.parsedOffset \in Nat
        BY <4>1, ParserFields
      <4>3. c.completed \in Nat /\ c.currEvents \in Nat /\ c.overlapEvents \in Nat
        BY <1>1, BufferFields
      <4> QED BY <4>2, <4>3 DEF Consumed, Total
    <3>4. Consumed(s) + Parts * Total(d) = Parts * Len(grown)
      <4>1. Total(d) = Total(c) + 1 /\ Len(grown) = Len(old) + 1 /\ Len(old) \in Nat
        BY <1>7, <1>11
      <4> QED BY <3>2, <3>3, <4>1 DEF Parts
    <3>5. Counts(s)'
      BY <1>15, <1>16, <1>19, <1>20, <1>25, <3>4 DEF Counts, Total
    <3>6. d.completed \in Nat /\ d.currEvents \in Nat /\ d.overlapEvents \in Nat
      BY <1>7, BufferFields
    <3>7. done <= Parts * Len(grown)
      BY <3>3, <3>4, <3>6 DEF Total, Parts
    <3>8. ASSUME NEW i \in DOMAIN grown, Parts * i <= done
          PROVE  Joined(world, Judged(s), lo, grown[i].to)
      <4>1. /\ grown[i] \in Chars /\ i \in Nat
            /\ \/ i \in DOMAIN old /\ i <= Len(old) /\ grown[i] = old[i]
               \/ i = Len(grown) /\ grown[i] = seg
        BY <1>11
      <4>2. grown[i].to \in Nat /\ grown[i].to <= End(s)
        <5>1. CASE i \in DOMAIN old /\ grown[i] = old[i]
          BY <1>1, <4>1, <5>1 DEF Good, Spans, Chars, old
        <5>2. CASE grown[i] = seg
          BY <1>1, <1>9, <4>1, <5>2 DEF Chars
        <5> QED BY <4>1, <5>1, <5>2
      <4>3. CASE d.completed = c.completed
        <5>1. i # Len(grown)
          <6>1. Len(old) \in Nat /\ Len(grown) = Len(old) + 1 /\ c.completed \in Nat
            BY <1>5, <1>11
          <6>2. Parts * i <= Consumed(s) + Parts * c.completed
            BY <3>8, <4>3
          <6>3. Consumed(s) + Parts * c.completed <= Parts * Len(old)
            BY <3>1
          <6> QED BY <3>3, <4>1, <6>1, <6>2, <6>3 DEF Parts
        <5> QED BY <3>1, <3>8, <4>1, <4>3, <5>1
      <4>4. CASE c.currChars = 0
        <5>1. Joined(world, Behind(s) \union Ready(c), lo, c.base + c.currStart)
          BY <1>1, <1>3, <1>6, CoveredBefore
        <5>2. c.base + c.currStart = End(s)
          BY <1>1, <1>5, <4>4 DEF BufferOK, End
        <5>3. Joined(world, Judged(s), lo, End(s))
          BY <1>1, <5>1, <5>2
        <5> QED BY <1>1, <4>2, <5>3, JoinedWeaker
      <4> QED BY <1>7, <4>3, <4>4
    <3> QED BY <3>5, <3>7, <3>8
  <2>4. /\ filter'[s].content = d /\ history'[s].spans["response"] = grown
        /\ history'[s].spare = history[s].spare
    BY <1>15, <1>19, <1>20
  <2>5. Start(s, "response")' = lo /\ Judged(s)' = Judged(s) /\ ~Flushed(s)' /\ Consumed(s)' = Consumed(s)
    BY <1>24, <1>25
  <2> QED BY <1>16, <2>2, <2>3, <2>4, <2>5 DEF Streamed
<1>33. Covered(s)'
  <2>1. CoveredBy(world, Judged(s), lo, d)
    BY <1>1, <1>3, <1>7 DEF CoveredBy
  <2> QED BY <1>0, <1>15, <1>16, <1>24, <1>25, <2>1 DEF Covered
<1>34. Sent(s)'
  <2> SUFFICES ASSUME history[s].spare = 0, NEW e \in Paths
               PROVE  /\ stream[s].sent[e] <= Parts * Len(spans[e])
                      /\ \A i \in DOMAIN spans[e] :
                           Parts * i <= stream[s].sent[e] =>
                             Joined(world, history[s].passed, Start(s, e)', spans[e][i].to)
    BY <1>16, <1>20 DEF Sent
  <2>1. /\ stream[s].sent[e] <= Parts * Len(history[s].spans[e])
        /\ \A i \in DOMAIN history[s].spans[e] :
             Parts * i <= stream[s].sent[e] =>
               Joined(world, history[s].passed, Start(s, e), history[s].spans[e][i].to)
    BY <1>1 DEF Good, Sent
  <2>2. stream[s].sent[e] \in Nat
    BY <1>1, StreamFields
  <2>3. CASE e = path
    <3>1. /\ stream[s].sent[e] <= Parts * Len(old)
          /\ Len(old) \in Nat /\ Len(grown) = Len(old) + 1
      BY <1>11, <2>1, <2>3 DEF old
    <3>2. stream[s].sent[e] <= Parts * Len(grown)
      BY <2>2, <3>1 DEF Parts
    <3>3. ASSUME NEW i \in DOMAIN grown, Parts * i <= stream[s].sent[e]
          PROVE  Joined(world, history[s].passed, lo, grown[i].to)
      <4>1. /\ i \in Nat
            /\ \/ i \in DOMAIN old /\ i <= Len(old) /\ grown[i] = old[i]
               \/ i = Len(grown) /\ grown[i] = seg
        BY <1>11
      <4>2. i # Len(grown)
        BY <2>2, <3>1, <3>3, <4>1 DEF Parts
      <4> QED BY <2>1, <2>3, <3>3, <4>1, <4>2 DEF old
    <3> QED BY <1>19, <1>24, <2>3, <3>2, <3>3
  <2>4. CASE e # path
    <3>1. CASE path = "response"
      BY <1>19, <1>24, <2>1, <2>4, <3>1
    <3>2. CASE path = "request"
      <4>1. e = "response" /\ spans[e] = history[s].spans[e] /\ spans[e] = <<>>
        BY <1>23, <2>4, <3>2 DEF Paths
      <4> QED BY <2>1, <4>1
    <3> QED BY <1>2, <3>1, <3>2
  <2> QED BY <2>3, <2>4
<1> QED BY <1>21, <1>26, <1>28, <1>29, <1>30, <1>31, <1>32, <1>33, <1>34, StepOfOne DEF Good

(* More chunks join no less.                                               *)
LEMMA JoinedByMore ==
  ASSUME NEW k, NEW X, NEW Y, X \subseteq Y, NEW lo, NEW n, Joined(k, X, lo, n)
  PROVE  Joined(k, Y, lo, n)
BY DEF Joined

(* What has left stays as it is when more is allowed.                      *)
LEMMA SentStays ==
  ASSUME IInv, NEW s \in Streams, world' = world, stream'[s].sent = stream[s].sent,
         history'[s].spans = history[s].spans, history'[s].spare = history[s].spare,
         history[s].passed \subseteq history'[s].passed
  PROVE  Sent(s)'
<1>1. \A e : Start(s, e)' = Start(s, e)
  BY DEF Start
<1>2. Sent(s)
  BY DEF IInv, Good
<1> SUFFICES ASSUME history[s].spare = 0, NEW e \in Paths
             PROVE  /\ stream[s].sent[e] <= Parts * Len(history[s].spans[e])
                    /\ \A i \in DOMAIN history[s].spans[e] :
                         Parts * i <= stream[s].sent[e] =>
                           Joined(world, history'[s].passed, Start(s, e), history[s].spans[e][i].to)
  BY <1>1 DEF Sent
<1>3. /\ stream[s].sent[e] <= Parts * Len(history[s].spans[e])
      /\ \A i \in DOMAIN history[s].spans[e] :
           Parts * i <= stream[s].sent[e] =>
             Joined(world, history[s].passed, Start(s, e), history[s].spans[e][i].to)
  BY <1>2 DEF Sent
<1> QED BY <1>3, JoinedByMore

(* A stream that has ended says nothing more.                              *)
LEMMA Ended ==
  ASSUME IInv, NEW s \in Streams, world' = world, filter'[s] = filter[s],
         stream'[s].outcome # "open", stream'[s].path = stream[s].path,
         stream'[s].arrived = stream[s].arrived, stream'[s].sent = stream[s].sent,
         history'[s].spans = history[s].spans, history'[s].spare = history[s].spare,
         history[s].passed \subseteq history'[s].passed
  PROVE  Good(s)'
<1>1. Good(s)
  BY DEF IInv
<1>2. /\ Message(s)' = Message(s) /\ Mode(s)' = Mode(s) /\ Size(Message(s))' = Size(Message(s))
  BY SameStream
<1>3. \A e : Start(s, e)' = Start(s, e)
  BY DEF Start
<1>4. End(s)' = End(s) /\ Submitted(s)' = Submitted(s) /\ ~Active(s)'
  BY DEF End, Submitted, Active
<1>5. Content(s)' /\ Parser(s)' /\ Arrived(s)'
  BY <1>1, <1>2 DEF Good, Content, Parser, Arrived
<1>6. Spans(s)'
  BY <1>1, <1>3, <1>4 DEF Good, Spans
<1>7. Where(s)'
  BY <1>1, <1>2, <1>3, <1>4 DEF Good, Where
<1>8. Whole(s)' /\ Streamed(s)' /\ Covered(s)'
  BY <1>4 DEF Whole, Streamed, Covered, Active
<1>9. Request(s)'
  BY <1>1 DEF Good, Request
<1>10. Sent(s)'
  BY SentStays
<1> QED BY <1>5, <1>6, <1>7, <1>8, <1>9, <1>10 DEF Good

(* The chunks that are handed over are the ones that were ready.           *)
LEMMA ChunksOK ==
  ASSUME NEW c \in Buffers
  PROVE  /\ Chunks(c) \in CharSeqs
         /\ {Chunks(c)[i] : i \in DOMAIN Chunks(c)} = Ready(c)
         /\ ~HasChunks(c) => Ready(c) = {}
         /\ Chunks(c) = <<>> => Ready(c) = {}
<1> DEFINE n == Len(c.boundaries)
           ch == Chunks(c)
<1>1. c.boundaries \in Seq(Segments)
  BY BufferFields DEF SegmentSeqs
<1>2. n \in Nat /\ DOMAIN c.boundaries = 1 .. n /\ \A i \in 1 .. n : c.boundaries[i] \in Segments
  BY <1>1
<1>3. DOMAIN ch = DOMAIN c.boundaries
  BY DEF Chunks
<1>4. c.base \in Nat
  BY BufferFields
<1>5. ASSUME NEW i \in 1 .. n
      PROVE  ch[i] \in Chars
  <2>1. c.boundaries[i].start \in Nat /\ c.boundaries[i].end \in Nat
    BY <1>2 DEF Segments
  <2>2. ch[i] = [from |-> c.base + c.boundaries[i].start, to |-> c.base + c.boundaries[i].end]
    BY <1>2 DEF Chunks
  <2> HIDE DEF n, ch
  <2> QED BY <1>4, <2>1, <2>2 DEF Chars
<1>6. ch \in [1 .. n -> Chars]
  <2>1. ch = [i \in 1 .. n |-> ch[i]]
    BY <1>2 DEF Chunks
  <2> HIDE DEF n, ch
  <2> QED BY <1>5, <2>1
<1>7. ch \in CharSeqs
  <2> HIDE DEF n, ch
  <2> QED BY <1>2, <1>6, FunctionIsSequence DEF CharSeqs
<1>8. {ch[i] : i \in DOMAIN ch} = Ready(c)
  BY <1>3 DEF Ready
<1>9. ~HasChunks(c) => Ready(c) = {}
  BY DEF HasChunks, Ready
<1>10. ch = <<>> => Ready(c) = {}
  <2>1. ch = <<>> => DOMAIN ch = {}
    <3> HIDE DEF ch
    <3> QED OBVIOUS
  <2> HIDE DEF ch
  <2> QED BY <1>8, <2>1
<1> QED BY <1>7, <1>8, <1>9, <1>10

(* Collect.                                                                *)
LEMMA CollectStep ==
  ASSUME IInv, NEW s \in Streams, Collect(s)
  PROVE  IInv'
<1>0. PICK path \in Paths : path = stream[s].path
  BY StreamFields DEF IInv
<1> DEFINE f == filter[s]
           c == f.content
           p == f.parser
           lo == Start(s, path)
           d == IF f.end THEN Flush(c, world) ELSE c
           n == IF Mode(s) = "whole" THEN 0 ELSE CompletedEvents(d)
           e == Retrieved(d)
           q == Consume(p, n)
           next == IF Chunks(d) = <<>> THEN "release" ELSE "moderate"
           X == Behind(s) \union Ready(d)
<1>1. /\ Types /\ Good(s) /\ Active(s) /\ f.pc = "collect" /\ stream[s].outcome = "open"
      /\ c \in Buffers /\ BufferOK(c, world)
      /\ Judged(s) = Behind(s) \union Ready(c)
      /\ lo \in Nat /\ lo <= End(s) /\ End(s) \in Nat
  BY <1>0, Running DEF Collect
<1>2. world' = world /\ loaded' = loaded /\ history' = history
  BY DEF Collect
<1>3. world.max \in Nat /\ world.max > 0 /\ world.overlap \in Nat /\ world.overlap < world.max
  BY <1>1, WorldFields
<1>4. /\ f.left <= f.size /\ Submitted(s) = {} /\ f.closed = FALSE
      /\ Mode(s) # "stream" => f.end
  BY <1>1, FilterFields DEF Good, Where
<1>5. ~Flushed(s) /\ CoveredBy(world, Behind(s) \union Ready(c), lo, c)
  <2>1. ~Flushed(s)
    BY <1>1 DEF Flushed
  <2> QED BY <1>0, <1>1, <2>1 DEF Good, Covered
<1>6. p \in Parsers /\ ParserOK(p) /\ f.end \in BOOLEAN
  BY <1>1, FilterFields DEF Good, Parser
<1>7. /\ d \in Buffers /\ BufferOK(d, world)
      /\ d.base + d.len = End(s) /\ Ready(c) \subseteq Ready(d)
      /\ f.end => d.currChars = 0 /\ Joined(world, X, lo, End(s))
      /\ ~f.end => d = c
      /\ Total(d) = Total(c) \/ (HasChunks(d) /\ d.completed = Total(c))
  <2>1. CASE f.end
    <3>1. /\ d \in Buffers /\ BufferOK(d, world)
          /\ d.base = c.base /\ d.len = c.len /\ d.currChars = 0
          /\ Ready(c) \subseteq Ready(d)
          /\ Joined(world, X, lo, d.base + d.len)
          /\ Total(d) = Total(c) \/ (HasChunks(d) /\ d.completed = Total(c))
      BY <1>1, <1>3, <1>5, <2>1, FlushOK
    <3>2. d.base + d.len = End(s)
      BY <3>1 DEF End
    <3> QED BY <2>1, <3>1, <3>2
  <2>2. CASE ~f.end
    BY <1>1, <2>2 DEF End
  <2> QED BY <2>1, <2>2
<1> HIDE DEF d, next
<1>8. /\ e \in Buffers /\ BufferOK(e, world) /\ ~HasChunks(e)
      /\ e.base + e.len = d.base + d.len /\ e.base + e.currStart = d.base + d.currStart
      /\ e.currChars = d.currChars /\ e.completed = 0
      /\ CompletedEvents(d) \in Nat
      /\ Total(e) + CompletedEvents(d) = Total(d)
      /\ CompletedEvents(d) <= d.completed \/ (d.currChars = 0 /\ ~HasChunks(d))
  BY <1>3, <1>7, RetrievedOK
<1>9. n \in Nat
  BY <1>8
<1>10. /\ Chunks(d) \in CharSeqs
       /\ {Chunks(d)[i] : i \in DOMAIN Chunks(d)} = Ready(d)
       /\ Chunks(d) = <<>> => Ready(d) = {}
       /\ Ready(e) = {}
  BY <1>7, <1>8, ChunksOK
<1> HIDE DEF e
<1>11. CASE ~Consumable(p, n)
  <2>1. filter' = filter /\ stream' = [stream EXCEPT ![s].outcome = "panic"]
    BY <1>11 DEF Collect, Refuse, d, n
  <2>2. stream'[s] = [stream[s] EXCEPT !.outcome = "panic"] /\ stream' = [stream EXCEPT ![s] = stream'[s]]
        /\ stream[s] \in StreamStates
    BY <1>1, <2>1 DEF Types
  <2>3. /\ stream'[s].outcome # "open" /\ stream'[s].path = stream[s].path
        /\ stream'[s].arrived = stream[s].arrived /\ stream'[s].sent = stream[s].sent
        /\ stream'[s] \in StreamStates
    BY <2>2 DEF StreamStates, Outcomes
  <2>4. Good(s)'
    BY <1>2, <2>1, <2>3, Ended
  <2>5. Alters(s)
    BY <1>1, <1>2, <2>1, <2>2, <2>3 DEF Alters, Types, Document
  <2> QED BY <2>4, <2>5, StepOfOne
<1>12. CASE Consumable(p, n)
  <2>1. /\ q \in Parsers /\ ParserOK(q)
        /\ q.base = p.base /\ q.len = p.len /\ q.lastParseEnd = p.lastParseEnd
        /\ p.parsedOffset + Parts * n <= p.lastParseEnd => q.parsedOffset = p.parsedOffset + Parts * n
    BY <1>6, <1>9, <1>12, ConsumeOK
  <2>2. n = 0 => q = p
    BY DEF Consume
  <2>3. /\ stream' = stream
        /\ filter' = [filter EXCEPT ![s] = [f EXCEPT !.content = e, !.parser = q, !.chunks = Chunks(d),
                                                     !.pc = next]]
    BY <1>12 DEF Collect, d, n, e, next
  <2> HIDE DEF q, n
  <2>4. /\ filter'[s] = [f EXCEPT !.content = e, !.parser = q, !.chunks = Chunks(d), !.pc = next]
        /\ filter' = [filter EXCEPT ![s] = filter'[s]] /\ f \in Filters
    BY <1>1, <2>3 DEF Types
  <2>5. next \in {"release", "moderate"} /\ (next = "release" => Ready(d) = {})
    BY <1>10 DEF next
  <2>6. filter'[s] \in Filters
    BY <1>8, <1>10, <2>1, <2>4, <2>5 DEF Filters, PCs
  <2>7. /\ filter'[s].content = e /\ filter'[s].left = f.left /\ filter'[s].size = f.size
        /\ filter'[s].body = f.body /\ filter'[s].closed = f.closed /\ filter'[s].end = f.end
        /\ filter'[s].chunks = Chunks(d) /\ filter'[s].data = f.data
        /\ filter'[s].parser = q /\ filter'[s].pc = next
    BY <2>4 DEF Filters
  <2>8. Alters(s)
    BY <1>1, <1>2, <2>3, <2>4, <2>6 DEF Alters, Types, Document
  <2>9. /\ Message(s)' = Message(s) /\ Mode(s)' = Mode(s) /\ Size(Message(s))' = Size(Message(s))
        /\ \A x : Start(s, x)' = Start(s, x)
    <3>1. \A x : Start(s, x)' = Start(s, x)
      BY <1>2 DEF Start
    <3> QED BY <1>2, <2>3, <3>1, SameStream
  <2>10. /\ Active(s)' /\ End(s)' = End(s) /\ Submitted(s)' = Ready(d) /\ Judged(s)' = X
         /\ Flushed(s)' = f.end
    <3>1. Submitted(s)' = Ready(d)
      BY <1>10, <2>7 DEF Submitted
    <3>2. Behind(s) = history[s].passed /\ Behind(s)' = history[s].passed \union Ready(d)
      BY <1>2, <1>4, <3>1 DEF Behind
    <3>3. Judged(s)' = X
      BY <1>10, <2>7, <3>2 DEF Judged
    <3>4. End(s)' = End(s)
      BY <1>7, <1>8, <2>7 DEF End
    <3>5. Flushed(s)' = f.end
      BY <1>6, <2>5, <2>7 DEF Flushed
    <3> QED BY <1>1, <2>3, <2>7, <3>1, <3>3, <3>4, <3>5 DEF Active
  <2>11. Content(s)' /\ Parser(s)' /\ Arrived(s)'
    BY <1>1, <1>2, <1>8, <2>1, <2>3, <2>7, <2>9 DEF Good, Content, Parser, Arrived
  <2>12. Spans(s)'
    BY <1>1, <1>2, <2>9, <2>10 DEF Good, Spans
  <2>13. Where(s)'
    BY <1>1, <1>4, <1>7, <1>8, <2>3, <2>5, <2>7, <2>9, <2>10 DEF Where
  <2>14. Whole(s)'
    <3> SUFFICES ASSUME Mode(s) = "whole"
                 PROVE  Whole(s)'
      BY <2>9 DEF Whole
    <3>1. Released(s)' = Released(s)
      BY <2>3, <2>7, <2>9 DEF Released
    <3>2. /\ Released(s) = Size(Message(s))
          /\ Len(history[s].spans[path]) = 1 /\ history[s].spans[path][1].to = End(s)
      BY <1>0, <1>1 DEF Good, Whole
    <3> QED BY <1>0, <1>2, <2>3, <2>5, <2>7, <2>9, <2>10, <3>1, <3>2 DEF Whole
  <2>15. Request(s)'
    <3> SUFFICES ASSUME path = "request"
                 PROVE  Request(s)'
      BY <1>0, <2>3 DEF Request
    <3>1. Mode(s) = "whole"
      BY <1>0, <1>1, MessageFields
    <3>2. q = p
      BY <2>2, <3>1 DEF n
    <3> QED BY <1>0, <1>1, <1>2, <2>3, <2>5, <2>7, <3>2 DEF Good, Request
  <2>16. Streamed(s)'
    <3> SUFFICES ASSUME path = "response", Mode(s) # "whole"
                 PROVE  Streamed(s)'
      BY <1>0, <2>3, <2>9 DEF Streamed
    <3> DEFINE spans == history[s].spans["response"]
    <3>1. /\ p.base + p.len = stream[s].arrived
          /\ p.base + p.lastParseEnd = Parts * (Len(spans) + 0)
      BY <1>0, <1>1 DEF Good, Streamed
    <3>2. /\ filter'[s].parser.base + filter'[s].parser.len = stream'[s].arrived
          /\ filter'[s].parser.base + filter'[s].parser.lastParseEnd =
               Parts * (Len(spans) + IF filter'[s].pc \in {"extract", "write"} THEN 1 ELSE 0)
      <4>1. filter'[s].pc \notin {"extract", "write"}
        BY <2>5, <2>7
      <4> QED BY <2>1, <2>3, <2>7, <3>1, <4>1
    <3>3. ASSUME history[s].spare = 0
          PROVE  /\ Flushed(s)' \/ Counts(s)'
                 /\ Consumed(s)' <= Parts * Len(spans)
                 /\ \A i \in DOMAIN spans : Parts * i <= Consumed(s)' => Joined(world, X, lo, spans[i].to)
      <4>1. /\ Counts(s)
            /\ \A i \in DOMAIN spans :
                 Parts * i <= Consumed(s) + Parts * c.completed => Joined(world, Judged(s), lo, spans[i].to)
        BY <1>0, <1>1, <1>5, <3>3 DEF Good, Streamed
      <4>2. Consumed(s) + Parts * Total(c) = Parts * Len(spans)
        BY <4>1 DEF Counts, Total
      <4>3. spans \in Seq(Chars)
        BY <1>1, HistoryFields DEF CharSeqs, Paths
      <4>4. Len(spans) \in Nat /\ \A i \in DOMAIN spans : i \in Nat /\ spans[i] \in Chars
        BY <4>3
      <4>5. /\ p.base \in Nat /\ p.parsedOffset \in Nat /\ p.lastParseEnd \in Nat
            /\ Consumed(s) = p.base + p.parsedOffset /\ Consumed(s) \in Nat
        BY <1>6, ParserFields DEF Consumed
      <4>6. /\ c.completed \in Nat /\ c.currEvents \in Nat /\ c.overlapEvents \in Nat
            /\ Total(c) \in Nat
        BY <1>1, BufferFields DEF Total
      <4>7. e.completed \in Nat /\ e.currEvents \in Nat /\ e.overlapEvents \in Nat /\ Total(e) \in Nat
        BY <1>8, BufferFields DEF Total
      <4>8. n = CompletedEvents(d) /\ n \in Nat
        BY <1>9 DEF n
      <4> HIDE DEF spans
      <4>9. n <= Total(c)
        BY <1>7, <1>8, <4>6, <4>7, <4>8
      <4>10. p.parsedOffset + Parts * n <= p.lastParseEnd
        <5>1. Len(spans) \in Nat /\ Total(c) \in Nat /\ p.base + p.lastParseEnd = Parts * Len(spans)
          BY <3>1, <4>4, <4>6
        <5>2. n \in Nat /\ Parts * n <= Parts * Total(c)
          BY <4>8, <4>9, <5>1 DEF Parts
        <5>3. p.base + p.parsedOffset + Parts * Total(c) = p.base + p.lastParseEnd
          BY <4>2, <4>5, <5>1
        <5> DEFINE t == Total(c)
                   off == p.parsedOffset
                   base == p.base
                   last == p.lastParseEnd
        <5>4. base \in Nat /\ off \in Nat /\ last \in Nat /\ t \in Nat /\ n \in Nat
              /\ n <= t /\ base + off + Parts * t = base + last
          BY <4>5, <4>8, <4>9, <5>1, <5>3
        <5> HIDE DEF t, off, base, last
        <5>5. off + Parts * n <= last
          BY <5>4 DEF Parts
        <5> QED BY <5>5 DEF off, last
      <4>11. Consumed(s)' = Consumed(s) + Parts * n
        <5>1. q.base = p.base /\ q.parsedOffset = p.parsedOffset + Parts * n
          BY <2>1, <4>10
        <5>2. Consumed(s)' = q.base + q.parsedOffset
          BY <2>7 DEF Consumed
        <5> QED BY <4>5, <4>8, <5>1, <5>2 DEF Parts
      <4>12. Consumed(s)' <= Parts * Len(spans)
        BY <4>2, <4>4, <4>5, <4>6, <4>8, <4>9, <4>11 DEF Parts
      <4>13. Flushed(s)' \/ Counts(s)'
        <5> SUFFICES ASSUME ~f.end
                     PROVE  Counts(s)'
          BY <2>10
        <5>1. d = c /\ Total(e) + n = Total(c)
          BY <1>7, <1>8, <4>8
        <5>2. Consumed(s)' + Parts * Total(e) = Parts * Len(spans)
          BY <4>2, <4>4, <4>5, <4>6, <4>7, <4>8, <4>11, <5>1 DEF Parts
        <5> QED BY <1>2, <2>7, <5>2 DEF Counts, Total, spans
      <4>14. ASSUME NEW i \in DOMAIN spans, Parts * i <= Consumed(s)'
             PROVE  Joined(world, X, lo, spans[i].to)
        <5>1. spans[i].to \in Nat /\ spans[i].to <= End(s)
          BY <1>1, <4>4 DEF Good, Spans, Chars, Paths, spans
        <5>2. ASSUME Joined(world, X, lo, End(s))
              PROVE  Joined(world, X, lo, spans[i].to)
          BY <1>1, <5>1, <5>2, JoinedWeaker
        <5>3. CASE f.end
          BY <1>7, <5>2, <5>3
        <5>4. CASE ~f.end /\ n <= c.completed
          <6>1. Parts * i <= Consumed(s) + Parts * c.completed
            <7>1. i \in Nat /\ c.completed \in Nat /\ Consumed(s) \in Nat
              BY <4>4, <4>5, <4>6
            <7>2. Parts * i <= Consumed(s) + Parts * n
              BY <4>11, <4>14
            <7>3. Parts * n <= Parts * c.completed
              BY <4>8, <5>4, <7>1 DEF Parts
            <7> QED BY <4>8, <7>1, <7>2, <7>3 DEF Parts
          <6>2. Joined(world, Judged(s), lo, spans[i].to)
            BY <4>1, <6>1 DEF spans
          <6>3. Judged(s) = X
            BY <1>1, <1>7, <5>4
          <6> QED BY <6>2, <6>3
        <5>5. CASE ~f.end /\ c.currChars = 0
          <6>1. Joined(world, X, lo, c.base + c.currStart)
            BY <1>1, <1>3, <1>5, <1>7, <5>5, CoveredBefore
          <6>2. c.base + c.currStart = End(s)
            <7>1. c.base \in Nat /\ c.len \in Nat /\ c.currStart \in Nat /\ c.len = c.currStart + c.currChars
              BY <1>1, BufferFields DEF BufferOK
            <7> QED BY <5>5, <7>1 DEF End
          <6> QED BY <5>2, <6>1, <6>2
        <5> QED BY <1>7, <1>8, <4>8, <5>3, <5>4, <5>5
      <4> QED BY <4>12, <4>13, <4>14
    <3>4. /\ filter'[s].content.completed = 0 /\ history'[s].spans["response"] = spans
          /\ history'[s].spare = history[s].spare
          /\ Start(s, "response")' = lo /\ Judged(s)' = X
      BY <1>2, <1>8, <2>7, <2>9, <2>10
    <3>5. Consumed(s)' \in Nat
      <4>1. q.base \in Nat /\ q.parsedOffset \in Nat
        BY <2>1, ParserFields
      <4> QED BY <2>7, <4>1 DEF Consumed
    <3>6. Consumed(s)' + Parts * filter'[s].content.completed = Consumed(s)'
      BY <3>4, <3>5 DEF Parts
    <3> HIDE DEF spans
    <3> QED BY <1>2, <3>2, <3>3, <3>4, <3>6 DEF Streamed
  <2>17. Covered(s)'
    <3>1. CASE f.end
      BY <1>0, <1>1, <1>2, <1>7, <2>3, <2>9, <2>10, <3>1 DEF Covered
    <3>2. CASE ~f.end
      <4>1. CoveredBy(world, X, lo, e)
        BY <1>5, <1>7, <1>8, <3>2 DEF CoveredBy
      <4> QED BY <1>0, <1>2, <2>3, <2>7, <2>9, <2>10, <3>2, <4>1 DEF Covered
    <3> QED BY <1>6, <3>1, <3>2
  <2>18. Sent(s)'
    BY <1>2, <2>3, SentStays
  <2> QED BY <2>8, <2>11, <2>12, <2>13, <2>14, <2>15, <2>16, <2>17, <2>18, StepOfOne DEF Good
<1> QED BY <1>11, <1>12

(* Moderate.                                                               *)
LEMMA ModerateStep ==
  ASSUME IInv, NEW s \in Streams, Moderate(s)
  PROVE  IInv'
<1> DEFINE f == filter[s]
           c == f.content
<1>1. /\ Types /\ Good(s) /\ Active(s) /\ f.pc = "moderate" /\ stream[s].outcome = "open"
      /\ c \in Buffers /\ BufferOK(c, world)
  BY Running DEF Moderate
<1>2. world' = world /\ loaded' = loaded
  BY DEF Moderate
<1>3. /\ f.left <= f.size /\ ~HasChunks(c) /\ f.closed = FALSE
      /\ f.end => c.currChars = 0
      /\ Mode(s) # "stream" => f.end
  BY <1>1, FilterFields DEF Good, Where
<1>4. PICK answers \in [DOMAIN f.chunks -> Answers] :
        LET Given(a) == {i \in DOMAIN answers : answers[i] = a}
        IN /\ history' = [history EXCEPT ![s].passed = @ \union {f.chunks[i] : i \in Given("allow")},
                                         ![s].denied = (Given("allow") # DOMAIN answers)]
           /\ \/ /\ Allowed(answers)
                 /\ filter' = [filter EXCEPT ![s] = [f EXCEPT !.pc = "release", !.chunks = <<>>]]
                 /\ UNCHANGED stream
              \/ /\ ~Allowed(answers) /\ (Given("error") # {} \/ Mode(s) = "whole")
                 /\ Refuse(s, "refused") /\ UNCHANGED filter
              \/ /\ ~Allowed(answers) /\ Given("block") # {} /\ Mode(s) # "whole"
                 /\ filter' = [filter EXCEPT ![s] = Closed(f)]
                 /\ stream' = [stream EXCEPT ![s].outcome = IF f.end THEN "closed" ELSE @]
  BY DEF Moderate
<1> DEFINE allowed == {i \in DOMAIN answers : answers[i] = "allow"}
           passed == history[s].passed \union {f.chunks[i] : i \in allowed}
           denied == allowed # DOMAIN answers
<1>5. /\ history'[s] = [history[s] EXCEPT !.passed = passed, !.denied = denied]
      /\ history' = [history EXCEPT ![s] = history'[s]] /\ history[s] \in Histories
  BY <1>1, <1>4 DEF Types
<1>6. f.chunks \in Seq(Chars) /\ DOMAIN answers = DOMAIN f.chunks
  BY <1>1, FilterFields DEF CharSeqs
<1>7. passed \in SUBSET Chars /\ denied \in BOOLEAN
  <2>1. \A i \in DOMAIN f.chunks : f.chunks[i] \in Chars
    BY <1>6
  <2>2. history[s].passed \in SUBSET Chars
    BY <1>1, HistoryFields
  <2> QED BY <1>6, <2>1, <2>2
<1>8. Allowed(answers) => passed = Behind(s)
  BY <1>6 DEF Allowed, Behind, Submitted
<1>9. history[s].passed \subseteq passed
  OBVIOUS
<1> HIDE DEF passed, denied, allowed
<1>10. /\ history'[s].passed = passed /\ history'[s].spans = history[s].spans
       /\ history'[s].spare = history[s].spare /\ history'[s] \in Histories
  <2>1. history'[s] \in Histories
    BY <1>5, <1>7 DEF Histories
  <2> QED BY <1>5, <2>1 DEF Histories
<1>11. CASE Allowed(answers)
  <2>1. /\ filter' = [filter EXCEPT ![s] = [f EXCEPT !.pc = "release", !.chunks = <<>>]]
        /\ stream' = stream
    BY <1>4, <1>11
  <2>2. /\ filter'[s] = [f EXCEPT !.pc = "release", !.chunks = <<>>]
        /\ filter' = [filter EXCEPT ![s] = filter'[s]] /\ f \in Filters
    BY <1>1, <2>1 DEF Types
  <2>3. filter'[s] \in Filters
    <3>1. <<>> \in CharSeqs
      BY DEF CharSeqs
    <3> QED BY <2>2, <3>1 DEF Filters, PCs
  <2>4. /\ filter'[s].content = c /\ filter'[s].left = f.left /\ filter'[s].size = f.size
        /\ filter'[s].body = f.body /\ filter'[s].closed = f.closed /\ filter'[s].end = f.end
        /\ filter'[s].data = f.data /\ filter'[s].parser = f.parser /\ filter'[s].pc = "release"
    BY <2>2 DEF Filters
  <2>5. filter'[s].chunks = <<>>
    BY <2>2 DEF Filters
  <2>6. Alters(s)
    BY <1>1, <1>2, <1>5, <1>10, <2>1, <2>2, <2>3 DEF Alters, Types, Document
  <2>7. /\ Message(s)' = Message(s) /\ Mode(s)' = Mode(s) /\ Size(Message(s))' = Size(Message(s))
        /\ \A x : Start(s, x)' = Start(s, x)
    <3>1. \A x : Start(s, x)' = Start(s, x)
      BY <1>10 DEF Start
    <3> QED BY <1>2, <2>1, <3>1, SameStream
  <2>8. /\ Active(s)' /\ End(s)' = End(s) /\ Submitted(s)' = {} /\ Judged(s)' = Judged(s)
        /\ Flushed(s)' = Flushed(s) /\ Consumed(s)' = Consumed(s) /\ Counts(s)' = Counts(s)
    <3>1. Submitted(s)' = {}
      BY <2>5 DEF Submitted
    <3>2. Judged(s)' = Judged(s)
      BY <1>8, <1>10, <1>11, <2>4, <3>1 DEF Judged, Behind
    <3>3. End(s)' = End(s) /\ Active(s)' /\ Consumed(s)' = Consumed(s) /\ Counts(s)' = Counts(s)
      BY <1>1, <1>10, <2>1, <2>4 DEF End, Active, Consumed, Counts
    <3>4. Flushed(s)' = Flushed(s)
      BY <1>1, <2>4 DEF Flushed
    <3> QED BY <3>1, <3>2, <3>3, <3>4
  <2>9. Content(s)' /\ Parser(s)' /\ Arrived(s)'
    BY <1>1, <1>2, <2>1, <2>4, <2>7 DEF Good, Content, Parser, Arrived
  <2>10. Spans(s)'
    BY <1>1, <1>10, <2>7, <2>8 DEF Good, Spans
  <2>11. Where(s)'
    BY <1>1, <1>3, <2>1, <2>4, <2>7, <2>8 DEF Where
  <2>12. Whole(s)'
    <3>1. Released(s)' = Released(s)
      BY <2>1, <2>4, <2>7 DEF Released
    <3> QED BY <1>1, <1>10, <2>1, <2>4, <2>7, <2>8, <3>1 DEF Good, Whole
  <2>13. Request(s)'
    BY <1>1, <1>10, <2>1, <2>4 DEF Good, Request
  <2>14. Streamed(s)'
    <3> SUFFICES ASSUME stream[s].path = "response", Mode(s) # "whole"
                 PROVE  Streamed(s)'
      BY <2>1, <2>7 DEF Streamed
    <3> DEFINE spans == history[s].spans["response"]
    <3>1. /\ f.parser.base + f.parser.len = stream[s].arrived
          /\ f.parser.base + f.parser.lastParseEnd = Parts * (Len(spans) + 0)
      BY <1>1 DEF Good, Streamed
    <3>2. /\ filter'[s].parser.base + filter'[s].parser.len = stream'[s].arrived
          /\ filter'[s].parser.base + filter'[s].parser.lastParseEnd =
               Parts * (Len(spans) + IF filter'[s].pc \in {"extract", "write"} THEN 1 ELSE 0)
      BY <2>1, <2>4, <3>1
    <3>3. ASSUME history[s].spare = 0
          PROVE  /\ ~Flushed(s) => Counts(s)
                 /\ Consumed(s) + Parts * c.completed <= Parts * Len(spans)
                 /\ \A i \in DOMAIN spans :
                      Parts * i <= Consumed(s) + Parts * c.completed =>
                        Joined(world, Judged(s), Start(s, "response"), spans[i].to)
      BY <1>1, <3>3 DEF Good, Streamed
    <3>4. filter'[s].content = c /\ history'[s].spans["response"] = spans /\ history'[s].spare = history[s].spare
      BY <1>10, <2>4
    <3>5. /\ Start(s, "response")' = Start(s, "response") /\ Judged(s)' = Judged(s)
          /\ Flushed(s)' = Flushed(s) /\ Consumed(s)' = Consumed(s) /\ Counts(s)' = Counts(s)
      BY <2>7, <2>8
    <3> HIDE DEF spans
    <3> QED BY <1>2, <3>2, <3>3, <3>4, <3>5 DEF Streamed
  <2>15. Covered(s)'
    BY <1>1, <1>2, <2>1, <2>4, <2>7, <2>8 DEF Good, Covered
  <2>16. Sent(s)'
    BY <1>2, <1>9, <1>10, <2>1, SentStays
  <2> QED BY <2>6, <2>9, <2>10, <2>11, <2>12, <2>13, <2>14, <2>15, <2>16, StepOfOne DEF Good
<1>12. CASE Refuse(s, "refused") /\ filter' = filter
  <2>1. stream'[s] = [stream[s] EXCEPT !.outcome = "refused"] /\ stream' = [stream EXCEPT ![s] = stream'[s]]
        /\ stream[s] \in StreamStates
    BY <1>1, <1>12 DEF Types, Refuse
  <2>2. /\ stream'[s].outcome # "open" /\ stream'[s].path = stream[s].path
        /\ stream'[s].arrived = stream[s].arrived /\ stream'[s].sent = stream[s].sent
        /\ stream'[s] \in StreamStates
    BY <2>1 DEF StreamStates, Outcomes
  <2>3. Good(s)'
    BY <1>2, <1>9, <1>10, <1>12, <2>2, Ended
  <2>4. Alters(s)
    BY <1>1, <1>2, <1>5, <1>10, <1>12, <2>1, <2>2 DEF Alters, Types, Document
  <2> QED BY <2>3, <2>4, StepOfOne
<1>13. CASE /\ Mode(s) # "whole" /\ filter' = [filter EXCEPT ![s] = Closed(f)]
            /\ stream' = [stream EXCEPT ![s].outcome = IF f.end THEN "closed" ELSE @]
  <2> DEFINE outcome == IF f.end THEN "closed" ELSE stream[s].outcome
  <2>1. stream'[s] = [stream[s] EXCEPT !.outcome = outcome] /\ stream' = [stream EXCEPT ![s] = stream'[s]]
        /\ stream[s] \in StreamStates
    BY <1>1, <1>13 DEF Types
  <2>2. outcome \in Outcomes
    BY <1>1 DEF Outcomes
  <2> HIDE DEF outcome
  <2>3. /\ stream'[s].path = stream[s].path
        /\ stream'[s].arrived = stream[s].arrived /\ stream'[s].sent = stream[s].sent
        /\ stream'[s] \in StreamStates
    BY <2>1, <2>2 DEF StreamStates
  <2>4. /\ filter'[s] = [f EXCEPT !.closed = TRUE, !.pc = "idle", !.chunks = <<>>]
        /\ filter' = [filter EXCEPT ![s] = filter'[s]] /\ f \in Filters
    BY <1>1, <1>13 DEF Types, Closed
  <2>5. filter'[s] \in Filters
    <3>1. <<>> \in CharSeqs
      BY DEF CharSeqs
    <3> QED BY <2>4, <3>1 DEF Filters, PCs
  <2>6. /\ filter'[s].content = c /\ filter'[s].left = f.left /\ filter'[s].size = f.size
        /\ filter'[s].closed /\ filter'[s].end = f.end
        /\ filter'[s].parser = f.parser /\ filter'[s].pc = "idle"
    BY <2>4 DEF Filters
  <2>7. filter'[s].chunks = <<>>
    BY <2>4 DEF Filters
  <2>8. Alters(s)
    BY <1>1, <1>2, <1>5, <1>10, <2>1, <2>3, <2>4, <2>5 DEF Alters, Types, Document
  <2>9. /\ Message(s)' = Message(s) /\ Mode(s)' = Mode(s) /\ Size(Message(s))' = Size(Message(s))
        /\ \A x : Start(s, x)' = Start(s, x)
    <3>1. \A x : Start(s, x)' = Start(s, x)
      BY <1>10 DEF Start
    <3> QED BY <1>2, <2>3, <3>1, SameStream
  <2>10. /\ ~Active(s)' /\ End(s)' = End(s) /\ Submitted(s)' = {}
    BY <2>6, <2>7 DEF Active, End, Submitted
  <2>11. Content(s)' /\ Parser(s)' /\ Arrived(s)'
    BY <1>1, <1>2, <2>3, <2>6, <2>9 DEF Good, Content, Parser, Arrived
  <2>12. Spans(s)'
    BY <1>1, <1>10, <2>9, <2>10 DEF Good, Spans
  <2>13. Where(s)'
    BY <1>3, <1>13, <2>6, <2>9, <2>10 DEF Where
  <2>14. Whole(s)'
    BY <1>13, <2>9 DEF Whole
  <2>15. Request(s)'
    <3>1. stream[s].path = "response"
      BY <1>1, <1>13, EventsRespond
    <3> QED BY <2>3, <3>1 DEF Request
  <2>16. Streamed(s)' /\ Covered(s)'
    BY <2>10 DEF Streamed, Covered
  <2>17. Sent(s)'
    BY <1>2, <1>9, <1>10, <2>3, SentStays
  <2> QED BY <2>8, <2>11, <2>12, <2>13, <2>14, <2>15, <2>16, <2>17, StepOfOne DEF Good
<1> QED BY <1>4, <1>11, <1>12, <1>13

(* When a handler releases, all chunks were allowed, and what it releases  *)
(* lies in them.                                                           *)
LEMMA ReleasedCovered ==
  ASSUME IInv, NEW s \in Streams, At(s, "release")
  PROVE  /\ Judged(s) = history[s].passed /\ Submitted(s) = {}
         /\ filter[s].content.completed = 0 /\ ~HasChunks(filter[s].content)
         /\ Released(s) \in Nat
         /\ history[s].spare = 0 =>
              LET spans == history[s].spans[stream[s].path]
              IN /\ Released(s) <= Parts * Len(spans)
                 /\ \A i \in DOMAIN spans :
                      Parts * i <= Released(s) =>
                        Joined(world, history[s].passed, Start(s, stream[s].path), spans[i].to)
<1> DEFINE f == filter[s]
           c == f.content
           spans == history[s].spans[stream[s].path]
<1>1. /\ Types /\ Good(s) /\ Active(s) /\ f.pc = "release" /\ stream[s].outcome = "open"
      /\ c \in Buffers /\ BufferOK(c, world) /\ Judged(s) = Behind(s) \union Ready(c)
  BY Running
<1>2. ~HasChunks(c) /\ Submitted(s) = {} /\ (Mode(s) # "stream" => f.end)
  BY <1>1 DEF Good, Where
<1>3. c.completed = 0
  BY <1>1, <1>2 DEF BufferOK
<1>4. Judged(s) = history[s].passed
  <2>1. Ready(c) = {}
    BY <1>1, <1>2, ChunksOK
  <2> QED BY <1>1, <1>2, <2>1 DEF Behind
<1>5. spans \in CharSeqs
  BY <1>1, HistoryFields, StreamFields
<1>6. CASE Mode(s) = "whole"
  <2>1. Released(s) = Size(Message(s)) /\ Len(spans) = 1 /\ spans[1].to = End(s)
    BY <1>1, <1>6 DEF Good, Whole
  <2>2. Released(s) \in Nat /\ Released(s) <= Parts * 1
    <3>1. /\ Size(Message(s)) = Parts * Len(Message(s).contents)
          /\ Len(Message(s).contents) \in Nat /\ Len(Message(s).contents) <= 1
      BY <1>1, <1>6, MessageFields
    <3> HIDE DEF spans
    <3> QED BY <2>1, <3>1 DEF Parts
  <2>3. Flushed(s)
    BY <1>1, <1>2, <1>6 DEF Flushed
  <2>4. Joined(world, history[s].passed, Start(s, stream[s].path), End(s))
    BY <1>1, <1>4, <2>3 DEF Good, Covered
  <2>5. ASSUME NEW i \in DOMAIN spans
        PROVE  Joined(world, history[s].passed, Start(s, stream[s].path), spans[i].to)
    <3>1. DOMAIN spans = 1 .. 1
      BY <1>5, <2>1 DEF CharSeqs
    <3>2. i = 1
      BY <3>1
    <3> QED BY <2>1, <2>4, <3>2
  <2> QED BY <1>2, <1>3, <1>4, <2>1, <2>2, <2>5
<1>7. CASE Mode(s) # "whole"
  <2>1. stream[s].path = "response"
    BY <1>1, <1>7, EventsRespond
  <2>2. Released(s) = Consumed(s)
    BY <1>7 DEF Released, Consumed
  <2>3. Consumed(s) \in Nat
    BY <1>1, FilterFields, ParserFields DEF Consumed
  <2>4. Consumed(s) + Parts * c.completed = Consumed(s)
    BY <1>3, <2>3 DEF Parts
  <2>5. history[s].spare = 0 =>
          /\ Consumed(s) + Parts * c.completed <= Parts * Len(spans)
          /\ \A i \in DOMAIN spans :
               Parts * i <= Consumed(s) + Parts * c.completed =>
                 Joined(world, Judged(s), Start(s, "response"), spans[i].to)
    BY <1>1, <1>7, <2>1 DEF Good, Streamed
  <2> QED BY <1>2, <1>3, <1>4, <2>1, <2>2, <2>3, <2>4, <2>5
<1> QED BY <1>6, <1>7

(* What is released is added to what has been sent.                        *)
LEMMA SentMore ==
  ASSUME IInv, NEW s \in Streams, At(s, "release"), world' = world,
         stream'[s].sent = [stream[s].sent EXCEPT ![stream[s].path] = Released(s)],
         history'[s].spans = history[s].spans, history'[s].passed = history[s].passed,
         history'[s].spare = 0 => history[s].spare = 0
  PROVE  Sent(s)'
<1>1. Types /\ Good(s)
  BY Running
<1>2. PICK path \in Paths : path = stream[s].path
  BY <1>1, StreamFields
<1>3. \A d : Start(s, d)' = Start(s, d)
  BY DEF Start
<1> SUFFICES ASSUME history[s].spare = 0, NEW d \in Paths
             PROVE  LET spans == history[s].spans[d]
                    IN /\ stream'[s].sent[d] <= Parts * Len(spans)
                       /\ \A i \in DOMAIN spans :
                            Parts * i <= stream'[s].sent[d] =>
                              Joined(world, history[s].passed, Start(s, d), spans[i].to)
  BY <1>3 DEF Sent
<1>4. stream[s].sent \in [Paths -> Nat]
  BY <1>1, StreamFields
<1>5. stream'[s].sent = [stream[s].sent EXCEPT ![path] = Released(s)]
  BY <1>2
<1>6. CASE d = path
  <2>1. stream'[s].sent[d] = Released(s)
    BY <1>4, <1>5, <1>6
  <2> QED BY <1>2, <1>6, <2>1, ReleasedCovered
<1>7. CASE d # path
  <2>1. stream'[s].sent[d] = stream[s].sent[d]
    BY <1>4, <1>5, <1>7
  <2> QED BY <1>1, <2>1 DEF Good, Sent
<1> QED BY <1>6, <1>7

(* Release.                                                                *)
LEMMA ReleaseStep ==
  ASSUME IInv, NEW s \in Streams, Release(s)
  PROVE  IInv'
<1> DEFINE f == filter[s]
           c == f.content
           p == f.parser
           q == PruneParsedData(p)
           sent == [stream[s].sent EXCEPT ![stream[s].path] = Released(s)]
           over == f.end /\ stream[s].path = "response"
           turns == f.end /\ stream[s].path = "request"
           spare == IF stream[s].path = "response" THEN history[s].spare
                    ELSE c.currEvents + c.overlapEvents
<1>1. /\ Types /\ Good(s) /\ Active(s) /\ f.pc = "release" /\ stream[s].outcome = "open"
      /\ c \in Buffers /\ BufferOK(c, world) /\ At(s, "release")
  BY Running DEF Release
<1>2. /\ Judged(s) = history[s].passed /\ Submitted(s) = {} /\ c.completed = 0 /\ ~HasChunks(c)
      /\ Released(s) \in Nat
  BY <1>1, ReleasedCovered
<1>3. /\ f.left <= f.size /\ (f.end => c.currChars = 0) /\ (Mode(s) # "stream" => f.end)
      /\ f.closed = FALSE
  BY <1>1, FilterFields DEF Good, Where, Active
<1>4. p \in Parsers /\ ParserOK(p)
  BY <1>1, FilterFields DEF Good, Parser
<1>5. /\ q \in Parsers /\ ParserOK(q)
      /\ q.base + q.len = p.base + p.len
      /\ q.base + q.parsedOffset = p.base + p.parsedOffset
      /\ q.base + q.lastParseEnd = p.base + p.lastParseEnd
  BY <1>4, PruneOK
<1>6. stream[s].path \in {"request", "response"} /\ stream[s].sent \in [Paths -> Nat]
  BY <1>1, StreamFields DEF Paths
<1>7. sent \in [Paths -> Nat] /\ spare \in Nat
  <2>1. sent \in [Paths -> Nat]
    BY <1>2, <1>6
  <2>2. history[s].spare \in Nat /\ c.currEvents + c.overlapEvents \in Nat
    BY <1>1, BufferFields, HistoryFields
  <2> QED BY <2>1, <2>2
<1>8. stream[s].path = "request" => f.end /\ Mode(s) = "whole" /\ history[s].spare = 0
  <2>1. stream[s].path = "request" => Mode(s) = "whole"
    BY <1>1, MessageFields
  <2> QED BY <1>1, <1>3, <2>1 DEF Good, Request
<1> HIDE DEF q
<1>9. /\ filter'[s] = [f EXCEPT !.parser = q, !.body = NoBody, !.data = 0, !.pc = "idle"]
      /\ filter' = [filter EXCEPT ![s] = filter'[s]] /\ f \in Filters
  BY <1>1 DEF Release, Types, q
<1>10. NoBody \in [Paths -> Nat] /\ 0 \in Nat /\ \A e \in Paths : NoBody[e] = 0
  BY DEF NoBody
<1>11. filter'[s] \in Filters
  <2> HIDE DEF NoBody
  <2> QED BY <1>5, <1>9, <1>10 DEF Filters, PCs
<1>12. /\ filter'[s].content = c /\ filter'[s].left = f.left /\ filter'[s].size = f.size
       /\ filter'[s].body = NoBody /\ filter'[s].closed = FALSE /\ filter'[s].end = f.end
       /\ filter'[s].parser = q /\ filter'[s].pc = "idle"
  BY <1>3, <1>9 DEF Filters
<1>13. filter'[s].chunks = f.chunks
  BY <1>9 DEF Filters
<1>14. world' = world /\ loaded' = loaded
  BY DEF Release
<1>15. /\ history'[s].spans = history[s].spans /\ history'[s].passed = history[s].passed
       /\ history'[s].spare = spare /\ history' = [history EXCEPT ![s] = history'[s]]
       /\ history'[s] \in Histories
  <2>1. history[s] \in Histories /\ history \in [Streams -> Histories]
    BY <1>1 DEF Types
  <2>2. CASE stream[s].path = "response"
    BY <2>1, <2>2 DEF Release
  <2>3. CASE stream[s].path = "request"
    <3>1. /\ history'[s] = [history[s] EXCEPT !.spare = spare]
          /\ history' = [history EXCEPT ![s] = history'[s]]
      BY <2>1, <2>3 DEF Release
    <3> HIDE DEF spare
    <3> QED BY <1>7, <2>1, <3>1 DEF Histories
  <2> QED BY <1>6, <2>2, <2>3
<1> DEFINE t == [stream[s] EXCEPT !.sent = sent]
<1>16. /\ stream'[s] = IF f.end THEN After(t) ELSE t
       /\ stream' = [stream EXCEPT ![s] = stream'[s]] /\ stream[s] \in StreamStates
  BY <1>1 DEF Release, Types
<1> HIDE DEF sent
<1>17. /\ t \in StreamStates /\ t.path = stream[s].path /\ t.arrived = stream[s].arrived
       /\ t.outcome = "open" /\ t.sent = sent
  BY <1>1, <1>7, <1>16 DEF StreamStates
<1> HIDE DEF t
<1>18. /\ stream'[s] \in StreamStates /\ stream'[s].sent = sent
       /\ turns => stream'[s].path = "response" /\ stream'[s].arrived = 0 /\ stream'[s].outcome = "open"
       /\ ~turns => stream'[s].path = stream[s].path /\ stream'[s].arrived = stream[s].arrived
       /\ over => stream'[s].outcome = "complete"
       /\ ~over => stream'[s].outcome = "open"
  <2>1. CASE turns
    <3>1. stream'[s] = [t EXCEPT !.path = "response", !.arrived = 0]
      BY <1>16, <1>17, <2>1 DEF After
    <3>2. "response" \in Paths /\ 0 \in Nat /\ ~over
      BY <2>1 DEF Paths
    <3>3. /\ stream'[s] \in StreamStates /\ stream'[s].sent = sent
          /\ stream'[s].path = "response" /\ stream'[s].arrived = 0 /\ stream'[s].outcome = "open"
      BY <1>17, <3>1, <3>2 DEF StreamStates
    <3> QED BY <2>1, <3>2, <3>3
  <2>2. CASE over
    <3>1. stream'[s] = [t EXCEPT !.outcome = "complete"]
      BY <1>16, <1>17, <2>2 DEF After
    <3> QED BY <1>17, <2>2, <3>1 DEF StreamStates, Outcomes
  <2>3. CASE ~turns /\ ~over
    BY <1>6, <1>16, <1>17, <2>3
  <2> QED BY <2>1, <2>2, <2>3
<1>19. Alters(s)
  BY <1>1, <1>9, <1>11, <1>14, <1>15, <1>16, <1>18 DEF Alters, Types, Document
<1>20. /\ \A e : Start(s, e)' = Start(s, e)
       /\ End(s)' = End(s) /\ Submitted(s)' = {} /\ Judged(s)' = Judged(s) /\ Consumed(s)' = Consumed(s)
       /\ ~Flushed(s)'
  <2>1. \A e : Start(s, e)' = Start(s, e)
    BY <1>15 DEF Start
  <2>2. Submitted(s)' = {} /\ Judged(s)' = Judged(s)
    <3>1. Submitted(s)' = Submitted(s)
      BY <1>13 DEF Submitted
    <3> QED BY <1>2, <1>12, <1>15, <3>1 DEF Judged, Behind
  <2>3. End(s)' = End(s) /\ Consumed(s)' = Consumed(s) /\ ~Flushed(s)'
    BY <1>5, <1>12 DEF End, Consumed, Flushed
  <2> QED BY <2>1, <2>2, <2>3
<1>21. Content(s)' /\ Parser(s)' /\ Spans(s)'
  BY <1>1, <1>5, <1>12, <1>14, <1>15, <1>20 DEF Good, Content, Parser, Spans
<1>22. Where(s)'
  BY <1>2, <1>3, <1>12, <1>20 DEF Where
<1>23. Sent(s)'
  <2>1. spare = 0 => history[s].spare = 0
    BY <1>6, <1>8
  <2> QED BY <1>1, <1>14, <1>15, <1>18, <2>1, SentMore DEF sent
<1>24. CASE turns
  <2>1. stream[s].path = "request" /\ Mode(s) = "whole" /\ f.end
    BY <1>8, <1>24
  <2>2. Message(s)' = world.message[s]["response"]
    BY <1>14, <1>18, <1>24 DEF Message
  <2>3. Arrived(s)'
    <3>1. world.message[s]["response"].contents \in Seq(Nat)
      BY <1>1, WorldsAssumption DEF Types, Paths
    <3>2. Len(world.message[s]["response"].contents) \in Nat
      BY <3>1
    <3>3. Size(Message(s))' \in Nat
      BY <2>2, <3>2 DEF Size, Parts
    <3> QED BY <1>18, <1>24, <3>3 DEF Arrived
  <2>4. /\ history[s].spans["response"] = <<>> /\ p = NewStreamEventParser
        /\ Len(history[s].spans["request"]) = 1 /\ history[s].spans["request"][1].to = End(s)
    BY <1>1, <2>1 DEF Good, Request, Whole
  <2>5. Whole(s)'
    BY <1>10, <1>12, <1>15, <1>18, <1>24, <2>4 DEF Whole, Paths
  <2>6. Request(s)'
    BY <1>18, <1>24 DEF Request
  <2>7. q.base + q.len = 0 /\ q.base + q.lastParseEnd = 0 /\ Consumed(s)' = 0
    BY <1>5, <1>20, <2>4 DEF NewStreamEventParser, Consumed
  <2>8. Streamed(s)'
    <3>1. /\ history'[s].spans["response"] = <<>> /\ Len(<<>>) = 0
          /\ Parts * (0 + 0) = 0 /\ Parts * 0 = 0 /\ 0 + 0 = 0
      BY <1>15, <2>4 DEF Parts
    <3>2. spare = 0 => c.currEvents = 0 /\ c.overlapEvents = 0
      <4>1. c.currEvents \in Nat /\ c.overlapEvents \in Nat /\ spare = c.currEvents + c.overlapEvents
        BY <1>1, <2>1, BufferFields
      <4> QED BY <4>1
    <3>3. history'[s].spare = 0 => Counts(s)'
      <4>1. history'[s].spare = 0 => c.completed + c.currEvents + c.overlapEvents = 0
        BY <1>2, <1>15, <3>2
      <4> HIDE DEF spare
      <4> QED BY <1>12, <2>7, <3>1, <4>1 DEF Counts
    <3>4. /\ filter'[s].parser.base + filter'[s].parser.len = 0
          /\ filter'[s].parser.base + filter'[s].parser.lastParseEnd = 0
          /\ filter'[s].content.completed = 0 /\ stream'[s].arrived = 0
      BY <1>2, <1>12, <1>18, <1>24, <2>7
    <3> HIDE DEF spare
    <3> QED BY <1>12, <2>7, <3>1, <3>3, <3>4 DEF Streamed
  <2>9. Covered(s)'
    <3>1. Start(s, "response") = End(s)
      BY <2>4 DEF Start
    <3>2. End(s) = c.base + c.currStart /\ End(s) \in Nat
      <4>1. c.base \in Nat /\ c.len \in Nat /\ c.currStart \in Nat /\ c.len = c.currStart + c.currChars
        BY <1>1, BufferFields DEF BufferOK
      <4> QED BY <1>3, <2>1, <4>1 DEF End
    <3>3. CoveredBy(world, Judged(s), Start(s, "response"), c)
      BY <3>1, <3>2 DEF CoveredBy
    <3> QED BY <1>12, <1>14, <1>18, <1>20, <1>24, <3>3 DEF Covered
  <2> QED BY <1>19, <1>21, <1>22, <1>23, <2>3, <2>5, <2>6, <2>8, <2>9, StepOfOne DEF Good
<1>25. CASE ~turns
  <2>1. stream[s].path = "response" /\ stream'[s].path = "response" /\ stream'[s].arrived = stream[s].arrived
    BY <1>6, <1>8, <1>18, <1>25
  <2>2. Message(s)' = Message(s) /\ Mode(s)' = Mode(s) /\ Size(Message(s))' = Size(Message(s))
    BY <1>14, <2>1, SameStream
  <2>3. Arrived(s)' /\ Request(s)'
    BY <1>1, <2>1, <2>2 DEF Good, Arrived, Request
  <2>4. CASE f.end
    <3>1. stream'[s].outcome = "complete"
      BY <1>18, <2>1, <2>4
    <3>2. Whole(s)' /\ Streamed(s)' /\ Covered(s)'
      BY <3>1 DEF Whole, Streamed, Covered, Active
    <3> QED BY <1>19, <1>21, <1>22, <1>23, <2>3, <3>2, StepOfOne DEF Good
  <2>5. CASE ~f.end
    <3>1. Mode(s) # "whole"
      BY <1>3, <2>5
    <3>2. Whole(s)'
      BY <2>2, <3>1 DEF Whole
    <3>3. Streamed(s)'
      <4> DEFINE spans == history[s].spans["response"]
      <4>1. /\ p.base + p.len = stream[s].arrived
            /\ p.base + p.lastParseEnd = Parts * (Len(spans) + 0)
            /\ history[s].spare = 0 => /\ ~Flushed(s) => Counts(s)
                                       /\ Consumed(s) + Parts * c.completed <= Parts * Len(spans)
                                       /\ \A i \in DOMAIN spans :
                                            Parts * i <= Consumed(s) + Parts * c.completed =>
                                              Joined(world, Judged(s), Start(s, "response"), spans[i].to)
        BY <1>1, <2>1, <3>1 DEF Good, Streamed
      <4>2. /\ filter'[s].parser.base + filter'[s].parser.len = stream'[s].arrived
            /\ filter'[s].parser.base + filter'[s].parser.lastParseEnd =
                 Parts * (Len(spans) + IF filter'[s].pc \in {"extract", "write"} THEN 1 ELSE 0)
        BY <1>5, <1>12, <2>1, <4>1
      <4>3. ~Flushed(s) /\ Counts(s)' = Counts(s)
        BY <1>12, <1>15, <1>20, <2>5 DEF Flushed, Counts
      <4>4. history'[s].spare = history[s].spare
        BY <1>15, <2>1
      <4>5. history'[s].spans["response"] = spans /\ filter'[s].content = c
        BY <1>12, <1>15
      <4> HIDE DEF spans, spare
      <4> QED BY <1>14, <1>20, <4>1, <4>2, <4>3, <4>4, <4>5 DEF Streamed
    <3>4. Covered(s)'
      <4>1. ~Flushed(s)
        BY <2>5 DEF Flushed
      <4> QED BY <1>1, <1>12, <1>14, <1>20, <2>1, <4>1 DEF Good, Covered
    <3> QED BY <1>19, <1>21, <1>22, <1>23, <2>3, <3>2, <3>3, <3>4, StepOfOne DEF Good
  <2> QED BY <2>4, <2>5
<1> QED BY <1>24, <1>25

(* ReceiveEnd.                                                             *)
LEMMA ReceiveEndStep ==
  ASSUME IInv, NEW s \in Streams, ReceiveEnd(s)
  PROVE  IInv'
<1> DEFINE f == filter[s]
           p == f.parser
<1>1. Types /\ Good(s) /\ f.pc = "idle" /\ stream[s].outcome = "open"
  BY DEF ReceiveEnd, At, IInv
<1>2. world' = world /\ loaded' = loaded /\ filter' = filter /\ history' = history
  BY DEF ReceiveEnd
<1>3. /\ stream'[s] = After(stream[s]) /\ stream' = [stream EXCEPT ![s] = stream'[s]]
      /\ stream[s] \in StreamStates
  BY <1>1 DEF ReceiveEnd, Types
<1>4. CASE stream[s].path = "response"
  <2>1. stream'[s] = [stream[s] EXCEPT !.outcome = "complete"]
    BY <1>3, <1>4 DEF After
  <2>2. /\ stream'[s] \in StreamStates /\ stream'[s].outcome # "open"
        /\ stream'[s].path = stream[s].path /\ stream'[s].arrived = stream[s].arrived
        /\ stream'[s].sent = stream[s].sent
    BY <1>3, <2>1 DEF StreamStates, Outcomes
  <2>3. Good(s)'
    BY <1>2, <2>2, Ended
  <2>4. Alters(s)
    BY <1>1, <1>2, <1>3, <2>2 DEF Alters, Types, Document
  <2> QED BY <2>3, <2>4, StepOfOne
<1>5. CASE stream[s].path = "request"
  <2>1. stream'[s] = [stream[s] EXCEPT !.path = "response", !.arrived = 0]
    BY <1>3, <1>5 DEF After
  <2>2. "response" \in Paths /\ 0 \in Nat
    BY DEF Paths
  <2>3. /\ stream'[s] \in StreamStates /\ stream'[s].outcome = "open"
        /\ stream'[s].path = "response" /\ stream'[s].arrived = 0 /\ stream'[s].sent = stream[s].sent
    BY <1>1, <1>3, <2>1, <2>2 DEF StreamStates
  <2>4. Alters(s)
    BY <1>1, <1>2, <1>3, <2>3 DEF Alters, Types, Document
  <2>5. Mode(s) = "whole"
    BY <1>1, <1>5, MessageFields
  <2>6. /\ p = NewStreamEventParser /\ f.closed = FALSE /\ f.body["response"] = 0
        /\ f.content = NewContentBuffer
        /\ history[s].spans["response"] = <<>> /\ history[s].spans["request"] = <<>>
    <3>1. f.closed \in BOOLEAN
      BY <1>1, FilterFields
    <3> QED BY <1>1, <1>5, <2>5, <3>1 DEF Good, Request, Whole
  <2>7. /\ \A e : Start(s, e)' = Start(s, e)
        /\ End(s)' = End(s) /\ Submitted(s)' = Submitted(s) /\ ~Flushed(s)'
    BY <1>1, <1>2 DEF Start, End, Submitted, Flushed
  <2>8. Content(s)' /\ Parser(s)' /\ Spans(s)'
    BY <1>1, <1>2, <2>7 DEF Good, Content, Parser, Spans
  <2>9. Arrived(s)'
    <3>1. world.message[s]["response"].contents \in Seq(Nat)
      BY <1>1, WorldsAssumption DEF Types, Paths
    <3>2. Len(world.message[s]["response"].contents) \in Nat
      BY <3>1
    <3>3. Message(s)' = world.message[s]["response"]
      BY <1>2, <2>3 DEF Message
    <3>4. Size(Message(s))' \in Nat
      BY <3>2, <3>3 DEF Size, Parts
    <3> QED BY <2>3, <3>4 DEF Arrived
  <2>10. Where(s)'
    <3>1. f.left <= f.size /\ ~HasChunks(f.content) /\ Submitted(s) = {}
      BY <1>1 DEF Good, Where
    <3> QED BY <1>1, <1>2, <2>6, <2>7, <3>1 DEF Where
  <2>11. Whole(s)'
    BY <1>1, <1>2, <2>3, <2>6 DEF Whole
  <2>12. Request(s)'
    BY <2>3 DEF Request
  <2>13. Streamed(s)'
    <3>1. /\ p.base = 0 /\ p.len = 0 /\ p.parsedOffset = 0 /\ p.lastParseEnd = 0
          /\ f.content.completed = 0 /\ f.content.currEvents = 0 /\ f.content.overlapEvents = 0
      BY <2>6 DEF NewStreamEventParser, NewContentBuffer
    <3>2. Len(<<>>) = 0 /\ DOMAIN <<>> = {}
      OBVIOUS
    <3>3. Consumed(s)' = 0 /\ Counts(s)'
      BY <1>2, <2>6, <3>1, <3>2 DEF Consumed, Counts, Parts
    <3>4. /\ history'[s].spans["response"] = <<>> /\ filter'[s].pc = "idle"
          /\ filter'[s].parser.base + filter'[s].parser.len = 0
          /\ filter'[s].parser.base + filter'[s].parser.lastParseEnd = 0
          /\ filter'[s].content.completed = 0
          /\ Parts * (0 + 0) = 0 /\ Parts * 0 = 0 /\ 0 + 0 = 0
      BY <1>1, <1>2, <2>6, <3>1 DEF Parts
    <3> QED BY <2>3, <3>2, <3>3, <3>4 DEF Streamed
  <2>14. Covered(s)'
    <3>1. Start(s, "response") = 0
      BY <2>6 DEF Start
    <3>2. CoveredBy(world, Judged(s)', 0, f.content)
      BY <2>6 DEF CoveredBy, NewContentBuffer
    <3> QED BY <1>2, <2>3, <2>7, <3>1, <3>2 DEF Covered
  <2>15. Sent(s)'
    BY <1>2, <2>3, SentStays
  <2> QED BY <2>4, <2>8, <2>9, <2>10, <2>11, <2>12, <2>13, <2>14, <2>15, StepOfOne DEF Good
<1>6. stream[s].path \in {"request", "response"}
  BY <1>1, StreamFields DEF Paths
<1> QED BY <1>4, <1>5, <1>6

(* What Receive starts from, and how much may arrive.                      *)
LEMMA Arriving ==
  ASSUME IInv, NEW s \in Streams, At(s, "idle"), NEW n \in 0 .. Rest(s)
  PROVE  /\ Types /\ Good(s) /\ filter[s].pc = "idle" /\ stream[s].outcome = "open"
         /\ ~HasChunks(filter[s].content) /\ Submitted(s) = {} /\ filter[s].left <= filter[s].size
         /\ ~Flushed(s)
         /\ n \in Nat /\ stream[s].arrived \in Nat /\ stream[s].arrived + n <= Size(Message(s))
         /\ n = Rest(s) => stream[s].arrived + n = Size(Message(s))
<1>1. Types /\ Good(s) /\ filter[s].pc = "idle" /\ stream[s].outcome = "open"
  BY DEF IInv, At
<1>2. ~HasChunks(filter[s].content) /\ Submitted(s) = {} /\ filter[s].left <= filter[s].size
  BY <1>1 DEF Good, Where
<1>3. Size(Message(s)) \in Nat /\ stream[s].arrived \in Nat /\ stream[s].arrived <= Size(Message(s))
  BY <1>1, MessageFields, StreamFields DEF Good, Arrived
<1>4. n \in Nat /\ stream[s].arrived + n <= Size(Message(s))
  BY <1>3 DEF Rest
<1>5. n = Rest(s) => stream[s].arrived + n = Size(Message(s))
  BY <1>3 DEF Rest
<1> QED BY <1>1, <1>2, <1>3, <1>4, <1>5 DEF Flushed

(* Events arrive.                                                          *)
LEMMA EventsStep ==
  ASSUME IInv, NEW s \in Streams, At(s, "idle"), NEW n \in 0 .. Rest(s), NEW end \in BOOLEAN,
         Mode(s) # "whole", Mode(s) # "stream" => end, sseDataHandler(s, n, end),
         UNCHANGED <<world, history>>
  PROVE  IInv'
<1> DEFINE f == filter[s]
           p == f.parser
           q == AppendData(p, n)
           sum == stream[s].arrived + n
           outcome == IF f.closed THEN "refused" ELSE stream[s].outcome
<1>1. /\ Types /\ Good(s) /\ f.pc = "idle" /\ stream[s].outcome = "open"
      /\ ~HasChunks(f.content) /\ Submitted(s) = {} /\ f.left <= f.size /\ ~Flushed(s)
      /\ n \in Nat /\ stream[s].arrived \in Nat /\ stream[s].arrived + n <= Size(Message(s))
  BY Arriving
<1>2. world' = world /\ history' = history /\ loaded' = loaded
  BY DEF sseDataHandler
<1>3. stream[s].path = "response"
  BY <1>1, EventsRespond
<1>4. /\ stream'[s] = [stream[s] EXCEPT !.arrived = sum, !.outcome = outcome]
      /\ stream' = [stream EXCEPT ![s] = stream'[s]] /\ stream[s] \in StreamStates
  BY <1>1 DEF sseDataHandler, Types
<1>5. sum \in Nat /\ outcome \in Outcomes
  BY <1>1 DEF Outcomes
<1> HIDE DEF sum, outcome
<1>6. /\ stream'[s] \in StreamStates /\ stream'[s].path = "response" /\ stream'[s].arrived = sum
      /\ stream'[s].outcome = outcome /\ stream'[s].sent = stream[s].sent
  BY <1>3, <1>4, <1>5 DEF StreamStates
<1>7. /\ Message(s)' = Message(s) /\ Mode(s)' = Mode(s) /\ Size(Message(s))' = Size(Message(s))
      /\ \A e : Start(s, e)' = Start(s, e)
  <2>1. \A e : Start(s, e)' = Start(s, e)
    BY <1>2 DEF Start
  <2> QED BY <1>2, <1>3, <1>6, <2>1, SameStream
<1>8. Arrived(s)' /\ Whole(s)' /\ Request(s)' /\ Sent(s)'
  <2>1. Sent(s)'
    BY <1>2, <1>6, SentStays
  <2> QED BY <1>1, <1>6, <1>7, <2>1 DEF Arrived, Whole, Request, sum
<1>9. CASE f.closed
  <2>1. filter' = filter /\ outcome = "refused"
    BY <1>9 DEF sseDataHandler, outcome
  <2>2. Alters(s)
    BY <1>1, <1>2, <1>4, <1>6, <2>1 DEF Alters, Types, Document
  <2>3. End(s)' = End(s) /\ Submitted(s)' = Submitted(s) /\ ~Active(s)'
    BY <1>6, <2>1 DEF End, Submitted, Active
  <2>4. Content(s)' /\ Parser(s)' /\ Spans(s)' /\ Streamed(s)' /\ Covered(s)'
    BY <1>1, <1>2, <1>7, <2>1, <2>3 DEF Good, Content, Parser, Spans, Streamed, Covered
  <2>5. Where(s)'
    BY <1>1, <1>6, <2>1, <2>3 DEF Where
  <2> QED BY <1>8, <2>2, <2>4, <2>5, StepOfOne DEF Good
<1>10. CASE ~f.closed
  <2>1. p \in Parsers /\ ParserOK(p)
    BY <1>1, FilterFields DEF Good, Parser
  <2>2. /\ q \in Parsers /\ ParserOK(q)
        /\ q.base = p.base /\ q.len = p.len + n
        /\ q.parsedOffset = p.parsedOffset /\ q.lastParseEnd = p.lastParseEnd
    BY <1>1, <2>1, AppendDataOK
  <2> HIDE DEF q
  <2>3. /\ filter'[s] = [f EXCEPT !.parser = q, !.end = end, !.none = TRUE, !.pc = "parse"]
        /\ filter' = [filter EXCEPT ![s] = filter'[s]] /\ f \in Filters
    BY <1>1, <1>10 DEF sseDataHandler, Types, q
  <2>4. /\ filter'[s] \in Filters
        /\ filter'[s].content = f.content /\ filter'[s].left = f.left /\ filter'[s].size = f.size
        /\ filter'[s].closed = f.closed /\ filter'[s].end = end /\ filter'[s].parser = q
        /\ filter'[s].pc = "parse"
    BY <2>2, <2>3 DEF Filters, PCs
  <2>5. filter'[s].chunks = f.chunks
    BY <2>3 DEF Filters
  <2>6. outcome = "open"
    BY <1>1, <1>10 DEF outcome
  <2>7. Alters(s)
    BY <1>1, <1>2, <1>4, <1>6, <2>3, <2>4 DEF Alters, Types, Document
  <2>8. /\ End(s)' = End(s) /\ Submitted(s)' = {} /\ Judged(s)' = Judged(s) /\ Active(s) /\ Active(s)'
        /\ ~Flushed(s)' /\ Consumed(s)' = Consumed(s) /\ Counts(s)' = Counts(s)
    <3>1. Submitted(s)' = {} /\ Judged(s)' = Judged(s)
      BY <1>1, <1>2, <2>4, <2>5 DEF Submitted, Judged, Behind
    <3>2. Consumed(s)' = Consumed(s)
      BY <2>2, <2>4 DEF Consumed
    <3>3. Counts(s)' = Counts(s)
      BY <1>2, <2>4, <3>2 DEF Counts
    <3> QED BY <1>1, <1>6, <1>10, <2>4, <2>6, <3>1, <3>2, <3>3 DEF End, Active, Flushed
  <2>9. Content(s)' /\ Parser(s)' /\ Spans(s)'
    BY <1>1, <1>2, <1>7, <2>2, <2>4, <2>8 DEF Good, Content, Parser, Spans
  <2>10. Where(s)'
    BY <1>1, <1>7, <1>10, <2>4, <2>8 DEF Where
  <2>11. Streamed(s)'
    <3> DEFINE spans == history[s].spans["response"]
    <3>1. /\ p.base + p.len = stream[s].arrived
          /\ p.base + p.lastParseEnd = Parts * (Len(spans) + 0)
          /\ history[s].spare = 0 =>
               /\ ~Flushed(s) => Counts(s)
               /\ Consumed(s) + Parts * f.content.completed <= Parts * Len(spans)
               /\ \A i \in DOMAIN spans :
                    Parts * i <= Consumed(s) + Parts * f.content.completed =>
                      Joined(world, Judged(s), Start(s, "response"), spans[i].to)
      BY <1>1, <1>3, <2>8 DEF Good, Streamed
    <3>2. q.base + q.len = sum
      <4>1. p.base \in Nat /\ p.len \in Nat
        BY <2>1, ParserFields
      <4>2. p.base + p.len = stream[s].arrived /\ n \in Nat
        BY <1>1, <3>1
      <4>3. q.base = p.base /\ q.len = p.len + n
        BY <2>2
      <4> QED BY <4>1, <4>2, <4>3 DEF sum
    <3>3. /\ filter'[s].parser.base + filter'[s].parser.len = stream'[s].arrived
          /\ filter'[s].parser.base + filter'[s].parser.lastParseEnd =
               Parts * (Len(spans) + IF filter'[s].pc \in {"extract", "write"} THEN 1 ELSE 0)
      BY <1>6, <2>2, <2>4, <3>1, <3>2
    <3> HIDE DEF spans
    <3>4. history'[s].spans["response"] = spans /\ history'[s].spare = history[s].spare
      BY <1>2 DEF spans
    <3> QED BY <1>1, <1>2, <1>7, <2>4, <2>8, <3>1, <3>3, <3>4 DEF Streamed
  <2>12. Covered(s)'
    BY <1>1, <1>2, <1>3, <1>6, <1>7, <2>4, <2>8 DEF Good, Covered
  <2> QED BY <1>8, <2>7, <2>9, <2>10, <2>11, <2>12, StepOfOne DEF Good
<1> QED BY <1>9, <1>10

(* A body arrives that is a document, or a part of it.                     *)
LEMMA DocumentStep ==
  ASSUME IInv, NEW s \in Streams, At(s, "idle"), NEW n \in 0 .. Rest(s), NEW end \in BOOLEAN,
         Mode(s) = "whole", end => n = Rest(s), Message(s).contents # <<>>, dataHandler(s, n, end),
         UNCHANGED <<world, history>>
  PROVE  IInv'
<1> DEFINE f == filter[s]
           sum == stream[s].arrived + n
<1>1. /\ Types /\ Good(s) /\ f.pc = "idle" /\ stream[s].outcome = "open"
      /\ ~HasChunks(f.content) /\ Submitted(s) = {} /\ f.left <= f.size /\ ~Flushed(s)
      /\ n \in Nat /\ stream[s].arrived \in Nat /\ sum <= Size(Message(s))
      /\ n = Rest(s) => sum = Size(Message(s))
  BY Arriving
<1>2. world' = world /\ history' = history
  OBVIOUS
<1>3. PICK path \in Paths : path = stream[s].path
  BY <1>1, StreamFields
<1> DEFINE body == IF f.body = NoBody /\ end THEN NoBody ELSE [f.body EXCEPT ![path] = @ + n]
           valid == Message(s).valid /\ \A e \in Paths \ {path} : body[e] = 0
           data == IF body = NoBody THEN n ELSE 0
           pc == IF end THEN "extract" ELSE "idle"
           outcome == IF end /\ ~valid THEN "refused" ELSE stream[s].outcome
<1>4. /\ filter' = [filter EXCEPT ![s] = [f EXCEPT !.body = body, !.end = end, !.data = data, !.pc = pc]]
      /\ loaded' = IF ~end THEN loaded ELSE IF valid THEN <<s, path, 1>> ELSE <<>>
      /\ stream' = [stream EXCEPT ![s].arrived = @ + n, ![s].outcome = IF end /\ ~valid THEN "refused" ELSE @]
  BY <1>3 DEF dataHandler
<1>5. /\ stream'[s] = [stream[s] EXCEPT !.arrived = sum, !.outcome = outcome]
      /\ stream' = [stream EXCEPT ![s] = stream'[s]] /\ stream[s] \in StreamStates
  BY <1>1, <1>4 DEF Types
<1>6. /\ f.body \in [Paths -> Nat] /\ f.body[path] = stream[s].arrived
      /\ f.closed = FALSE /\ history[s].spans[path] = <<>>
  <2>1. f.closed \in BOOLEAN
    BY <1>1, FilterFields
  <2>2. f.closed = FALSE
    BY <1>1, <2>1 DEF Good, Where
  <2> QED BY <1>1, <1>3, <2>2, FilterFields DEF Good, Whole
<1>7. /\ NoBody \in [Paths -> Nat] /\ \A e \in Paths : NoBody[e] = 0
  BY DEF NoBody
<1>8. /\ body \in [Paths -> Nat] /\ \A e \in Paths \ {path} : body[e] = f.body[e]
      /\ ~end => body[path] = sum
      /\ end => sum = IF body = NoBody THEN data ELSE body[path]
  <2> HIDE DEF NoBody, sum
  <2>1. CASE f.body = NoBody /\ end
    <3>1. body = NoBody /\ data = n
      BY <2>1
    <3>2. stream[s].arrived = 0
      BY <1>6, <1>7, <2>1
    <3> QED BY <1>1, <1>6, <1>7, <2>1, <3>1, <3>2 DEF sum
  <2>2. CASE ~(f.body = NoBody /\ end)
    <3>1. body = [f.body EXCEPT ![path] = @ + n]
      BY <2>2
    <3>2. body \in [Paths -> Nat] /\ body[path] = sum /\ \A e \in Paths \ {path} : body[e] = f.body[e]
      BY <1>1, <1>6, <3>1 DEF sum
    <3>3. body = NoBody => sum = data
      <4>1. body = NoBody => sum = 0 /\ data = n
        BY <1>7, <3>2
      <4>2. sum = 0 => n = 0
        BY <1>1 DEF sum
      <4> QED BY <4>1, <4>2
    <3> QED BY <3>2, <3>3
  <2> QED BY <2>1, <2>2
<1>9. data \in Nat /\ pc \in PCs /\ outcome \in Outcomes /\ sum \in Nat /\ valid \in BOOLEAN
  <2>1. outcome \in Outcomes
    BY <1>1 DEF Outcomes
  <2>2. sum \in Nat /\ data \in Nat
    BY <1>1
  <2>3. valid \in BOOLEAN
    OBVIOUS
  <2>4. pc \in PCs
    BY DEF PCs
  <2> QED BY <2>1, <2>2, <2>3, <2>4
<1>10. loaded' = <<>> \/ Document(loaded)'
  <2>1. CASE ~end
    BY <1>1, <1>2, <1>4, <2>1 DEF Types, Document
  <2>2. CASE end /\ ~valid
    BY <1>4, <2>2
  <2>3. CASE end /\ valid
    <3>1. loaded' = <<s, path, 1>>
      BY <1>4, <2>3
    <3>2. Message(s) = world.message[s][path] /\ Message(s).contents \in Seq(Nat)
      BY <1>1, <1>3, MessageFields DEF Message
    <3>3. 1 \in DOMAIN world.message[s][path].contents
      BY <3>2
    <3> QED BY <1>2, <3>1, <3>3 DEF Document
  <2> QED BY <2>1, <2>2, <2>3
<1> HIDE DEF sum, body, data, pc, outcome, valid
<1>11. /\ stream'[s] \in StreamStates /\ stream'[s].path = path /\ stream'[s].arrived = sum
       /\ stream'[s].outcome = outcome /\ stream'[s].sent = stream[s].sent
  BY <1>3, <1>5, <1>9 DEF StreamStates
<1>12. /\ filter'[s] = [f EXCEPT !.body = body, !.end = end, !.data = data, !.pc = pc]
       /\ filter' = [filter EXCEPT ![s] = filter'[s]] /\ f \in Filters
  BY <1>1, <1>4 DEF Types
<1>13. /\ filter'[s] \in Filters
       /\ filter'[s].content = f.content /\ filter'[s].left = f.left /\ filter'[s].size = f.size
       /\ filter'[s].closed = FALSE /\ filter'[s].end = end /\ filter'[s].parser = f.parser
       /\ filter'[s].pc = pc /\ filter'[s].body = body /\ filter'[s].data = data
  BY <1>6, <1>8, <1>9, <1>12 DEF Filters
<1>14. filter'[s].chunks = f.chunks
  BY <1>12 DEF Filters
<1>15. Alters(s)
  BY <1>1, <1>2, <1>5, <1>10, <1>11, <1>12, <1>13 DEF Alters, Types
<1>16. stream'[s].path = stream[s].path
  BY <1>3, <1>11
<1>17. /\ Message(s)' = Message(s) /\ Mode(s)' = Mode(s) /\ Size(Message(s))' = Size(Message(s))
       /\ \A e : Start(s, e)' = Start(s, e)
  <2>1. \A e : Start(s, e)' = Start(s, e)
    BY <1>2 DEF Start
  <2> QED BY <1>2, <1>16, <2>1, SameStream
<1>18. /\ End(s)' = End(s) /\ Submitted(s)' = {} /\ Judged(s)' = Judged(s)
       /\ Active(s) /\ ~Flushed(s)'
  <2>1. Submitted(s)' = {} /\ Judged(s)' = Judged(s)
    BY <1>1, <1>2, <1>13, <1>14 DEF Submitted, Judged, Behind
  <2> QED BY <1>1, <1>6, <1>13, <2>1 DEF End, Active, Flushed, pc
<1>19. Content(s)' /\ Parser(s)' /\ Spans(s)' /\ Arrived(s)' /\ Streamed(s)' /\ Sent(s)'
  <2>1. Sent(s)'
    BY <1>2, <1>11, SentStays
  <2> QED BY <1>1, <1>2, <1>11, <1>13, <1>17, <1>18, <2>1 DEF Good, Content, Parser, Spans, Arrived, Streamed
<1>20. Where(s)'
  BY <1>1, <1>13, <1>17, <1>18 DEF Where, pc
<1>21. Whole(s)'
  <2>1. Released(s)' = IF body = NoBody THEN data ELSE body[path]
    BY <1>11, <1>13, <1>17 DEF Released
  <2>2. end => Released(s)' = Size(Message(s))
    <3>1. end => sum = Size(Message(s))
      BY <1>1
    <3> QED BY <1>8, <2>1, <3>1
  <2>3. filter'[s].pc = "idle" => filter'[s].body[path] = sum
    BY <1>8, <1>13 DEF pc
  <2>4. filter'[s].pc # "idle" => Released(s)' = Size(Message(s))
    BY <1>13, <2>2 DEF pc
  <2>5. filter'[s].pc \notin {"collect", "moderate", "release"} /\ history'[s].spans[path] = <<>>
    BY <1>2, <1>6, <1>13 DEF pc
  <2> QED BY <1>11, <1>17, <2>3, <2>4, <2>5 DEF Whole
<1>22. Request(s)'
  <2> SUFFICES ASSUME path = "request"
               PROVE  Request(s)'
    BY <1>11 DEF Request
  <2>1. "response" \in Paths \ {path}
    BY DEF Paths
  <2>2. body["response"] = f.body["response"]
    BY <1>8, <2>1
  <2>3. /\ f.parser = NewStreamEventParser /\ f.body["response"] = 0 /\ f.content = NewContentBuffer
        /\ history[s].spans["response"] = <<>> /\ history[s].spare = 0
        /\ stream[s].sent = [d \in Paths |-> 0]
    BY <1>1, <1>3 DEF Good, Request
  <2> QED BY <1>2, <1>11, <1>13, <2>2, <2>3 DEF Request
<1>23. Covered(s)'
  <2>1. CoveredBy(world, Judged(s), Start(s, stream[s].path), f.content)
    BY <1>1, <1>18 DEF Good, Covered
  <2> QED BY <1>2, <1>13, <1>16, <1>17, <1>18, <2>1 DEF Covered
<1> QED BY <1>15, <1>19, <1>20, <1>21, <1>22, <1>23, StepOfOne DEF Good

(* Receive.                                                                *)
LEMMA ReceiveStep ==
  ASSUME IInv, NEW s \in Streams, Receive(s)
  PROVE  IInv'
<1>1. /\ At(s, "idle") /\ Message(s).contents # <<>> /\ UNCHANGED <<world, history>>
      /\ Mode(s) \in {"whole", "stream", "wait"}
  <2>1. Mode(s) \in {"whole", "stream", "wait"}
    BY MessageFields DEF IInv
  <2> QED BY <2>1 DEF Receive
<1>2. PICK n \in 0 .. Rest(s), end \in BOOLEAN :
        CASE Mode(s) = "whole" -> /\ end => n = Rest(s) /\ ~Message(s).trailers
                                  /\ dataHandler(s, n, end)
          [] Mode(s) = "stream" -> /\ end => n = Rest(s) /\ ~Message(s).trailers
                                   /\ sseDataHandler(s, n, end)
          [] Mode(s) = "wait" -> /\ n = Rest(s) /\ end
                                 /\ sseDataHandler(s, n, end)
  BY DEF Receive
<1>3. CASE Mode(s) = "whole"
  <2>1. (end => n = Rest(s)) /\ dataHandler(s, n, end)
    BY <1>2, <1>3
  <2> QED BY <1>1, <1>3, <2>1, DocumentStep
<1>4. CASE Mode(s) = "stream"
  <2>1. sseDataHandler(s, n, end)
    BY <1>2, <1>4
  <2> QED BY <1>1, <1>4, <2>1, EventsStep
<1>5. CASE Mode(s) = "wait"
  <2>1. end /\ sseDataHandler(s, n, end)
    BY <1>2, <1>5
  <2> QED BY <1>1, <1>5, <2>1, EventsStep
<1> QED BY <1>1, <1>3, <1>4, <1>5

(* Every step of every stream keeps the inductive invariant.               *)
LEMMA Keeps ==
  ASSUME IInv, [Next]_vars
  PROVE  IInv'
<1>1. CASE UNCHANGED vars
  <2>1. world' = world /\ loaded' = loaded /\ filter' = filter /\ stream' = stream /\ history' = history
    BY <1>1 DEF vars
  <2>2. Types'
    BY <2>1 DEF IInv, Types, Document
  <2>3. \A s \in Streams : Good(s)'
    BY <2>1, Unmoved DEF IInv
  <2> QED BY <2>2, <2>3 DEF IInv
<1>2. CASE Next
  <2>1. PICK s \in Streams : Receive(s) \/ ReceiveEnd(s) \/ Handler(s)
    BY <1>2 DEF Next
  <2>2. CASE Receive(s)
    BY <2>2, ReceiveStep
  <2>3. CASE ReceiveEnd(s)
    BY <2>3, ReceiveEndStep
  <2>4. CASE Parse(s)
    BY <2>4, ParseStep
  <2>5. CASE Extract(s)
    BY <2>5, ExtractStep
  <2>6. CASE Char(s)
    BY <2>6, CharStep
  <2>7. CASE Counted(s)
    BY <2>7, CountedStep
  <2>8. CASE Collect(s)
    BY <2>8, CollectStep
  <2>9. CASE Moderate(s)
    BY <2>9, ModerateStep
  <2>10. CASE Release(s)
    BY <2>10, ReleaseStep
  <2> QED BY <2>1, <2>2, <2>3, <2>4, <2>5, <2>6, <2>7, <2>8, <2>9, <2>10 DEF Handler
<1> QED BY <1>1, <1>2

-----------------------------------------------------------------------------
(* What the inductive invariant says of the offsets and boundaries.        *)
LEMMA InvariantTyped ==
  ASSUME IInv
  PROVE  TypeOK
<1>1. Types
  BY DEF IInv
<1> SUFFICES ASSUME NEW s \in Streams
             PROVE  /\ ParserOK(filter[s].parser) /\ ContentOK(filter[s].content)
                    /\ filter[s].left <= filter[s].size
                    /\ At(s, "idle") => filter[s].chunks = <<>> /\ filter[s].content.boundaries = <<>>
                    /\ stream[s].arrived <= Size(Message(s))
  BY <1>1 DEF TypeOK, Types
<1>2. Good(s)
  BY DEF IInv
<1>3. ParserOK(filter[s].parser) /\ filter[s].left <= filter[s].size /\ stream[s].arrived <= Size(Message(s))
  BY <1>2 DEF Good, Parser, Where, Arrived
<1>4. ContentOK(filter[s].content)
  BY <1>2 DEF Good, Content, BufferOK, SegmentsOK, ContentOK
<1>5. ASSUME At(s, "idle")
      PROVE  filter[s].chunks = <<>> /\ filter[s].content.boundaries = <<>>
  <2>1. ~HasChunks(filter[s].content) /\ Submitted(s) = {}
    BY <1>2, <1>5 DEF Good, Where, At
  <2>2. filter[s].chunks \in Seq(Chars)
    BY <1>1, FilterFields DEF CharSeqs
  <2>3. filter[s].chunks # <<>> => 1 \in DOMAIN filter[s].chunks
    BY <2>2
  <2> QED BY <2>1, <2>3 DEF HasChunks, Submitted
<1> QED BY <1>3, <1>4, <1>5

(* An event that has left was written, and lies in what was allowed.       *)
LEMMA SentEvents ==
  ASSUME IInv, NEW s \in Streams, NEW d \in Paths, Exact(s), NEW i \in 1 .. EventsSent(s, d)
  PROVE  LET spans == history[s].spans[d]
         IN /\ i \in DOMAIN spans /\ 1 \in DOMAIN spans
            /\ \A j \in DOMAIN spans : spans[j].from \in Nat /\ spans[j].to \in Nat
            /\ \A j \in DOMAIN spans : Start(s, d) <= spans[j].from
            /\ Joined(world, history[s].passed, Start(s, d), spans[i].to)
<1> DEFINE spans == history[s].spans[d]
           sent == stream[s].sent[d]
<1>1. Types /\ Good(s) /\ history[s].spare = 0
  BY DEF IInv, Exact
<1>2. spans \in Seq(Chars) /\ sent \in Nat
  BY <1>1, HistoryFields, StreamFields DEF CharSeqs
<1>3. Len(spans) \in Nat /\ DOMAIN spans = 1 .. Len(spans) /\ \A j \in DOMAIN spans : spans[j] \in Chars
  BY <1>2
<1>4. /\ sent <= Parts * Len(spans)
      /\ \A j \in DOMAIN spans :
           Parts * j <= sent => Joined(world, history[s].passed, Start(s, d), spans[j].to)
  BY <1>1 DEF Good, Sent
<1>5. i \in 1 .. (sent \div Parts)
  BY DEF EventsSent
<1>6. \A j \in DOMAIN spans : Start(s, d) <= spans[j].from
  BY <1>1 DEF Good, Spans
<1>7. \A j \in DOMAIN spans : spans[j].from \in Nat /\ spans[j].to \in Nat
  BY <1>3 DEF Chars
<1> HIDE DEF spans, sent
<1>8. Parts * i <= sent /\ i \in Nat /\ i >= 1
  BY <1>2, <1>5 DEF Parts
<1>9. i \in 1 .. Len(spans) /\ 1 \in 1 .. Len(spans)
  BY <1>2, <1>3, <1>4, <1>8 DEF Parts
<1> QED BY <1>3, <1>4, <1>6, <1>7, <1>8, <1>9 DEF spans

(* Of an event that has left, each character was allowed.                  *)
LEMMA InvariantPassed ==
  ASSUME IInv
  PROVE  ReleasedPassed
<1> SUFFICES ASSUME NEW s \in Streams, NEW d \in Paths, Exact(s), NEW i \in 1 .. EventsSent(s, d)
             PROVE  /\ i \in DOMAIN history[s].spans[d]
                    /\ \A c \in history[s].spans[d][i].from + 1 .. history[s].spans[d][i].to :
                         \E p \in history[s].passed : In(p, c)
  BY DEF ReleasedPassed
<1> DEFINE spans == history[s].spans[d]
<1>1. /\ i \in DOMAIN spans
      /\ spans[i].from \in Nat /\ spans[i].to \in Nat /\ Start(s, d) <= spans[i].from
      /\ Joined(world, history[s].passed, Start(s, d), spans[i].to)
  BY SentEvents
<1>2. Start(s, d) \in Nat /\ world.overlap \in Nat
  BY StartNat, WorldFields DEF IInv
<1> HIDE DEF spans
<1>3. ASSUME NEW c \in spans[i].from + 1 .. spans[i].to
      PROVE  \E p \in history[s].passed : In(p, c)
  <2>1. c \in Start(s, d) + 1 .. spans[i].to /\ c <= c /\ c <= c + world.overlap
    BY <1>1, <1>2
  <2> QED BY <1>1, <2>1 DEF Joined
<1> QED BY <1>1, <1>3 DEF spans

(* Of the events that have left, near characters were allowed together.    *)
LEMMA InvariantContext ==
  ASSUME IInv
  PROVE  InContext
<1> SUFFICES ASSUME NEW s \in Streams, NEW d \in Paths, Exact(s), EventsSent(s, d) > 0,
                    NEW a \in history[s].spans[d][1].from + 1 .. history[s].spans[d][EventsSent(s, d)].to,
                    NEW b \in 1 .. history[s].spans[d][EventsSent(s, d)].to,
                    a <= b, b <= a + world.overlap
             PROVE  \E p \in history[s].passed : In(p, a) /\ In(p, b)
  BY DEF InContext
<1> DEFINE spans == history[s].spans[d]
           n == EventsSent(s, d)
<1>1. n \in 1 .. n
  <2>1. stream[s].sent[d] \in Nat
    BY StreamFields DEF IInv
  <2> QED BY <2>1 DEF EventsSent, Parts
<1>2. /\ n \in DOMAIN spans /\ 1 \in DOMAIN spans
      /\ \A j \in DOMAIN spans : spans[j].from \in Nat /\ spans[j].to \in Nat
      /\ \A j \in DOMAIN spans : Start(s, d) <= spans[j].from
      /\ Joined(world, history[s].passed, Start(s, d), spans[n].to)
  BY <1>1, SentEvents
<1>3. Start(s, d) \in Nat
  BY StartNat DEF IInv
<1>4. a \in spans[1].from + 1 .. spans[n].to /\ b \in 1 .. spans[n].to
  OBVIOUS
<1> HIDE DEF spans, n
<1>5. a \in Start(s, d) + 1 .. spans[n].to /\ b \in Start(s, d) + 1 .. spans[n].to
  BY <1>2, <1>3, <1>4
<1> QED BY <1>2, <1>5 DEF Joined

-----------------------------------------------------------------------------
(* What a stream is held back for.  Chunks end no later than the overlap   *)
(* of the one being built; the events that have not left end in that one,  *)
(* and those counted for its overlap where the next one begins, or later.  *)
Frontier(c) == c.base + c.currStart
Reached(X, n) == \A p \in X : p.to <= n
Pending(c, k, spans) ==
  \A i \in DOMAIN spans :
    /\ Len(spans) < i + c.currEvents + c.overlapEvents => Frontier(c) <= spans[i].to
    /\ Len(spans) < i + c.overlapEvents => Frontier(c) + k.max <= spans[i].to + k.overlap
Overlapping(c, k) == c.overlapEvents > 0 => inOverlap(c, k)

Responds(s) == Active(s) /\ stream[s].path = "response" /\ Mode(s) # "whole"
Uncounted(s) == Consumed(s) + Parts * Total(filter[s].content) < Parts * Len(history[s].spans["response"])
Held(s) ==
  LET c == filter[s].content
  IN /\ Reached(Judged(s), Frontier(c) + world.overlap)
     /\ Overlapping(c, world)
     /\ Active(s) /\ ~Flushed(s) => Pending(c, world, history[s].spans["response"])
     /\ Responds(s) =>
          /\ ~Uncounted(s)
          /\ filter[s].pc \notin {"moderate", "release"} => stream[s].sent["response"] = Consumed(s)
-----------------------------------------------------------------------------
(* The content buffer once more: where chunks end, and events.             *)
(* A new chunk ends where the overlap of the next one does, at the latest. *)
LEMMA NewChunkReaches ==
  ASSUME NEW k, k.max \in Nat, k.overlap \in Nat, k.overlap < k.max,
         NEW c \in Buffers, c.len = c.currStart + c.currChars, c.currChars > 0,
         NEW b \in BOOLEAN, b \/ c.currChars = k.max,
         NEW X \in SUBSET Chars, Ready(c) \subseteq Chars,
         Reached(X \union Ready(c), Frontier(c) + k.overlap)
  PROVE  LET d == startNewChunk(c, k, b)
         IN Reached(X \union Ready(d), Frontier(d) + k.overlap)
<1> DEFINE d == startNewChunk(c, k, b)
           seg == [start |-> c.currStart, end |-> c.len]
<1>1. /\ c.base \in Nat /\ c.len \in Nat /\ c.currStart \in Nat /\ c.currChars \in Nat
  BY BufferFields
<1>2. /\ d.base = c.base /\ d.len = c.len /\ d.boundaries = Append(c.boundaries, seg)
      /\ d.currStart = (IF b THEN c.len ELSE c.len - k.overlap)
  BY NewChunkFields
<1> HIDE DEF d
<1>3. c.boundaries \in Seq(Segments) /\ seg \in Segments /\ seg.end = c.len
  BY <1>1, BufferFields DEF SegmentSeqs, Segments
<1> HIDE DEF seg
<1>4. Frontier(c) + k.overlap <= Frontier(d) + k.overlap /\ c.base + c.len <= Frontier(d) + k.overlap
      /\ Frontier(c) + k.overlap \in Nat /\ Frontier(d) + k.overlap \in Nat
  <2>1. CASE b
    <3>1. d.base = c.base /\ d.currStart = c.len
      BY <1>2, <2>1
    <3>2. c.currStart <= c.len
      BY <1>1
    <3> QED BY <1>1, <3>1, <3>2 DEF Frontier
  <2>2. CASE ~b
    <3>1. d.currStart = c.len - k.overlap /\ c.currChars = k.max
      BY <1>2, <2>2
    <3> QED BY <1>1, <1>2, <3>1 DEF Frontier
  <2> QED BY <2>1, <2>2
<1>5. ASSUME NEW p \in Ready(d)
      PROVE  p \in Ready(c) \/ p.to = c.base + c.len
  <2>1. PICK i \in DOMAIN d.boundaries : p = Chunks(d)[i]
    BY DEF Ready
  <2>2. p.to = d.base + d.boundaries[i].end
    BY <2>1 DEF Chunks
  <2>3. CASE i \in DOMAIN c.boundaries
    <3>1. d.boundaries[i] = c.boundaries[i]
      BY <1>2, <1>3, <2>3, Appended
    <3>2. p = Chunks(c)[i]
      BY <1>2, <2>1, <2>3, <3>1 DEF Chunks
    <3> QED BY <2>3, <3>2 DEF Ready
  <2>4. CASE i \notin DOMAIN c.boundaries
    <3>1. d.boundaries[i] = seg
      BY <1>2, <1>3, <2>4, Appended
    <3> QED BY <1>2, <1>3, <2>2, <3>1
  <2> QED BY <2>3, <2>4
<1>6. ASSUME NEW p \in X \union Ready(d)
      PROVE  p.to <= Frontier(d) + k.overlap
  <2>1. CASE p.to = c.base + c.len
    BY <1>4, <2>1
  <2>2. CASE p \in X \union Ready(c)
    <3>1. p.to \in Nat /\ p.to <= Frontier(c) + k.overlap
      BY <2>2 DEF Reached, Chars
    <3> QED BY <1>4, <3>1
  <2> QED BY <1>5, <2>1, <2>2
<1> QED BY <1>6 DEF Reached, d

(* Chunks that are ready are ranges of characters.                         *)
LEMMA ReadyChars ==
  ASSUME NEW c \in Buffers
  PROVE  Ready(c) \in SUBSET Chars
<1>1. Chunks(c) \in Seq(Chars) /\ {Chunks(c)[i] : i \in DOMAIN Chunks(c)} = Ready(c)
  BY ChunksOK DEF CharSeqs
<1>2. \A i \in DOMAIN Chunks(c) : Chunks(c)[i] \in Chars
  BY <1>1
<1> QED BY <1>1, <1>2

(* Write: the events in the overlap are those that end in the next chunk.  *)
LEMMA WriteCharPends ==
  ASSUME NEW k, k.max \in Nat, k.overlap \in Nat, k.overlap < k.max,
         NEW c \in Buffers, BufferOK(c, k), NEW X \in SUBSET Chars,
         Reached(X \union Ready(c), Frontier(c) + k.overlap), Overlapping(c, k)
  PROVE  LET d == WriteChar(c, k)
         IN /\ Reached(X \union Ready(d), Frontier(d) + k.overlap) /\ Overlapping(d, k)
            /\ \A spans \in CharSeqs : Pending(c, k, spans) => Pending(d, k, spans)
            /\ \/ /\ d.currChars = c.currChars + 1 /\ Frontier(d) = Frontier(c)
                  /\ HasChunks(d) = HasChunks(c) /\ d.currEvents = c.currEvents
               \/ /\ d.currChars = k.overlap /\ Frontier(d) + k.overlap = Frontier(c) + k.max
                  /\ d.currEvents = c.overlapEvents
<1> DEFINE d == WriteChar(c, k)
           m == More(c)
<1>1. /\ c.base \in Nat /\ c.len \in Nat /\ c.currStart \in Nat /\ c.currChars \in Nat
      /\ c.currEvents \in Nat /\ c.overlapEvents \in Nat
  BY BufferFields
<1>2. /\ m \in Buffers
      /\ m.len = c.len + 1 /\ m.currChars = c.currChars + 1
      /\ m.base = c.base /\ m.currStart = c.currStart
      /\ m.boundaries = c.boundaries
      /\ m.currEvents = c.currEvents /\ m.overlapEvents = c.overlapEvents
  BY MoreFields
<1>3. d = IF m.currChars = k.max THEN startNewChunk(m, k, FALSE) ELSE m
  BY DEF WriteChar, More
<1>4. c.currChars < k.max /\ c.len = c.currStart + c.currChars
  BY DEF BufferOK
<1> HIDE DEF d, m
<1>5. Ready(m) = Ready(c) /\ Frontier(m) = Frontier(c) /\ HasChunks(m) = HasChunks(c)
  BY <1>2 DEF Ready, Chunks, Frontier, HasChunks
<1>6. CASE m.currChars = k.max
  <2>1. d = startNewChunk(m, k, FALSE)
    BY <1>3, <1>6
  <2>2. m.len = m.currStart + m.currChars /\ m.currChars > 0
    BY <1>1, <1>2, <1>4
  <2>3. /\ d.base = m.base /\ d.len = m.len
        /\ d.currEvents = m.overlapEvents /\ d.overlapEvents = 0
        /\ d.currStart = m.len - k.overlap /\ d.currChars = k.overlap
    BY <1>2, <1>6, <2>1, <2>2, NewChunkFields
  <2>4. Reached(X \union Ready(d), Frontier(d) + k.overlap)
    BY <1>2, <1>5, <1>6, <2>1, <2>2, ReadyChars, NewChunkReaches
  <2>5. Overlapping(d, k)
    BY <2>3 DEF Overlapping
  <2>6. Frontier(d) + k.overlap = Frontier(c) + k.max /\ Frontier(c) \in Nat /\ Frontier(d) \in Nat
    BY <1>1, <1>2, <1>6, <2>2, <2>3 DEF Frontier
  <2>7. ASSUME NEW spans \in CharSeqs, Pending(c, k, spans)
        PROVE  Pending(d, k, spans)
    <3> SUFFICES ASSUME NEW i \in DOMAIN spans, Len(spans) < i + c.overlapEvents
                 PROVE  Frontier(d) <= spans[i].to
      <4>1. spans \in Seq(Chars)
        BY DEF CharSeqs
      <4>2. Len(spans) \in Nat /\ DOMAIN spans = 1 .. Len(spans)
        BY <4>1
      <4> QED BY <1>1, <1>2, <2>3, <4>2 DEF Pending
    <3>1. Frontier(c) + k.max <= spans[i].to + k.overlap
      BY <2>7 DEF Pending
    <3>2. spans \in Seq(Chars)
      BY DEF CharSeqs
    <3>3. spans[i] \in Chars
      BY <3>2
    <3>4. spans[i].to \in Nat
      BY <3>3 DEF Chars
    <3> QED BY <2>6, <3>1, <3>4
  <2> QED BY <1>2, <2>3, <2>4, <2>5, <2>6, <2>7 DEF d
<1>7. CASE m.currChars # k.max
  <2>1. d = m
    BY <1>3, <1>7
  <2>2. Overlapping(d, k)
    BY <1>1, <1>2, <2>1 DEF Overlapping, inOverlap
  <2>3. \A spans \in CharSeqs : Pending(c, k, spans) => Pending(d, k, spans)
    BY <1>2, <1>5, <2>1 DEF Pending
  <2> QED BY <1>2, <1>5, <2>1, <2>2, <2>3 DEF d
<1> QED BY <1>6, <1>7

(* Write counts an event that ends in the chunk being built, and as one of *)
(* the overlap if it will end in the next one, too.                        *)
LEMMA CountEventPends ==
  ASSUME NEW k, k.max \in Nat, k.overlap \in Nat,
         NEW c \in Buffers, BufferOK(c, k), NEW n \in Nat, Overlapping(c, k)
  PROVE  LET d == CountEvent(c, k, n)
         IN /\ Overlapping(d, k)
            /\ \A old \in CharSeqs : \A seg \in Chars : \A grown :
                 /\ grown = WithOne(old, seg)
                 /\ seg.to = c.base + c.len
                 /\ Pending(c, k, old)
                 => Pending(d, k, grown)
            /\ d.currEvents = c.currEvents \/ d.currEvents = c.currEvents + 1
            /\ n > 0 /\ k.overlap = 0 /\ c.currChars = 0 => d.currEvents = c.currEvents
<1> DEFINE d == CountEvent(c, k, n)
           done == c.completed + 1
           ends == c.currEvents + 1
           again == c.overlapEvents + 1
<1>1. /\ c.base \in Nat /\ c.len \in Nat /\ c.currStart \in Nat /\ c.currChars \in Nat
      /\ c.completed \in Nat /\ c.currEvents \in Nat /\ c.overlapEvents \in Nat
  BY BufferFields
<1>2. c.len = c.currStart + c.currChars /\ c.currChars < k.max
  BY DEF BufferOK
<1>3. \/ /\ n > 0 /\ k.overlap = 0 /\ c.currChars = 0
         /\ d = [c EXCEPT !.completed = done]
      \/ /\ ~(n > 0 /\ k.overlap = 0 /\ c.currChars = 0)
         /\ inOverlap(c, k) /\ d = [c EXCEPT !.overlapEvents = again]
      \/ /\ ~(n > 0 /\ k.overlap = 0 /\ c.currChars = 0)
         /\ ~inOverlap(c, k) /\ d = [c EXCEPT !.currEvents = ends]
  BY DEF CountEvent
<1>4. c.overlapEvents = 0 \/ inOverlap(c, k)
  BY <1>1 DEF Overlapping
<1>5. (k.overlap = 0 /\ c.currChars = 0) => ~inOverlap(c, k)
  BY <1>1 DEF inOverlap
<1> HIDE DEF d, done, ends, again
<1>6. d.base = c.base /\ d.currStart = c.currStart /\ d.currChars = c.currChars
  BY <1>3 DEF Buffers
<1>7. \/ /\ n > 0 /\ k.overlap = 0 /\ c.currChars = 0
         /\ d.currEvents = c.currEvents /\ d.overlapEvents = 0 /\ c.overlapEvents = 0
      \/ /\ ~(n > 0 /\ k.overlap = 0 /\ c.currChars = 0)
         /\ inOverlap(c, k) /\ d.currEvents = c.currEvents /\ d.overlapEvents = again
      \/ /\ ~(n > 0 /\ k.overlap = 0 /\ c.currChars = 0)
         /\ d.currEvents = ends /\ d.overlapEvents = 0 /\ c.overlapEvents = 0
  BY <1>3, <1>4, <1>5 DEF Buffers
<1>8. \/ inOverlap(c, k) /\ d.overlapEvents = again
      \/ d.overlapEvents = 0 /\ c.overlapEvents = 0
  BY <1>7
<1>9. Overlapping(d, k)
  BY <1>6, <1>8 DEF Overlapping, inOverlap
<1>10. ASSUME NEW old \in CharSeqs, NEW seg \in Chars, NEW grown, grown = WithOne(old, seg),
              seg.to = c.base + c.len, Pending(c, k, old)
       PROVE  Pending(d, k, grown)
  <2>1. /\ Len(old) \in Nat /\ Len(grown) = Len(old) + 1
        /\ \A i \in DOMAIN grown : InOneMore(i, old, seg, grown)
    BY <1>10, OneMore
  <2> SUFFICES ASSUME NEW i \in DOMAIN grown
               PROVE  /\ Len(grown) < i + d.currEvents + d.overlapEvents => Frontier(d) <= grown[i].to
                      /\ Len(grown) < i + d.overlapEvents => Frontier(d) + k.max <= grown[i].to + k.overlap
    BY DEF Pending
  <2>2. /\ i \in Nat
        /\ \/ i \in DOMAIN old /\ i <= Len(old) /\ grown[i] = old[i]
           \/ i = Len(grown) /\ grown[i] = seg
    BY <2>1 DEF InOneMore
  <2>3. Frontier(d) = Frontier(c) /\ Frontier(c) \in Nat /\ Frontier(c) + c.currChars = c.base + c.len
    BY <1>1, <1>2, <1>6 DEF Frontier
  <2>4. CASE i = Len(grown) /\ grown[i] = seg
    <3>1. Frontier(d) <= seg.to
      BY <1>1, <1>10, <2>3
    <3>2. inOverlap(c, k) => Frontier(d) + k.max <= seg.to + k.overlap
      BY <1>1, <1>10, <2>3 DEF inOverlap
    <3>3. d.overlapEvents = 0 => ~(Len(grown) < i + d.overlapEvents)
      BY <2>1, <2>4
    <3> QED BY <1>8, <2>4, <3>1, <3>2, <3>3
  <2>5. CASE i \in DOMAIN old /\ i <= Len(old) /\ grown[i] = old[i]
    <3>1. /\ Len(old) < i + c.currEvents + c.overlapEvents => Frontier(c) <= old[i].to
          /\ Len(old) < i + c.overlapEvents => Frontier(c) + k.max <= old[i].to + k.overlap
      BY <1>10, <2>5 DEF Pending
    <3>2. /\ Len(grown) < i + d.currEvents + d.overlapEvents => Len(old) < i + c.currEvents + c.overlapEvents
          /\ Len(grown) < i + d.overlapEvents => Len(old) < i + c.overlapEvents
      <4>1. /\ d.currEvents \in Nat /\ d.overlapEvents \in Nat
            /\ d.currEvents + d.overlapEvents <= c.currEvents + c.overlapEvents + 1
            /\ d.overlapEvents <= c.overlapEvents + 1
        BY <1>1, <1>7 DEF ends, again
      <4>2. Len(old) \in Nat /\ Len(grown) = Len(old) + 1 /\ i \in Nat
        BY <2>1, <2>2
      <4> DEFINE m == Len(old)
                 n1 == Len(grown)
                 x == d.currEvents
                 y == d.overlapEvents
                 v == c.currEvents
                 w == c.overlapEvents
      <4>3. m \in Nat /\ n1 = m + 1 /\ x \in Nat /\ y \in Nat /\ v \in Nat /\ w \in Nat /\ i \in Nat
            /\ x + y <= v + w + 1 /\ y <= w + 1
        BY <1>1, <4>1, <4>2
      <4> HIDE DEF m, n1, x, y, v, w
      <4>4. (n1 < i + x + y => m < i + v + w) /\ (n1 < i + y => m < i + w)
        BY <4>3
      <4> QED BY <4>4 DEF m, n1, x, y, v, w
    <3> QED BY <2>3, <2>5, <3>1, <3>2
  <2> QED BY <2>2, <2>4, <2>5
<1>11. /\ d.currEvents = c.currEvents \/ d.currEvents = c.currEvents + 1
       /\ n > 0 /\ k.overlap = 0 /\ c.currChars = 0 => d.currEvents = c.currEvents
  BY <1>7 DEF ends
<1> QED BY <1>9, <1>10, <1>11 DEF d

(* Flush: the last chunk ends where the buffer does.                       *)
LEMMA FlushPends ==
  ASSUME NEW k, k.max \in Nat, k.overlap \in Nat, k.overlap < k.max,
         NEW c \in Buffers, BufferOK(c, k), NEW X \in SUBSET Chars,
         Reached(X \union Ready(c), Frontier(c) + k.overlap), Overlapping(c, k)
  PROVE  LET d == Flush(c, k)
         IN /\ Reached(X \union Ready(d), Frontier(d) + k.overlap) /\ Overlapping(d, k)
            /\ \/ HasChunks(d) /\ d.completed = Total(c)
               \/ c.currChars = 0 /\ d = c /\ c.overlapEvents = 0
<1> DEFINE d == Flush(c, k)
           ends == c.currEvents + c.overlapEvents
           e == [c EXCEPT !.currEvents = ends]
<1>1. /\ c.base \in Nat /\ c.len \in Nat /\ c.currStart \in Nat /\ c.currChars \in Nat
      /\ c.completed \in Nat /\ c.currEvents \in Nat /\ c.overlapEvents \in Nat
  BY BufferFields
<1>2. SegmentsOK(c) /\ c.len = c.currStart + c.currChars /\ c.currChars < k.max
  BY DEF BufferOK
<1>3. d = IF c.currChars = 0 THEN c ELSE startNewChunk(e, k, TRUE)
  BY DEF Flush
<1>4. ends \in Nat
  BY <1>1
<1> HIDE DEF d
<1>5. CASE c.currChars = 0
  <2>1. d = c
    BY <1>3, <1>5
  <2>2. c.overlapEvents = 0
    BY <1>1, <1>5 DEF Overlapping, inOverlap
  <2> QED BY <1>5, <2>1, <2>2 DEF d
<1>6. CASE c.currChars # 0
  <2> HIDE DEF ends
  <2>1. e \in Buffers
    BY <1>4 DEF Buffers
  <2>2. /\ e.base = c.base /\ e.len = c.len /\ e.currStart = c.currStart
        /\ e.currChars = c.currChars /\ e.boundaries = c.boundaries /\ e.completed = c.completed
        /\ e.currEvents = ends /\ e.overlapEvents = c.overlapEvents
    BY DEF Buffers
  <2>3. d = startNewChunk(e, k, TRUE)
    BY <1>3, <1>6
  <2> HIDE DEF e
  <2>4. e.currChars > 0 /\ e.len = e.currStart + e.currChars
    BY <1>1, <1>2, <1>6, <2>2
  <2>5. SegmentsOK(e) /\ Ready(e) = Ready(c) /\ Frontier(e) = Frontier(c)
    BY <1>2, <2>2 DEF SegmentsOK, Ready, Chunks, Frontier
  <2>6. /\ d.completed = e.completed + e.currEvents /\ d.overlapEvents = 0
    BY <2>1, <2>3, <2>4, NewChunkFields
  <2>7. HasChunks(d)
    BY <2>1, <2>3, <2>4, <2>5, NewChunkOK
  <2>8. Reached(X \union Ready(d), Frontier(d) + k.overlap)
    BY <2>1, <2>3, <2>4, <2>5, ReadyChars, NewChunkReaches
  <2>9. d.completed = Total(c)
    BY <1>1, <2>2, <2>6 DEF Total, ends
  <2>10. Overlapping(d, k)
    BY <2>6 DEF Overlapping
  <2> QED BY <2>7, <2>8, <2>9, <2>10 DEF d
<1> QED BY <1>5, <1>6

(* GetCompletedResult leaves the chunk being built, and its events, unless *)
(* there is none.                                                          *)
LEMMA RetrievedPends ==
  ASSUME NEW k, NEW c \in Buffers, BufferOK(c, k), Overlapping(c, k)
  PROVE  LET d == Retrieved(c)
         IN /\ Frontier(d) = Frontier(c) /\ d.currChars = c.currChars
            /\ d.currEvents \in Nat /\ d.currEvents <= c.currEvents
            /\ d.overlapEvents = c.overlapEvents
            /\ Overlapping(d, k)
            /\ \A spans \in CharSeqs : Pending(c, k, spans) => Pending(d, k, spans)
<1> DEFINE d == Retrieved(c)
<1>1. /\ c.base \in Nat /\ c.len \in Nat /\ c.currStart \in Nat /\ c.currChars \in Nat
      /\ c.completed \in Nat /\ c.currEvents \in Nat /\ c.overlapEvents \in Nat
  BY BufferFields
<1>2. c.len = c.currStart + c.currChars /\ (HasChunks(c) => c.currStart > 0)
  BY DEF BufferOK
<1>3. /\ Frontier(d) = Frontier(c) /\ d.currChars = c.currChars
      /\ d.currEvents \in Nat /\ d.currEvents <= c.currEvents
      /\ d.overlapEvents = c.overlapEvents
  <2>1. CASE ~HasChunks(c) /\ c.currChars = 0
    <3>1. d = [c EXCEPT !.currEvents = 0]
      BY <2>1 DEF Retrieved, HasChunks
    <3> HIDE DEF d
    <3>2. /\ d.base = c.base /\ d.currStart = c.currStart /\ d.currChars = c.currChars
          /\ d.currEvents = 0 /\ d.overlapEvents = c.overlapEvents
      BY <3>1 DEF Buffers
    <3> QED BY <1>1, <3>2 DEF Frontier
  <2>2. CASE ~HasChunks(c) /\ c.currChars # 0
    <3>1. d = c
      BY <2>2 DEF Retrieved, HasChunks
    <3> QED BY <1>1, <3>1
  <2>3. CASE HasChunks(c)
    <3> DEFINE base == c.base + c.currStart
               len == c.len - c.currStart
    <3>1. d = [c EXCEPT !.base = base, !.len = len, !.boundaries = <<>>, !.completed = 0, !.currStart = 0]
      BY <1>1, <1>2, <2>3 DEF Retrieved, HasChunks
    <3> HIDE DEF d, base, len
    <3>2. /\ d.base = base /\ d.currStart = 0 /\ d.currChars = c.currChars
          /\ d.currEvents = c.currEvents /\ d.overlapEvents = c.overlapEvents
      BY <3>1 DEF Buffers
    <3> QED BY <1>1, <3>2 DEF Frontier, base
  <2> QED BY <2>1, <2>2, <2>3
<1> HIDE DEF d
<1>4. Overlapping(d, k)
  BY <1>3 DEF Overlapping, inOverlap
<1>5. ASSUME NEW spans \in CharSeqs, Pending(c, k, spans)
      PROVE  Pending(d, k, spans)
  <2>1. spans \in Seq(Chars)
    BY DEF CharSeqs
  <2>2. Len(spans) \in Nat /\ DOMAIN spans \subseteq Nat
    BY <2>1
  <2> SUFFICES ASSUME NEW i \in DOMAIN spans
               PROVE  /\ Len(spans) < i + d.currEvents + d.overlapEvents => Frontier(d) <= spans[i].to
                      /\ Len(spans) < i + d.overlapEvents => Frontier(d) + k.max <= spans[i].to + k.overlap
    BY DEF Pending
  <2>3. /\ Len(spans) < i + c.currEvents + c.overlapEvents => Frontier(c) <= spans[i].to
        /\ Len(spans) < i + c.overlapEvents => Frontier(c) + k.max <= spans[i].to + k.overlap
    BY <1>5 DEF Pending
  <2>4. Len(spans) < i + d.currEvents + d.overlapEvents => Len(spans) < i + c.currEvents + c.overlapEvents
    BY <1>1, <1>3, <2>2
  <2> QED BY <1>3, <2>3, <2>4
<1> QED BY <1>3, <1>4, <1>5 DEF d

(* Consume passes over all events that were found, if it is told of more.  *)
LEMMA ConsumeAll ==
  ASSUME NEW p \in Parsers, ParserOK(p), NEW n \in Nat, Consumable(p, n),
         p.lastParseEnd <= p.parsedOffset + Parts * n
  PROVE  Consume(p, n).parsedOffset = p.lastParseEnd
<1> DEFINE q == Consume(p, n)
           len == Len(p.boundaries)
<1>1. p.parsedOffset \in Nat /\ p.lastParseEnd \in Nat
  BY ParserFields
<1>2. p.boundaries \in Seq(Nat) /\ len \in Nat
  BY ParserFields DEF Offsets
<1>3. p.parsedOffset <= p.lastParseEnd /\ p.lastParseEnd = p.parsedOffset + Parts * len
      /\ \A i \in DOMAIN p.boundaries : p.boundaries[i] = p.parsedOffset + Parts * i
  BY DEF ParserOK
<1>4. CASE n = 0
  <2>1. q = p
    BY <1>4 DEF Consume
  <2> QED BY <1>1, <1>3, <1>4, <2>1 DEF Parts
<1>5. CASE n # 0
  <2>1. len # 0
    BY <1>2, <1>5 DEF Consumable
  <2> DEFINE m == IF n > len THEN len ELSE n
             first == p.boundaries[m]
             rest == SubSeq(p.boundaries, m + 1, len)
  <2>2. q = [p EXCEPT !.parsedOffset = first, !.boundaries = rest]
    BY <1>5 DEF Consume
  <2>3. m = len
    <3> HIDE DEF len
    <3>1. len <= n
      BY <1>1, <1>2, <1>3 DEF Parts
    <3> QED BY <1>2, <3>1
  <2>4. len \in DOMAIN p.boundaries
    BY <1>2, <2>1
  <2> HIDE DEF q, m, rest, len
  <2>5. first = p.lastParseEnd
    BY <1>3, <2>3, <2>4
  <2> HIDE DEF first
  <2>6. q.parsedOffset = first
    BY <2>2 DEF Parsers
  <2> QED BY <2>5, <2>6 DEF q
<1> QED BY <1>4, <1>5

-----------------------------------------------------------------------------
(* What the steps of a stream change.                                      *)
Step(s) == Receive(s) \/ ReceiveEnd(s) \/ Handler(s)

(* Nothing of the other streams.                                           *)
LEMMA OthersStay ==
  ASSUME Types, NEW s \in Streams, Step(s), NEW u \in Streams, u # s
  PROVE  world' = world /\ filter'[u] = filter[u] /\ stream'[u] = stream[u] /\ history'[u] = history[u]
<1> USE DEF Types
<1>1. CASE Receive(s)
  <2>1. world' = world /\ history' = history
    BY <1>1 DEF Receive
  <2>2. PICK n \in 0 .. Rest(s), end \in BOOLEAN : dataHandler(s, n, end) \/ sseDataHandler(s, n, end)
    <3>1. Mode(s) \in {"whole", "stream", "wait"}
      BY MessageFields
    <3>2. PICK n \in 0 .. Rest(s), end \in BOOLEAN :
            CASE Mode(s) = "whole" -> /\ end => n = Rest(s) /\ ~Message(s).trailers
                                      /\ dataHandler(s, n, end)
              [] Mode(s) = "stream" -> /\ end => n = Rest(s) /\ ~Message(s).trailers
                                       /\ sseDataHandler(s, n, end)
              [] Mode(s) = "wait" -> /\ n = Rest(s) /\ end
                                     /\ sseDataHandler(s, n, end)
      BY <1>1 DEF Receive
    <3>3. dataHandler(s, n, end) \/ sseDataHandler(s, n, end)
      BY <3>1, <3>2
    <3> QED BY <3>3
  <2>3. CASE dataHandler(s, n, end)
    BY <2>1, <2>3 DEF dataHandler
  <2>4. CASE sseDataHandler(s, n, end)
    BY <2>1, <2>4 DEF sseDataHandler
  <2> QED BY <2>2, <2>3, <2>4
<1>2. CASE ReceiveEnd(s)
  BY <1>2 DEF ReceiveEnd
<1>3. CASE Parse(s)
  BY <1>3 DEF Parse
<1>4. CASE Extract(s)
  BY <1>4 DEF Extract
<1>5. CASE Char(s)
  BY <1>5 DEF Char
<1>6. CASE Counted(s)
  BY <1>6 DEF Counted
<1>7. CASE Collect(s)
  BY <1>7 DEF Collect, Refuse
<1>8. CASE Moderate(s)
  BY <1>8 DEF Moderate, Refuse
<1>9. CASE Release(s)
  BY <1>9 DEF Release
<1> QED BY <1>1, <1>2, <1>3, <1>4, <1>5, <1>6, <1>7, <1>8, <1>9 DEF Step, Handler

(* What a filter is like after a step that is not mentioned of it.         *)
SameBuffers(s) ==
  /\ filter'[s].content = filter[s].content /\ filter'[s].chunks = filter[s].chunks
  /\ filter'[s].closed = filter[s].closed /\ filter'[s].end = filter[s].end
  /\ filter'[s].body = filter[s].body
SameHistory(s) ==
  /\ history'[s].spans = history[s].spans /\ history'[s].passed = history[s].passed
  /\ history'[s].spare = history[s].spare /\ history'[s].denied = history[s].denied

(* Extract only decides what is written.                                   *)
LEMMA ExtractChanges ==
  ASSUME IInv, NEW s \in Streams, Extract(s)
  PROVE  /\ At(s, "extract") /\ world' = world /\ stream' = stream /\ SameBuffers(s) /\ SameHistory(s)
         /\ filter'[s].parser = filter[s].parser
         /\ filter'[s].pc = "write" /\ filter'[s].left = filter'[s].size /\ filter'[s].size \in Nat
<1> DEFINE f == filter[s]
           seen == history[s].foreign \/ loaded # Current(s)
<1>1. Types
  BY DEF IInv
<1>2. PICK n \in Nat : filter' = [filter EXCEPT ![s].pc = "write", ![s].size = n, ![s].left = n]
  <2>1. Length(loaded) \in Nat
    BY <1>1, LengthNat
  <2> QED BY <2>1 DEF Extract
<1>3. filter'[s] = [f EXCEPT !.pc = "write", !.size = n, !.left = n] /\ f \in Filters
  BY <1>1, <1>2 DEF Types
<1>4. SameBuffers(s) /\ filter'[s].parser = f.parser
  BY <1>3 DEF SameBuffers, Filters
<1>5. filter'[s].pc = "write" /\ filter'[s].left = n /\ filter'[s].size = n
  BY <1>3 DEF Filters
<1>6. history'[s] = [history[s] EXCEPT !.foreign = seen] /\ history[s] \in Histories
  BY <1>1 DEF Extract, Types
<1> HIDE DEF seen
<1>7. SameHistory(s)
  BY <1>6 DEF SameHistory, Histories
<1> QED BY <1>4, <1>5, <1>7 DEF Extract

(* Parse finds the next event, or that there is none.                      *)
LEMMA ParseChanges ==
  ASSUME IInv, NEW s \in Streams, Parse(s)
  PROVE  /\ At(s, "parse") /\ world' = world /\ stream' = stream /\ SameBuffers(s) /\ SameHistory(s)
         /\ filter'[s].parser.base = filter[s].parser.base
         /\ filter'[s].parser.parsedOffset = filter[s].parser.parsedOffset
         /\ filter'[s].pc \in {"extract", "idle", "collect"}
         /\ filter'[s].pc = "collect" => /\ filter'[s].parser = filter[s].parser
                                         /\ ~Parsable(filter[s].parser)
<1> DEFINE f == filter[s]
           p == f.parser
<1>1. Types /\ p \in Parsers /\ ParserOK(p)
  BY FilterFields DEF IInv, Good, Parser
<1>2. At(s, "parse") /\ world' = world /\ stream' = stream /\ SameHistory(s)
  BY DEF Parse, SameHistory
<1>3. CASE Parsable(p)
  <2> DEFINE q == TryParse(p)
  <2>1. /\ q \in Parsers /\ q.base = p.base /\ q.parsedOffset = p.parsedOffset
    BY <1>1, <1>3, TryParseOK
  <2> HIDE DEF q
  <2>2. filter'[s] = [f EXCEPT !.parser = q, !.none = FALSE, !.pc = "extract"] /\ f \in Filters
    BY <1>1, <1>3 DEF Parse, Types, q
  <2>3. SameBuffers(s)
    BY <2>2 DEF SameBuffers, Filters
  <2>4. filter'[s].parser = q /\ filter'[s].pc = "extract"
    BY <2>2 DEF Filters
  <2> QED BY <1>2, <2>1, <2>3, <2>4
<1>4. CASE ~Parsable(p)
  <2>1. PICK pc \in {"idle", "collect"} : filter' = [filter EXCEPT ![s].pc = pc]
    BY <1>4 DEF Parse
  <2>2. filter'[s] = [f EXCEPT !.pc = pc] /\ f \in Filters
    BY <1>1, <2>1 DEF Types
  <2>3. SameBuffers(s)
    BY <2>2 DEF SameBuffers, Filters
  <2>4. filter'[s].parser = p /\ filter'[s].pc = pc
    BY <2>2 DEF Filters
  <2> QED BY <1>2, <1>4, <2>3, <2>4
<1> QED BY <1>3, <1>4

(* Char writes a character.                                                *)
LEMMA CharChanges ==
  ASSUME IInv, NEW s \in Streams, Char(s)
  PROVE  /\ At(s, "write") /\ filter[s].left > 0
         /\ world' = world /\ stream' = stream /\ SameHistory(s)
         /\ filter'[s].content = WriteChar(filter[s].content, world)
         /\ filter'[s].left = filter[s].left - 1 /\ filter'[s].size = filter[s].size
         /\ filter'[s].pc = "write" /\ filter'[s].parser = filter[s].parser
         /\ filter'[s].chunks = filter[s].chunks /\ filter'[s].body = filter[s].body
         /\ filter'[s].closed = filter[s].closed /\ filter'[s].end = filter[s].end
<1> DEFINE f == filter[s]
           d == WriteChar(f.content, world)
           left == f.left - 1
<1>1. Types /\ At(s, "write") /\ f.pc = "write"
  BY DEF IInv, Char, At
<1>2. filter'[s] = [f EXCEPT !.content = d, !.left = left] /\ f \in Filters
  BY <1>1 DEF Char, Types
<1> HIDE DEF d, left
<1>3. /\ filter'[s].content = d /\ filter'[s].left = left /\ filter'[s].size = f.size
      /\ filter'[s].pc = f.pc /\ filter'[s].parser = f.parser
      /\ filter'[s].chunks = f.chunks /\ filter'[s].body = f.body
      /\ filter'[s].closed = f.closed /\ filter'[s].end = f.end
  BY <1>2 DEF Filters
<1>4. SameHistory(s)
  BY DEF Char, SameHistory
<1> QED BY <1>1, <1>3, <1>4 DEF Char, d, left

(* The content that has been written is one more of its message.           *)
Span(s) == [from |-> End(s) - filter[s].size, to |-> End(s)]

(* Counted counts the content as one event.                                *)
LEMMA CountedChanges ==
  ASSUME IInv, NEW s \in Streams, Counted(s)
  PROVE  /\ At(s, "write") /\ filter[s].left = 0
         /\ world' = world /\ stream' = stream
         /\ filter'[s].content = CountEvent(filter[s].content, world, filter[s].size)
         /\ filter'[s].pc = (IF Mode(s) = "whole" THEN "collect" ELSE "parse")
         /\ filter'[s].parser = filter[s].parser
         /\ filter'[s].chunks = filter[s].chunks /\ filter'[s].body = filter[s].body
         /\ filter'[s].closed = filter[s].closed /\ filter'[s].end = filter[s].end
         /\ history'[s].passed = history[s].passed
         /\ history'[s].spare = history[s].spare /\ history'[s].denied = history[s].denied
         /\ stream[s].path = "request" => history'[s].spans["response"] = history[s].spans["response"]
         /\ stream[s].path = "response" =>
              /\ history'[s].spans["response"] = WithOne(history[s].spans["response"], Span(s))
              /\ history'[s].spans["request"] = history[s].spans["request"]
         /\ Span(s) \in Chars
<1>0. PICK path \in Paths : path = stream[s].path
  BY StreamFields DEF IInv
<1> DEFINE f == filter[s]
           d == CountEvent(f.content, world, f.size)
           next == IF Mode(s) = "whole" THEN "collect" ELSE "parse"
           grown == WithOne(history[s].spans[path], Span(s))
           spans == [history[s].spans EXCEPT ![path] = grown]
<1>1. /\ Types /\ Good(s) /\ At(s, "write") /\ f.left = 0 /\ f.size \in Nat
      /\ f.content.base \in Nat /\ f.content.len \in Nat
  BY FilterFields, BufferFields DEF IInv, Counted
<1>2. filter'[s] = [f EXCEPT !.content = d, !.pc = next] /\ f \in Filters
  BY <1>1 DEF Counted, Types
<1> HIDE DEF d, next
<1>3. /\ filter'[s].content = d /\ filter'[s].pc = next /\ filter'[s].parser = f.parser
      /\ filter'[s].chunks = f.chunks /\ filter'[s].body = f.body
      /\ filter'[s].closed = f.closed /\ filter'[s].end = f.end
  BY <1>2 DEF Filters
<1>4. history'[s] = [history[s] EXCEPT !.spans = spans] /\ history[s] \in Histories
  BY <1>0, <1>1 DEF Counted, Types, WithOne, Span, End
<1>5. /\ path = "request" => spans["response"] = history[s].spans["response"]
      /\ path = "response" => /\ spans["response"] = WithOne(history[s].spans["response"], Span(s))
                              /\ spans["request"] = history[s].spans["request"]
  <2>1. history[s].spans \in [Paths -> CharSeqs] /\ "request" \in Paths /\ "response" \in Paths
    BY <1>1, HistoryFields DEF Paths
  <2> HIDE DEF grown
  <2>2. \A e \in Paths : spans[e] = IF e = path THEN grown ELSE history[s].spans[e]
    BY <2>1
  <2> QED BY <2>1, <2>2 DEF grown
<1> HIDE DEF spans
<1>6. /\ history'[s].spans = spans /\ history'[s].passed = history[s].passed
      /\ history'[s].spare = history[s].spare /\ history'[s].denied = history[s].denied
  BY <1>4 DEF Histories
<1>7. Span(s) \in Chars
  <2>1. Start(s, path) \in Nat /\ Start(s, path) + f.size <= End(s) + f.left /\ End(s) \in Nat
    BY <1>0, <1>1, StartNat DEF Good, Where, At, End
  <2> QED BY <1>1, <2>1 DEF Span, Chars
<1> QED BY <1>0, <1>1, <1>3, <1>5, <1>6, <1>7 DEF Counted, d, next

(* Collect hands over the chunks, or panics.                               *)
Collected(s) == IF filter[s].end THEN Flush(filter[s].content, world) ELSE filter[s].content
Count(s) == IF Mode(s) = "whole" THEN 0 ELSE CompletedEvents(Collected(s))

(* Either of them leaves what has been said and allowed.                   *)
LEMMA CollectChanges ==
  ASSUME IInv, NEW s \in Streams, Collect(s)
  PROVE  /\ At(s, "collect") /\ world' = world /\ SameHistory(s)
         /\ stream'[s].path = stream[s].path /\ stream'[s].sent = stream[s].sent
         /\ stream'[s].arrived = stream[s].arrived
         /\ \/ /\ ~Consumable(filter[s].parser, Count(s))
               /\ stream'[s].outcome = "panic" /\ filter' = filter
            \/ /\ Consumable(filter[s].parser, Count(s))
               /\ stream'[s].outcome = "open"
               /\ filter'[s].content = Retrieved(Collected(s))
               /\ filter'[s].parser = Consume(filter[s].parser, Count(s))
               /\ filter'[s].chunks = Chunks(Collected(s))
               /\ filter'[s].pc \in {"release", "moderate"}
               /\ filter'[s].body = filter[s].body
               /\ filter'[s].closed = filter[s].closed /\ filter'[s].end = filter[s].end
<1> DEFINE f == filter[s]
           d == Collected(s)
           n == Count(s)
           e == Retrieved(d)
           q == Consume(f.parser, n)
           chunks == Chunks(d)
           next == IF Chunks(d) = <<>> THEN "release" ELSE "moderate"
<1>1. Types /\ At(s, "collect") /\ stream[s].outcome = "open"
  BY DEF IInv, Collect, At
<1>2. world' = world /\ SameHistory(s)
  BY DEF Collect, SameHistory
<1>3. CASE ~Consumable(f.parser, n)
  <2>1. filter' = filter /\ stream' = [stream EXCEPT ![s].outcome = "panic"]
    BY <1>3 DEF Collect, Refuse, Collected, Count
  <2>2. stream'[s] = [stream[s] EXCEPT !.outcome = "panic"] /\ stream[s] \in StreamStates
    BY <1>1, <2>1 DEF Types
  <2>3. /\ stream'[s].outcome = "panic" /\ stream'[s].path = stream[s].path
        /\ stream'[s].arrived = stream[s].arrived /\ stream'[s].sent = stream[s].sent
    BY <2>2 DEF StreamStates
  <2> QED BY <1>1, <1>2, <1>3, <2>1, <2>3
<1>4. CASE Consumable(f.parser, n)
  <2>1. /\ stream' = stream
        /\ filter' = [filter EXCEPT ![s] = [f EXCEPT !.content = e, !.parser = q, !.chunks = chunks, !.pc = next]]
    BY <1>4 DEF Collect, Collected, Count
  <2>2. next \in {"release", "moderate"}
    OBVIOUS
  <2> HIDE DEF e, q, next, chunks
  <2>3. filter'[s] = [f EXCEPT !.content = e, !.parser = q, !.chunks = chunks, !.pc = next] /\ f \in Filters
    BY <1>1, <2>1 DEF Types
  <2>4. /\ filter'[s].content = e /\ filter'[s].parser = q /\ filter'[s].chunks = chunks
        /\ filter'[s].pc = next /\ filter'[s].body = f.body
        /\ filter'[s].closed = f.closed /\ filter'[s].end = f.end
    BY <2>3 DEF Filters
  <2> QED BY <1>1, <1>2, <1>4, <2>1, <2>2, <2>4 DEF e, q, chunks
<1> QED BY <1>3, <1>4

(* Moderate lets all of them pass, or refuses or closes the stream.        *)
LEMMA ModerateChanges ==
  ASSUME IInv, NEW s \in Streams, Moderate(s)
  PROVE  /\ At(s, "moderate") /\ world' = world
         /\ history'[s].spans = history[s].spans /\ history'[s].spare = history[s].spare
         /\ history'[s].passed \subseteq Behind(s)
         /\ stream'[s].path = stream[s].path /\ stream'[s].sent = stream[s].sent
         /\ stream'[s].arrived = stream[s].arrived
         /\ filter'[s].content = filter[s].content /\ filter'[s].body = filter[s].body
         /\ filter'[s].parser = filter[s].parser /\ filter'[s].end = filter[s].end
         /\ \/ /\ stream' = stream /\ filter'[s].pc = "release" /\ filter'[s].chunks = <<>>
               /\ filter'[s].closed = filter[s].closed
            \/ /\ stream'[s].outcome = "refused" /\ filter' = filter /\ history'[s].denied = TRUE
            \/ /\ stream'[s].outcome \in {"open", "closed"} /\ filter'[s].closed = TRUE
               /\ filter'[s].pc = "idle" /\ filter'[s].chunks = <<>> /\ history'[s].denied = TRUE
<1> DEFINE f == filter[s]
<1>1. Types /\ At(s, "moderate") /\ stream[s].outcome = "open" /\ f \in Filters /\ stream[s] \in StreamStates
      /\ world' = world
  BY DEF IInv, Moderate, At, Types
<1>2. PICK answers \in [DOMAIN f.chunks -> Answers] :
        LET Given(a) == {i \in DOMAIN answers : answers[i] = a}
        IN /\ history' = [history EXCEPT ![s].passed = @ \union {f.chunks[i] : i \in Given("allow")},
                                         ![s].denied = (Given("allow") # DOMAIN answers)]
           /\ \/ /\ Allowed(answers)
                 /\ filter' = [filter EXCEPT ![s] = [f EXCEPT !.pc = "release", !.chunks = <<>>]]
                 /\ UNCHANGED stream
              \/ /\ ~Allowed(answers) /\ (Given("error") # {} \/ Mode(s) = "whole")
                 /\ Refuse(s, "refused") /\ UNCHANGED filter
              \/ /\ ~Allowed(answers) /\ Given("block") # {} /\ Mode(s) # "whole"
                 /\ filter' = [filter EXCEPT ![s] = Closed(f)]
                 /\ stream' = [stream EXCEPT ![s].outcome = IF f.end THEN "closed" ELSE @]
  BY DEF Moderate
<1> DEFINE allowed == {i \in DOMAIN answers : answers[i] = "allow"}
           passed == history[s].passed \union {f.chunks[i] : i \in allowed}
           denied == allowed # DOMAIN answers
           outcome == IF f.end THEN "closed" ELSE stream[s].outcome
<1>3. history'[s] = [history[s] EXCEPT !.passed = passed, !.denied = denied] /\ history[s] \in Histories
  BY <1>1, <1>2 DEF Types
<1>4. passed \subseteq Behind(s)
  BY DEF Behind, Submitted
<1>5. ~Allowed(answers) => denied = TRUE
  BY DEF Allowed
<1>6. \/ /\ Allowed(answers) /\ stream' = stream
         /\ filter' = [filter EXCEPT ![s] = [f EXCEPT !.pc = "release", !.chunks = <<>>]]
      \/ /\ ~Allowed(answers) /\ filter' = filter
         /\ stream' = [stream EXCEPT ![s].outcome = "refused"]
      \/ /\ ~Allowed(answers)
         /\ filter' = [filter EXCEPT ![s] = Closed(f)]
         /\ stream' = [stream EXCEPT ![s].outcome = outcome]
  BY <1>2 DEF Refuse
<1> HIDE DEF allowed, passed, denied
<1>7. /\ history'[s].spans = history[s].spans /\ history'[s].spare = history[s].spare
      /\ history'[s].passed = passed /\ history'[s].denied = denied
  BY <1>3 DEF Histories
<1>8. CASE Allowed(answers) /\ stream' = stream /\ filter' = [filter EXCEPT ![s] = [f EXCEPT !.pc = "release", !.chunks = <<>>]]
  <2>1. filter'[s] = [f EXCEPT !.pc = "release", !.chunks = <<>>]
    BY <1>1, <1>8 DEF Types
  <2>2. /\ filter'[s].content = f.content /\ filter'[s].body = f.body /\ filter'[s].parser = f.parser
        /\ filter'[s].end = f.end /\ filter'[s].pc = "release" /\ filter'[s].closed = f.closed
    BY <1>1, <2>1 DEF Filters
  <2>3. filter'[s].chunks = <<>>
    BY <1>1, <2>1 DEF Filters
  <2> QED BY <1>1, <1>4, <1>7, <1>8, <2>2, <2>3
<1>9. CASE ~Allowed(answers) /\ filter' = filter /\ stream' = [stream EXCEPT ![s].outcome = "refused"]
  <2>1. stream'[s] = [stream[s] EXCEPT !.outcome = "refused"]
    BY <1>1, <1>9 DEF Types
  <2>2. /\ stream'[s].outcome = "refused" /\ stream'[s].path = stream[s].path
        /\ stream'[s].arrived = stream[s].arrived /\ stream'[s].sent = stream[s].sent
    BY <1>1, <2>1 DEF StreamStates
  <2> QED BY <1>1, <1>4, <1>5, <1>7, <1>9, <2>2
<1>10. CASE ~Allowed(answers) /\ filter' = [filter EXCEPT ![s] = Closed(f)] /\ stream' = [stream EXCEPT ![s].outcome = outcome]
  <2>1. filter'[s] = [f EXCEPT !.closed = TRUE, !.pc = "idle", !.chunks = <<>>]
    BY <1>1, <1>10 DEF Types, Closed
  <2>2. /\ filter'[s].content = f.content /\ filter'[s].body = f.body /\ filter'[s].parser = f.parser
        /\ filter'[s].end = f.end /\ filter'[s].pc = "idle" /\ filter'[s].closed = TRUE
    BY <1>1, <2>1 DEF Filters
  <2>3. filter'[s].chunks = <<>>
    BY <1>1, <2>1 DEF Filters
  <2>4. outcome \in {"open", "closed"}
    BY <1>1
  <2> HIDE DEF outcome
  <2>5. stream'[s] = [stream[s] EXCEPT !.outcome = outcome]
    BY <1>1, <1>10 DEF Types
  <2>6. /\ stream'[s].outcome = outcome /\ stream'[s].path = stream[s].path
        /\ stream'[s].arrived = stream[s].arrived /\ stream'[s].sent = stream[s].sent
    BY <1>1, <2>5 DEF StreamStates
  <2>7. history'[s].denied = TRUE /\ history'[s].passed \subseteq Behind(s)
    BY <1>4, <1>5, <1>7, <1>10
  <2>8. stream'[s].outcome \in {"open", "closed"}
    BY <2>4, <2>6
  <2> HIDE DEF outcome
  <2> QED BY <1>1, <1>7, <2>2, <2>3, <2>6, <2>7, <2>8
<1> QED BY <1>6, <1>8, <1>9, <1>10

(* The end of a message begins the next one, or is that of the stream.     *)
Turns(s, ends) ==
  /\ ~ends => /\ stream'[s].path = stream[s].path /\ stream'[s].arrived = stream[s].arrived
              /\ stream'[s].outcome = "open"
  /\ ends /\ stream[s].path = "request" =>
       stream'[s].path = "response" /\ stream'[s].arrived = 0 /\ stream'[s].outcome = "open"
  /\ ends /\ stream[s].path = "response" =>
       stream'[s].path = "response" /\ stream'[s].outcome = "complete"

(* After is such a turn, and nothing leaves with it.                       *)
LEMMA AfterTurns ==
  ASSUME NEW s \in Streams, NEW t \in StreamStates, t.path = stream[s].path, t.arrived = stream[s].arrived,
         t.outcome = "open", NEW ends \in BOOLEAN, stream'[s] = IF ends THEN After(t) ELSE t
  PROVE  Turns(s, ends) /\ stream'[s].sent = t.sent
<1>1. CASE ~ends
  <2>1. stream'[s] = t
    BY <1>1
  <2> QED BY <1>1, <2>1 DEF Turns
<1>2. CASE ends /\ t.path = "request"
  <2>1. stream'[s] = [t EXCEPT !.path = "response", !.arrived = 0]
    BY <1>2 DEF After
  <2>2. /\ stream'[s].path = "response" /\ stream'[s].arrived = 0 /\ stream'[s].outcome = t.outcome
        /\ stream'[s].sent = t.sent
    BY <2>1 DEF StreamStates
  <2> QED BY <1>2, <2>2 DEF Turns
<1>3. CASE ends /\ t.path = "response"
  <2>1. stream'[s] = [t EXCEPT !.outcome = "complete"]
    BY <1>3 DEF After
  <2>2. /\ stream'[s].path = "response" /\ stream'[s].outcome = "complete" /\ stream'[s].sent = t.sent
    BY <1>3, <2>1 DEF StreamStates
  <2> QED BY <1>3, <2>2 DEF Turns
<1>4. t.path \in {"request", "response"}
  BY DEF StreamStates, Paths
<1> QED BY <1>1, <1>2, <1>3, <1>4

(* Release lets out what has passed.                                       *)
LEMMA ReleaseChanges ==
  ASSUME IInv, NEW s \in Streams, Release(s)
  PROVE  /\ At(s, "release") /\ world' = world /\ Turns(s, filter[s].end)
         /\ stream'[s].sent[stream[s].path] = Released(s)
         /\ \A e \in Paths \ {stream[s].path} : stream'[s].sent[e] = stream[s].sent[e]
         /\ filter'[s].content = filter[s].content /\ filter'[s].chunks = filter[s].chunks
         /\ filter'[s].closed = filter[s].closed /\ filter'[s].end = filter[s].end
         /\ filter'[s].body = NoBody /\ filter'[s].pc = "idle"
         /\ filter'[s].parser = PruneParsedData(filter[s].parser)
         /\ history'[s].spans = history[s].spans /\ history'[s].passed = history[s].passed
         /\ history'[s].denied = history[s].denied
         /\ stream[s].path = "response" => history'[s].spare = history[s].spare
<1> DEFINE f == filter[s]
           q == PruneParsedData(f.parser)
           sent == [stream[s].sent EXCEPT ![stream[s].path] = Released(s)]
           t == [stream[s] EXCEPT !.sent = sent]
<1>1. /\ Types /\ At(s, "release") /\ stream[s].outcome = "open" /\ world' = world
      /\ stream[s] \in StreamStates /\ f \in Filters /\ history[s] \in Histories /\ f.end \in BOOLEAN
  BY FilterFields DEF IInv, Release, At, Types
<1>2. stream[s].sent \in [Paths -> Nat] /\ stream[s].path \in Paths
  BY <1>1, StreamFields
<1>3. Released(s) \in Nat
  BY Running, ReleasedCovered DEF Release
<1>4. sent \in [Paths -> Nat]
  BY <1>2, <1>3
<1>5. sent[stream[s].path] = Released(s) /\ \A e \in Paths \ {stream[s].path} : sent[e] = stream[s].sent[e]
  BY <1>2
<1>6. stream'[s] = IF f.end THEN After(t) ELSE t
  BY <1>1 DEF Release, Types
<1> HIDE DEF sent
<1>7. /\ t \in StreamStates /\ t.path = stream[s].path /\ t.arrived = stream[s].arrived
      /\ t.outcome = "open" /\ t.sent = sent
  BY <1>1, <1>4 DEF StreamStates
<1> HIDE DEF t
<1>8. Turns(s, f.end) /\ stream'[s].sent = sent
  BY <1>1, <1>6, <1>7, AfterTurns
<1> HIDE DEF q
<1>9. filter'[s] = [f EXCEPT !.parser = q, !.body = NoBody, !.data = 0, !.pc = "idle"]
  BY <1>1 DEF Release, Types, q
<1>10. /\ filter'[s].content = f.content /\ filter'[s].chunks = f.chunks
       /\ filter'[s].closed = f.closed /\ filter'[s].end = f.end
       /\ filter'[s].body = NoBody /\ filter'[s].pc = "idle" /\ filter'[s].parser = q
  <2> HIDE DEF NoBody
  <2> QED BY <1>1, <1>9 DEF Filters
<1>11. /\ history'[s].spans = history[s].spans /\ history'[s].passed = history[s].passed
       /\ history'[s].denied = history[s].denied
       /\ stream[s].path = "response" => history'[s].spare = history[s].spare
  <2>1. CASE stream[s].path = "response"
    BY <2>1 DEF Release
  <2>2. CASE stream[s].path # "response"
    <3> DEFINE spare == f.content.currEvents + f.content.overlapEvents
    <3>1. history'[s] = [history[s] EXCEPT !.spare = spare]
      BY <1>1, <2>2 DEF Release, Types
    <3> HIDE DEF spare
    <3> QED BY <1>1, <2>2, <3>1 DEF Histories
  <2> QED BY <2>1, <2>2
<1> QED BY <1>1, <1>5, <1>8, <1>10, <1>11 DEF q

(* The end without a handler is only that.                                 *)
LEMMA ReceiveEndChanges ==
  ASSUME IInv, NEW s \in Streams, ReceiveEnd(s)
  PROVE  /\ At(s, "idle") /\ world' = world /\ filter' = filter /\ history' = history
         /\ Turns(s, TRUE) /\ stream'[s].sent = stream[s].sent
<1>1. stream[s] \in StreamStates /\ stream[s].outcome = "open"
  BY DEF IInv, Types, ReceiveEnd, At
<1>2. stream'[s] = After(stream[s])
  BY DEF ReceiveEnd, IInv, Types
<1>3. Turns(s, TRUE) /\ stream'[s].sent = stream[s].sent
  BY <1>1, <1>2, AfterTurns
<1> QED BY <1>3 DEF ReceiveEnd

(* Events that arrive are appended, and parsed, unless the stream is       *)
(* closed.                                                                 *)
LEMMA EventsChange ==
  ASSUME IInv, NEW s \in Streams, At(s, "idle"), NEW n \in 0 .. Rest(s), NEW end \in BOOLEAN,
         sseDataHandler(s, n, end)
  PROVE  /\ stream'[s].path = stream[s].path /\ stream'[s].sent = stream[s].sent
         /\ stream'[s].arrived = stream[s].arrived + n
         /\ filter'[s].content = filter[s].content /\ filter'[s].chunks = filter[s].chunks
         /\ filter'[s].closed = filter[s].closed /\ filter'[s].body = filter[s].body
         /\ filter[s].closed => stream'[s].outcome = "refused"
         /\ ~filter[s].closed =>
              /\ stream'[s].outcome = "open" /\ filter'[s].pc = "parse" /\ filter'[s].end = end
              /\ filter'[s].parser.base = filter[s].parser.base
              /\ filter'[s].parser.parsedOffset = filter[s].parser.parsedOffset
<1> DEFINE f == filter[s]
           sum == stream[s].arrived + n
           outcome == IF f.closed THEN "refused" ELSE stream[s].outcome
<1>1. /\ Types /\ stream[s].outcome = "open" /\ stream[s] \in StreamStates /\ f \in Filters
      /\ f.parser \in Parsers /\ ParserOK(f.parser) /\ n \in Nat
  BY Arriving, FilterFields DEF Good, Parser, Types
<1>2. stream'[s] = [stream[s] EXCEPT !.arrived = sum, !.outcome = outcome]
  BY <1>1 DEF sseDataHandler, Types
<1>3. /\ f.closed => outcome = "refused"
      /\ ~f.closed => outcome = "open"
  BY <1>1
<1> HIDE DEF sum, outcome
<1>4. /\ stream'[s].path = stream[s].path /\ stream'[s].sent = stream[s].sent
      /\ stream'[s].arrived = sum /\ stream'[s].outcome = outcome
  BY <1>1, <1>2 DEF StreamStates
<1>5. CASE f.closed
  <2>1. filter' = filter
    BY <1>5 DEF sseDataHandler
  <2> QED BY <1>3, <1>4, <1>5, <2>1 DEF sum
<1>6. CASE ~f.closed
  <2> DEFINE q == AppendData(f.parser, n)
  <2>1. q.base = f.parser.base /\ q.parsedOffset = f.parser.parsedOffset
    BY <1>1, AppendDataOK
  <2> HIDE DEF q
  <2>2. filter'[s] = [f EXCEPT !.parser = q, !.end = end, !.none = TRUE, !.pc = "parse"]
    BY <1>1, <1>6 DEF sseDataHandler, Types, q
  <2>3. /\ filter'[s].content = f.content /\ filter'[s].chunks = f.chunks /\ filter'[s].body = f.body
        /\ filter'[s].closed = f.closed /\ filter'[s].end = end /\ filter'[s].parser = q
        /\ filter'[s].pc = "parse"
    BY <1>1, <2>2 DEF Filters
  <2> QED BY <1>3, <1>4, <1>6, <2>1, <2>3 DEF sum
<1> QED BY <1>5, <1>6

(* A document that arrives is kept until its end, and parsed then.         *)
LEMMA DocumentChanges ==
  ASSUME IInv, NEW s \in Streams, At(s, "idle"), NEW n \in 0 .. Rest(s), NEW end \in BOOLEAN,
         dataHandler(s, n, end)
  PROVE  /\ stream'[s].path = stream[s].path /\ stream'[s].sent = stream[s].sent
         /\ filter'[s].content = filter[s].content /\ filter'[s].chunks = filter[s].chunks
         /\ filter'[s].closed = filter[s].closed
         /\ filter'[s].pc \in {"extract", "idle"}
         /\ filter'[s].body \in [Paths -> Nat]
         /\ \A e \in Paths \ {stream[s].path} : filter'[s].body[e] = filter[s].body[e]
         /\ stream'[s].outcome \in {"open", "refused"}
         /\ stream'[s].outcome = "refused" =>
              \/ ~Message(s).valid
              \/ \E e \in Paths \ {stream[s].path} : filter[s].body[e] # 0
<1> DEFINE f == filter[s]
           path == stream[s].path
           sum == stream[s].arrived + n
           body == IF f.body = NoBody /\ end THEN NoBody ELSE [f.body EXCEPT ![path] = @ + n]
           data == IF body = NoBody THEN n ELSE 0
           pc == IF end THEN "extract" ELSE "idle"
           valid == Message(s).valid /\ \A e \in Paths \ {path} : body[e] = 0
           outcome == IF end /\ ~valid THEN "refused" ELSE stream[s].outcome
<1>1. /\ Types /\ stream[s].outcome = "open" /\ stream[s] \in StreamStates /\ f \in Filters
      /\ f.body \in [Paths -> Nat] /\ path \in Paths /\ n \in Nat
  BY Arriving, FilterFields, StreamFields DEF Types
<1>2. /\ NoBody \in [Paths -> Nat] /\ \A e \in Paths : NoBody[e] = 0
  BY DEF NoBody
<1>3. /\ body \in [Paths -> Nat] /\ \A e \in Paths \ {path} : body[e] = f.body[e]
  <2> HIDE DEF NoBody
  <2>1. CASE f.body = NoBody /\ end
    BY <1>2, <2>1
  <2>2. CASE ~(f.body = NoBody /\ end)
    <3>1. body = [f.body EXCEPT ![path] = @ + n]
      BY <2>2
    <3> QED BY <1>1, <3>1
  <2> QED BY <2>1, <2>2
<1>4. filter'[s] = [f EXCEPT !.body = body, !.end = end, !.data = data, !.pc = pc]
  BY <1>1 DEF dataHandler, Types
<1>5. stream'[s] = [stream[s] EXCEPT !.arrived = sum, !.outcome = outcome]
  BY <1>1 DEF dataHandler, Types
<1>6. /\ outcome \in {"open", "refused"}
      /\ outcome = "refused" => ~Message(s).valid \/ \E e \in Paths \ {path} : body[e] # 0
  BY <1>1
<1>7. pc \in {"extract", "idle"}
  OBVIOUS
<1> HIDE DEF body, data, pc, valid, outcome, sum
<1>8. /\ filter'[s].content = f.content /\ filter'[s].chunks = f.chunks
      /\ filter'[s].closed = f.closed /\ filter'[s].pc = pc /\ filter'[s].body = body
  BY <1>1, <1>4 DEF Filters
<1>9. /\ stream'[s].path = path /\ stream'[s].sent = stream[s].sent /\ stream'[s].outcome = outcome
  BY <1>1, <1>5 DEF StreamStates
<1> QED BY <1>3, <1>6, <1>7, <1>8, <1>9

-----------------------------------------------------------------------------
(* Held is kept.  Where nothing is written, retrieved or let out, all that *)
(* it says of the content buffer stays.                                    *)
LEMMA HeldStays ==
  ASSUME NEW s \in Streams, Held(s), world' = world,
         filter'[s].content = filter[s].content, Judged(s)' \subseteq Judged(s),
         \/ history'[s].spans["response"] = <<>>
         \/ /\ history'[s].spans = history[s].spans
            /\ Active(s)' /\ ~Flushed(s)' => Active(s) /\ ~Flushed(s),
         Responds(s)' =>
           /\ ~Uncounted(s)'
           /\ filter'[s].pc \notin {"moderate", "release"} => stream'[s].sent["response"] = Consumed(s)'
  PROVE  Held(s)'
<1> DEFINE c == filter[s].content
<1>1. Reached(Judged(s)', Frontier(c) + world.overlap) /\ Overlapping(c, world)
  BY DEF Held, Reached
<1>2. Active(s)' /\ ~Flushed(s)' => Pending(c, world, history'[s].spans["response"])
  <2>1. Pending(c, world, <<>>)
    BY DEF Pending
  <2> QED BY <2>1 DEF Held
<1> QED BY <1>1, <1>2 DEF Held

(* A filter that the parser of which moves on by no event consumes and     *)
(* lets out none.                                                          *)
LEMMA RespondsStays ==
  ASSUME NEW s \in Streams, Held(s), Responds(s), filter[s].pc \notin {"moderate", "release"},
         filter'[s].content = filter[s].content,
         filter'[s].parser.base = filter[s].parser.base,
         filter'[s].parser.parsedOffset = filter[s].parser.parsedOffset,
         stream'[s].sent = stream[s].sent, history'[s].spans = history[s].spans
  PROVE  ~Uncounted(s)' /\ stream'[s].sent["response"] = Consumed(s)'
BY DEF Held, Uncounted, Consumed

(* What is judged by the handler depends on its filter and the history.    *)
LEMMA JudgedStays ==
  ASSUME NEW s \in Streams, filter'[s].content = filter[s].content, filter'[s].chunks = filter[s].chunks,
         history'[s].passed = history[s].passed
  PROVE  Judged(s)' = Judged(s)
BY DEF Judged, Behind, Submitted

(* Where the stream is, and its mode.                                      *)
LEMMA RespondsBefore ==
  ASSUME NEW s \in Streams, world' = world, stream'[s].path = stream[s].path,
         stream[s].outcome = "open", filter[s].closed => filter'[s].closed
  PROVE  /\ Mode(s)' = Mode(s) /\ (Responds(s)' => Responds(s)) /\ (Active(s)' => Active(s))
BY SameStream DEF Responds, Active

(* Extract.                                                                *)
LEMMA ExtractHeld ==
  ASSUME IInv, NEW s \in Streams, Held(s), Extract(s)
  PROVE  Held(s)'
<1>1. /\ At(s, "extract") /\ world' = world /\ stream' = stream /\ SameBuffers(s) /\ SameHistory(s)
      /\ filter'[s].parser = filter[s].parser /\ filter'[s].pc = "write"
  BY ExtractChanges
<1>2. /\ filter'[s].content = filter[s].content /\ filter'[s].chunks = filter[s].chunks
      /\ filter'[s].closed = filter[s].closed
      /\ history'[s].passed = history[s].passed /\ history'[s].spans = history[s].spans
  BY <1>1 DEF SameBuffers, SameHistory
<1>3. stream[s].outcome = "open" /\ filter[s].pc = "extract" /\ ~Flushed(s)
  BY <1>1 DEF At, Flushed
<1>4. (Responds(s)' => Responds(s)) /\ (Active(s)' => Active(s))
  BY <1>1, <1>2, <1>3, RespondsBefore
<1>5. Responds(s)' => ~Uncounted(s)' /\ stream'[s].sent["response"] = Consumed(s)'
  BY <1>1, <1>2, <1>3, <1>4, RespondsStays
<1>6. Judged(s)' = Judged(s)
  BY <1>2, JudgedStays
<1> QED BY <1>1, <1>2, <1>3, <1>4, <1>5, <1>6, HeldStays

(* Parse.                                                                  *)
LEMMA ParseHeld ==
  ASSUME IInv, NEW s \in Streams, Held(s), Parse(s)
  PROVE  Held(s)'
<1>1. /\ At(s, "parse") /\ world' = world /\ stream' = stream /\ SameBuffers(s) /\ SameHistory(s)
      /\ filter'[s].parser.base = filter[s].parser.base
      /\ filter'[s].parser.parsedOffset = filter[s].parser.parsedOffset
  BY ParseChanges
<1>2. /\ filter'[s].content = filter[s].content /\ filter'[s].chunks = filter[s].chunks
      /\ filter'[s].closed = filter[s].closed
      /\ history'[s].passed = history[s].passed /\ history'[s].spans = history[s].spans
  BY <1>1 DEF SameBuffers, SameHistory
<1>3. stream[s].outcome = "open" /\ filter[s].pc = "parse" /\ ~Flushed(s)
  BY <1>1 DEF At, Flushed
<1>4. (Responds(s)' => Responds(s)) /\ (Active(s)' => Active(s))
  BY <1>1, <1>2, <1>3, RespondsBefore
<1>5. Responds(s)' => ~Uncounted(s)' /\ stream'[s].sent["response"] = Consumed(s)'
  BY <1>1, <1>2, <1>3, <1>4, RespondsStays
<1>6. Judged(s)' = Judged(s)
  BY <1>2, JudgedStays
<1> QED BY <1>1, <1>2, <1>3, <1>4, <1>5, <1>6, HeldStays

(* Char.                                                                   *)
LEMMA CharHeld ==
  ASSUME IInv, NEW s \in Streams, Held(s), Char(s)
  PROVE  Held(s)'
<1> DEFINE c == filter[s].content
           d == WriteChar(c, world)
           spans == history[s].spans["response"]
<1>1. /\ At(s, "write")
      /\ world' = world /\ stream' = stream /\ SameHistory(s)
      /\ filter'[s].content = d /\ filter'[s].pc = "write" /\ filter'[s].parser = filter[s].parser
      /\ filter'[s].chunks = filter[s].chunks
      /\ filter'[s].closed = filter[s].closed
  BY CharChanges
<1>2. history'[s].passed = history[s].passed /\ history'[s].spans = history[s].spans
  BY <1>1 DEF SameHistory
<1>3. /\ Types /\ Good(s) /\ Active(s) /\ filter[s].pc = "write" /\ stream[s].outcome = "open"
      /\ c \in Buffers /\ BufferOK(c, world)
      /\ Judged(s) = Behind(s) \union Ready(c)
      /\ CoveredBy(world, Judged(s), Start(s, stream[s].path), c)
      /\ Start(s, stream[s].path) \in Nat /\ ~Flushed(s)
  <2>1. ~Flushed(s)
    BY <1>1 DEF At, Flushed
  <2> QED BY <1>1, <2>1, Running
<1>4. world.max \in Nat /\ world.overlap \in Nat /\ world.overlap < world.max
  BY <1>3, WorldFields
<1>5. Behind(s) \in SUBSET Chars
  <2>1. Submitted(s) = {} /\ history[s].passed \in SUBSET Chars
    BY <1>3, HistoryFields DEF Good, Where
  <2> QED BY <2>1 DEF Behind
<1>6. spans \in CharSeqs
  BY <1>3, HistoryFields DEF Paths
<1>7. Reached(Behind(s) \union Ready(c), Frontier(c) + world.overlap) /\ Overlapping(c, world)
      /\ Pending(c, world, spans)
  BY <1>3 DEF Held
<1>8. /\ Reached(Behind(s) \union Ready(d), Frontier(d) + world.overlap) /\ Overlapping(d, world)
      /\ \A x \in CharSeqs : Pending(c, world, x) => Pending(d, world, x)
  BY <1>3, <1>4, <1>5, <1>7, WriteCharPends
<1>9. Pending(d, world, spans)
  BY <1>6, <1>7, <1>8
<1>10. Total(d) = Total(c)
  <2>1. CoveredBy(world, Behind(s) \union Ready(c), Start(s, stream[s].path), c)
    BY <1>3
  <2> QED BY <1>3, <1>4, <2>1, WriteCharOK
<1> HIDE DEF d
<1>11. Judged(s)' = Behind(s) \union Ready(d)
  <2>1. Behind(s)' = Behind(s)
    BY <1>1, <1>2 DEF Behind, Submitted
  <2> QED BY <1>1, <2>1 DEF Judged
<1>12. Responds(s)' => ~Uncounted(s)' /\ stream'[s].sent["response"] = Consumed(s)'
  <2>1. Responds(s)' => Responds(s)
    BY <1>1, <1>3, RespondsBefore
  <2>2. Consumed(s)' = Consumed(s)
    BY <1>1 DEF Consumed
  <2> QED BY <1>1, <1>2, <1>3, <1>10, <2>1, <2>2 DEF Held, Uncounted
<1> QED BY <1>1, <1>2, <1>8, <1>9, <1>11, <1>12 DEF Held

(* How many events there are, and how many of them count.                  *)
LEMMA ResponseNumbers ==
  ASSUME Types, NEW s \in Streams
  PROVE  /\ history[s].spans["response"] \in CharSeqs /\ Len(history[s].spans["response"]) \in Nat
         /\ Consumed(s) \in Nat /\ Total(filter[s].content) \in Nat
<1>1. history[s].spans["response"] \in CharSeqs
  BY HistoryFields DEF Paths
<1>2. Len(history[s].spans["response"]) \in Nat
  <2>1. history[s].spans["response"] \in Seq(Chars)
    BY <1>1 DEF CharSeqs
  <2> QED BY <2>1
<1>3. Consumed(s) \in Nat
  BY FilterFields, ParserFields DEF Consumed
<1>4. Total(filter[s].content) \in Nat
  BY FilterFields, BufferFields DEF Total
<1> QED BY <1>1, <1>2, <1>3, <1>4

(* Counted.                                                                *)
LEMMA CountedHeld ==
  ASSUME IInv, NEW s \in Streams, Held(s), Counted(s)
  PROVE  Held(s)'
<1> DEFINE c == filter[s].content
           d == CountEvent(c, world, filter[s].size)
           old == history[s].spans["response"]
           new == history'[s].spans["response"]
<1>1. /\ At(s, "write") /\ filter[s].left = 0
      /\ world' = world /\ stream' = stream
      /\ filter'[s].content = d /\ filter'[s].pc \in {"collect", "parse"}
      /\ filter'[s].parser = filter[s].parser /\ filter'[s].chunks = filter[s].chunks
      /\ filter'[s].closed = filter[s].closed
      /\ history'[s].passed = history[s].passed
      /\ stream[s].path = "request" => new = old
      /\ stream[s].path = "response" => new = WithOne(old, Span(s))
      /\ Span(s) \in Chars
  BY CountedChanges
<1>2. /\ Types /\ Good(s) /\ Active(s) /\ filter[s].pc = "write" /\ stream[s].outcome = "open"
      /\ c \in Buffers /\ BufferOK(c, world)
      /\ Judged(s) = Behind(s) \union Ready(c) /\ ~Flushed(s)
  <2>1. ~Flushed(s)
    BY <1>1 DEF At, Flushed
  <2> QED BY <1>1, <2>1, Running
<1>3. world.max \in Nat /\ world.overlap \in Nat /\ filter[s].size \in Nat
      /\ stream[s].path \in {"request", "response"}
  BY <1>2, WorldFields, FilterFields, StreamFields DEF Paths
<1>4. Reached(Judged(s), Frontier(c) + world.overlap) /\ Overlapping(c, world) /\ Pending(c, world, old)
  BY <1>2 DEF Held
<1>5. /\ Overlapping(d, world)
      /\ \A x \in CharSeqs : \A seg \in Chars : \A grown :
           /\ grown = WithOne(x, seg)
           /\ seg.to = c.base + c.len
           /\ Pending(c, world, x)
           => Pending(d, world, grown)
  BY <1>2, <1>3, <1>4, CountEventPends
<1>6. /\ d.base = c.base /\ d.currStart = c.currStart /\ d.boundaries = c.boundaries
      /\ Total(d) = Total(c) + 1
  <2>1. filter[s].size > 0 /\ c.currChars = 0 => HasChunks(c)
    BY <1>1, <1>2 DEF Good, Where
  <2> QED BY <1>2, <1>3, <2>1, CountEventOK
<1>7. old \in CharSeqs /\ Len(old) \in Nat /\ Consumed(s) \in Nat /\ Total(c) \in Nat
  BY <1>2, ResponseNumbers
<1>8. Pending(d, world, new)
  <2>1. CASE stream[s].path = "request"
    <3>1. new = <<>>
      BY <1>1, <1>2, <2>1 DEF Good, Request
    <3> QED BY <3>1 DEF Pending
  <2>2. CASE stream[s].path = "response"
    <3>1. Span(s).to = c.base + c.len
      BY DEF Span, End
    <3> HIDE DEF d
    <3> QED BY <1>1, <1>4, <1>5, <1>7, <2>2, <3>1
  <2> QED BY <1>3, <2>1, <2>2
<1> HIDE DEF d
<1>9. Judged(s)' = Judged(s) /\ Frontier(d) = Frontier(c)
  <2>1. Behind(s)' = Behind(s) /\ Ready(d) = Ready(c)
    BY <1>1, <1>6 DEF Behind, Submitted, Ready, Chunks
  <2> QED BY <1>1, <1>6, <2>1 DEF Judged, Frontier
<1>10. Responds(s)' => ~Uncounted(s)' /\ stream'[s].sent["response"] = Consumed(s)'
  <2> SUFFICES ASSUME Responds(s)'
               PROVE  ~Uncounted(s)' /\ stream'[s].sent["response"] = Consumed(s)'
    OBVIOUS
  <2>1. Responds(s) /\ stream[s].path = "response"
    BY <1>1, <1>2, RespondsBefore DEF Responds
  <2>2. ~(Consumed(s) + Parts * Total(c) < Parts * Len(old)) /\ stream[s].sent["response"] = Consumed(s)
    BY <1>2, <2>1 DEF Held, Uncounted
  <2>3. Consumed(s)' = Consumed(s)
    BY <1>1 DEF Consumed
  <2>4. Len(new) = Len(old) + 1
    BY <1>1, <1>7, <2>1, OneMore
  <2> DEFINE n == Len(old)
             t == Total(c)
             x == Consumed(s)
  <2>5. ~(x + Parts * (t + 1) < Parts * (n + 1))
    <3>1. n \in Nat /\ t \in Nat /\ x \in Nat /\ ~(x + Parts * t < Parts * n)
      BY <1>7, <2>2
    <3> HIDE DEF n, t, x
    <3> QED BY <3>1 DEF Parts
  <2> QED BY <1>1, <1>6, <2>2, <2>3, <2>4, <2>5 DEF Uncounted
<1> QED BY <1>1, <1>4, <1>5, <1>8, <1>9, <1>10 DEF Held

(* What Collect takes, and what it leaves.                                 *)
LEMMA CollectedHeld ==
  ASSUME IInv, NEW s \in Streams, Held(s), At(s, "collect")
  PROVE  LET c == filter[s].content
             d == Collected(s)
             e == Retrieved(d)
         IN /\ d \in Buffers /\ BufferOK(d, world) /\ Overlapping(d, world)
            /\ Frontier(e) = Frontier(d) /\ Overlapping(e, world) /\ Ready(e) = {}
            /\ Reached(Behind(s) \union Ready(d), Frontier(d) + world.overlap)
            /\ ~filter[s].end => d = c /\ Pending(e, world, history[s].spans["response"])
            /\ Total(c) \in Nat /\ Total(e) \in Nat /\ CompletedEvents(d) \in Nat
            /\ Total(c) <= Total(e) + CompletedEvents(d)
            /\ Behind(s) = history[s].passed
            /\ {Chunks(d)[i] : i \in DOMAIN Chunks(d)} = Ready(d)
            /\ HasChunks(d) \/ (d = c /\ (filter[s].end => c.currChars = 0 /\ c.overlapEvents = 0))
            /\ filter[s].end /\ c.currChars # 0 => Total(c) <= CompletedEvents(d)
            /\ CompletedEvents(d) <= Total(c)
<1> DEFINE c == filter[s].content
           d == Collected(s)
           e == Retrieved(d)
<1>1. /\ Types /\ Good(s) /\ Active(s) /\ filter[s].pc = "collect" /\ stream[s].outcome = "open"
      /\ c \in Buffers /\ BufferOK(c, world)
      /\ Judged(s) = Behind(s) \union Ready(c)
      /\ CoveredBy(world, Judged(s), Start(s, stream[s].path), c)
      /\ Start(s, stream[s].path) \in Nat /\ ~Flushed(s)
  <2>1. ~Flushed(s)
    BY DEF At, Flushed
  <2> QED BY <2>1, Running
<1>2. world.max \in Nat /\ world.overlap \in Nat /\ world.overlap < world.max
  BY <1>1, WorldFields
<1>3. Submitted(s) = {} /\ Behind(s) = history[s].passed /\ Behind(s) \in SUBSET Chars
  BY <1>1, HistoryFields DEF Good, Where, Behind
<1>4. /\ Reached(Behind(s) \union Ready(c), Frontier(c) + world.overlap) /\ Overlapping(c, world)
      /\ Pending(c, world, history[s].spans["response"])
  BY <1>1 DEF Held
<1>5. /\ d \in Buffers /\ BufferOK(d, world) /\ Overlapping(d, world)
      /\ Reached(Behind(s) \union Ready(d), Frontier(d) + world.overlap)
      /\ ~filter[s].end => d = c
      /\ \/ filter[s].end /\ HasChunks(d) /\ d.completed = Total(c)
         \/ d = c /\ (filter[s].end => c.currChars = 0 /\ c.overlapEvents = 0)
  <2>1. CASE filter[s].end
    <3>1. d = Flush(c, world)
      BY <2>1 DEF Collected
    <3>2. CoveredBy(world, Behind(s) \union Ready(c), Start(s, stream[s].path), c)
      BY <1>1
    <3>3. d \in Buffers /\ BufferOK(d, world)
      BY <1>1, <1>2, <3>1, <3>2, FlushOK
    <3>4. /\ Reached(Behind(s) \union Ready(d), Frontier(d) + world.overlap) /\ Overlapping(d, world)
          /\ \/ HasChunks(d) /\ d.completed = Total(c)
             \/ c.currChars = 0 /\ d = c /\ c.overlapEvents = 0
      <4> DEFINE X == Behind(s)
                 g == Flush(c, world)
      <4>1. /\ c \in Buffers /\ BufferOK(c, world) /\ X \in SUBSET Chars
            /\ Reached(X \union Ready(c), Frontier(c) + world.overlap) /\ Overlapping(c, world)
        BY <1>1, <1>3, <1>4
      <4> HIDE DEF X, c
      <4>2. /\ Reached(X \union Ready(g), Frontier(g) + world.overlap) /\ Overlapping(g, world)
            /\ \/ HasChunks(g) /\ g.completed = Total(c)
               \/ c.currChars = 0 /\ g = c /\ c.overlapEvents = 0
        BY <1>2, <4>1, FlushPends
      <4> HIDE DEF d, g
      <4>3. d = g
        BY <3>1 DEF g
      <4> QED BY <4>2, <4>3 DEF X
    <3> QED BY <2>1, <3>3, <3>4
  <2>2. CASE ~filter[s].end
    <3>1. d = c
      BY <2>2 DEF Collected
    <3> QED BY <1>1, <1>4, <2>2, <3>1
  <2> QED BY <2>1, <2>2
<1> HIDE DEF d
<1>6. /\ Frontier(e) = Frontier(d) /\ Overlapping(e, world)
      /\ \A x \in CharSeqs : Pending(d, world, x) => Pending(e, world, x)
  BY <1>5, RetrievedPends
<1>7. /\ e \in Buffers /\ ~HasChunks(e) /\ CompletedEvents(d) \in Nat
      /\ Total(e) + CompletedEvents(d) = Total(d)
  BY <1>2, <1>5, RetrievedOK
<1>8. /\ {Chunks(d)[i] : i \in DOMAIN Chunks(d)} = Ready(d) /\ Ready(e) = {}
  BY <1>5, <1>7, ChunksOK
<1>9. Total(c) \in Nat /\ Total(e) \in Nat
  BY <1>1, <1>7, BufferFields DEF Total
<1>10. Total(c) <= Total(e) + CompletedEvents(d)
       /\ (filter[s].end /\ c.currChars # 0 => Total(c) <= CompletedEvents(d))
       /\ CompletedEvents(d) <= Total(c)
  <2>1. CASE HasChunks(d) /\ d.completed = Total(c)
    <3>1. CompletedEvents(d) = Total(c)
      BY <2>1 DEF CompletedEvents, HasChunks
    <3> QED BY <1>7, <1>9, <3>1
  <2>2. CASE d = c /\ (filter[s].end => c.currChars = 0)
    BY <1>7, <1>9, <2>2
  <2> QED BY <1>5, <2>1, <2>2
<1>11. ~filter[s].end => Pending(e, world, history[s].spans["response"])
  BY <1>1, <1>4, <1>5, <1>6, ResponseNumbers
<1>12. HasChunks(d) \/ (d = c /\ (filter[s].end => c.currChars = 0 /\ c.overlapEvents = 0))
  BY <1>5
<1> QED BY <1>3, <1>5, <1>6, <1>7, <1>8, <1>9, <1>10, <1>11, <1>12 DEF d

(* What is consumed with it: no event that is counted is left out.         *)
LEMMA CollectConsumes ==
  ASSUME IInv, NEW s \in Streams, Held(s), Collect(s), Consumable(filter[s].parser, Count(s)),
         Responds(s), filter'[s].parser = Consume(filter[s].parser, Count(s)), NEW t \in Nat,
         Total(filter[s].content) <= t + CompletedEvents(Collected(s))
  PROVE  /\ ~(Consumed(s)' + Parts * t < Parts * Len(history[s].spans["response"]))
         /\ Consumed(s)' <= Parts * Len(history[s].spans["response"]) /\ Consumed(s)' \in Nat
<1> DEFINE p == filter[s].parser
           n == Count(s)
           q == Consume(p, n)
           len == Len(history[s].spans["response"])
           total == Total(filter[s].content)
<1>1. Types /\ Good(s) /\ filter[s].pc = "collect" /\ At(s, "collect")
  BY DEF IInv, Collect, At
<1>2. p \in Parsers /\ ParserOK(p)
  BY <1>1, FilterFields DEF Good, Parser
<1>3. n = CompletedEvents(Collected(s)) /\ n \in Nat /\ total \in Nat /\ len \in Nat
  BY <1>1, CollectedHeld, ResponseNumbers DEF Responds, Count
<1>4. p.base + p.lastParseEnd = Parts * (len + 0)
  BY <1>1 DEF Good, Streamed, Responds
<1>5. ~(p.base + p.parsedOffset + Parts * total < Parts * len)
  BY <1>1 DEF Held, Uncounted, Consumed
<1>6. /\ q \in Parsers /\ ParserOK(q) /\ q.base = p.base /\ q.lastParseEnd = p.lastParseEnd
      /\ p.parsedOffset + Parts * n <= p.lastParseEnd => q.parsedOffset = p.parsedOffset + Parts * n
      /\ p.lastParseEnd <= p.parsedOffset + Parts * n => q.parsedOffset = p.lastParseEnd
  BY <1>2, <1>3, ConsumeOK, ConsumeAll
<1>7. Consumed(s)' = q.base + q.parsedOffset
  BY DEF Consumed
<1> DEFINE base == p.base
           off == p.parsedOffset
           last == p.lastParseEnd
           new == q.parsedOffset
<1>8. /\ base \in Nat /\ off \in Nat /\ last \in Nat /\ new \in Nat /\ new <= last
      /\ base + last = Parts * len /\ ~(base + off + Parts * total < Parts * len)
      /\ total <= t + n
      /\ off + Parts * n <= last => new = off + Parts * n
      /\ last <= off + Parts * n => new = last
  <2>1. base \in Nat /\ off \in Nat /\ last \in Nat
    BY <1>2, ParserFields
  <2>2. new \in Nat /\ new <= last
    BY <1>6, ParserFields DEF ParserOK
  <2> QED BY <1>3, <1>4, <1>5, <1>6, <2>1, <2>2
<1>9. Consumed(s)' = base + new
  BY <1>6, <1>7
<1> HIDE DEF n, len, total, base, off, last, new
<1>10. ~(base + new + Parts * t < Parts * len) /\ base + new <= Parts * len /\ base + new \in Nat
  BY <1>3, <1>8 DEF Parts
<1> QED BY <1>9, <1>10 DEF len

(* Collect.                                                                *)
LEMMA CollectHeld ==
  ASSUME IInv, NEW s \in Streams, Held(s), Collect(s)
  PROVE  Held(s)'
<1> DEFINE c == filter[s].content
           d == Collected(s)
           e == Retrieved(d)
<1>1. /\ At(s, "collect") /\ world' = world /\ SameHistory(s)
      /\ stream'[s].path = stream[s].path
  BY CollectChanges
<1>2. /\ history'[s].spans = history[s].spans /\ history'[s].passed = history[s].passed
      /\ stream[s].outcome = "open"
  BY <1>1 DEF SameHistory, At
<1>3. CASE stream'[s].outcome = "panic" /\ filter' = filter
  <2>1. ~Active(s)' /\ ~Responds(s)'
    BY <1>3 DEF Active, Responds
  <2>2. Judged(s)' = Judged(s)
    BY <1>2, <1>3, JudgedStays
  <2> QED BY <1>1, <1>2, <1>3, <2>1, <2>2, HeldStays
<1>4. CASE /\ Consumable(filter[s].parser, Count(s))
           /\ filter'[s].content = e
           /\ filter'[s].parser = Consume(filter[s].parser, Count(s))
           /\ filter'[s].chunks = Chunks(d)
           /\ filter'[s].pc \in {"release", "moderate"}
           /\ filter'[s].closed = filter[s].closed /\ filter'[s].end = filter[s].end
  <2>1. /\ Frontier(e) = Frontier(d) /\ Overlapping(e, world) /\ Ready(e) = {}
        /\ Reached(Behind(s) \union Ready(d), Frontier(d) + world.overlap)
        /\ ~filter[s].end => Pending(e, world, history[s].spans["response"])
        /\ Total(e) \in Nat /\ Total(c) <= Total(e) + CompletedEvents(d)
        /\ Behind(s) = history[s].passed
        /\ {Chunks(d)[i] : i \in DOMAIN Chunks(d)} = Ready(d)
    BY <1>1, CollectedHeld
  <2> HIDE DEF d, e
  <2>2. Judged(s)' = Behind(s) \union Ready(d)
    <3>1. Submitted(s)' = Ready(d)
      BY <1>4, <2>1 DEF Submitted
    <3>2. Behind(s)' = Behind(s) \union Ready(d)
      BY <1>2, <2>1, <3>1 DEF Behind
    <3> QED BY <1>4, <2>1, <3>2 DEF Judged
  <2>3. ~Flushed(s)' => ~filter[s].end
    BY <1>4 DEF Flushed
  <2>4. Responds(s)' => ~Uncounted(s)'
    <3> SUFFICES ASSUME Responds(s)'
                 PROVE  ~Uncounted(s)'
      OBVIOUS
    <3>1. Responds(s)
      BY <1>1, <1>2, <1>4, RespondsBefore
    <3>2. ~(Consumed(s)' + Parts * Total(e) < Parts * Len(history[s].spans["response"]))
      BY <1>4, <2>1, <3>1, CollectConsumes DEF d
    <3> QED BY <1>2, <1>4, <3>2 DEF Uncounted
  <2> QED BY <1>1, <1>2, <1>4, <2>1, <2>2, <2>3, <2>4 DEF Held
<1> QED BY <1>3, <1>4, CollectChanges

(* Moderate.                                                               *)
LEMMA ModerateHeld ==
  ASSUME IInv, NEW s \in Streams, Held(s), Moderate(s)
  PROVE  Held(s)'
<1>1. /\ At(s, "moderate") /\ world' = world
      /\ history'[s].spans = history[s].spans
      /\ history'[s].passed \subseteq Behind(s)
      /\ stream'[s].path = stream[s].path /\ stream'[s].sent = stream[s].sent
      /\ filter'[s].content = filter[s].content
      /\ filter'[s].parser = filter[s].parser /\ filter'[s].end = filter[s].end
  BY ModerateChanges
<1>2. /\ stream[s].outcome = "open" /\ filter[s].pc = "moderate" /\ Active(s)
      /\ filter[s].chunks \in CharSeqs
  BY <1>1, Running, FilterFields
<1>3. Behind(s) \subseteq Judged(s) /\ Ready(filter[s].content) \subseteq Judged(s) /\ Submitted(s) \subseteq Behind(s)
  BY DEF Judged, Behind
<1>4. CASE stream' = stream /\ filter'[s].pc = "release" /\ filter'[s].chunks = <<>>
           /\ filter'[s].closed = filter[s].closed
  <2>1. Judged(s)' \subseteq Judged(s)
    <3>1. Submitted(s)' = {}
      BY <1>4 DEF Submitted
    <3>2. Judged(s)' = history'[s].passed \union Ready(filter[s].content)
      BY <1>1, <3>1 DEF Judged, Behind
    <3> QED BY <1>1, <1>3, <3>2
  <2>2. ~Flushed(s)' => ~Flushed(s)
    BY <1>1, <1>2, <1>4 DEF Flushed
  <2>3. Responds(s)' => Responds(s)
    BY <1>1, <1>2, <1>4, RespondsBefore
  <2>4. Responds(s)' => ~Uncounted(s)'
    BY <1>1, <2>3 DEF Held, Uncounted, Consumed
  <2> QED BY <1>1, <1>2, <1>4, <2>1, <2>2, <2>4, HeldStays
<1>5. CASE stream'[s].outcome = "refused" /\ filter' = filter
  <2>1. ~Active(s)' /\ ~Responds(s)'
    BY <1>5 DEF Active, Responds
  <2>2. Judged(s)' \subseteq Judged(s)
    <3>1. Judged(s)' = (history'[s].passed \union Submitted(s)) \union Ready(filter[s].content)
      BY <1>5 DEF Judged, Behind, Submitted
    <3> QED BY <1>1, <1>3, <3>1
  <2> QED BY <1>1, <2>1, <2>2, HeldStays
<1>6. CASE filter'[s].closed = TRUE /\ filter'[s].chunks = <<>>
  <2>1. ~Active(s)' /\ ~Responds(s)'
    BY <1>6 DEF Active, Responds
  <2>2. Judged(s)' \subseteq Judged(s)
    <3>1. Submitted(s)' = {}
      BY <1>6 DEF Submitted
    <3>2. Judged(s)' = history'[s].passed \union Ready(filter[s].content)
      BY <1>1, <3>1 DEF Judged, Behind
    <3> QED BY <1>1, <1>3, <3>2
  <2> QED BY <1>1, <2>1, <2>2, HeldStays
<1> QED BY <1>4, <1>5, <1>6, ModerateChanges

(* Where a response begins, nothing is counted and nothing has left.       *)
LEMMA HeldAtResponse ==
  ASSUME IInv, NEW s \in Streams, Held(s), stream[s].path = "request", world' = world,
         filter'[s].content = filter[s].content, filter'[s].chunks = filter[s].chunks,
         Consumed(s)' = Consumed(s), history'[s].spans = history[s].spans,
         history'[s].passed = history[s].passed,
         stream'[s].sent["response"] = stream[s].sent["response"]
  PROVE  Held(s)'
<1>1. /\ filter[s].parser = NewStreamEventParser /\ history[s].spans["response"] = <<>>
      /\ stream[s].sent["response"] = 0 /\ filter[s].content \in Buffers
  BY FilterFields DEF IInv, Good, Request, Paths
<1>2. Judged(s)' = Judged(s)
  BY JudgedStays
<1>3. Consumed(s)' = 0
  BY <1>1 DEF Consumed, NewStreamEventParser
<1>4. ~Uncounted(s)'
  <2>1. Total(filter[s].content) \in Nat
    BY ResponseNumbers DEF IInv
  <2>2. Len(<<>>) = 0
    OBVIOUS
  <2> DEFINE t == Total(filter[s].content)
  <2>3. ~(0 + Parts * t < Parts * 0)
    <3>1. t \in Nat
      BY <2>1
    <3> HIDE DEF t
    <3> QED BY <3>1 DEF Parts
  <2> QED BY <1>1, <1>3, <2>2, <2>3 DEF Uncounted
<1> QED BY <1>1, <1>2, <1>3, <1>4, HeldStays

(* Release.                                                                *)
LEMMA ReleaseHeld ==
  ASSUME IInv, NEW s \in Streams, Held(s), Release(s)
  PROVE  Held(s)'
<1>1. /\ At(s, "release") /\ world' = world /\ Turns(s, filter[s].end)
      /\ stream'[s].sent[stream[s].path] = Released(s)
      /\ \A e \in Paths \ {stream[s].path} : stream'[s].sent[e] = stream[s].sent[e]
      /\ filter'[s].content = filter[s].content /\ filter'[s].chunks = filter[s].chunks
      /\ filter'[s].closed = filter[s].closed
      /\ filter'[s].pc = "idle"
      /\ filter'[s].parser = PruneParsedData(filter[s].parser)
      /\ history'[s].spans = history[s].spans /\ history'[s].passed = history[s].passed
  BY ReleaseChanges
<1>2. /\ Types /\ Good(s) /\ Active(s) /\ stream[s].outcome = "open" /\ filter[s].pc = "release"
  BY <1>1, Running
<1>3. Consumed(s)' = Consumed(s)
  <2>1. filter[s].parser \in Parsers /\ ParserOK(filter[s].parser)
    BY <1>2, FilterFields DEF Good, Parser
  <2> QED BY <1>1, <2>1, PruneOK DEF Consumed
<1>4. stream[s].path \in {"request", "response"} /\ filter[s].end \in BOOLEAN
  BY <1>2, StreamFields, FilterFields DEF Paths
<1>5. CASE stream[s].path = "request"
  <2>1. stream'[s].sent["response"] = stream[s].sent["response"]
    BY <1>1, <1>5 DEF Paths
  <2> QED BY <1>1, <1>3, <1>5, <2>1, HeldAtResponse
<1>6. CASE stream[s].path = "response" /\ filter[s].end
  <2>1. ~Active(s)' /\ ~Responds(s)'
    BY <1>1, <1>6 DEF Turns, Active, Responds
  <2>2. Judged(s)' = Judged(s)
    BY <1>1, JudgedStays
  <2> QED BY <1>1, <2>1, <2>2, HeldStays
<1>7. CASE stream[s].path = "response" /\ ~filter[s].end
  <2>1. stream'[s].path = stream[s].path /\ ~Flushed(s)
    BY <1>1, <1>7 DEF Turns, Flushed
  <2>2. Mode(s)' = Mode(s) /\ (Responds(s)' => Responds(s))
    BY <1>1, <1>2, <2>1, RespondsBefore
  <2>3. Judged(s)' = Judged(s)
    BY <1>1, JudgedStays
  <2>4. Responds(s)' => ~Uncounted(s)'
    BY <1>1, <1>3, <2>2 DEF Held, Uncounted
  <2>5. Responds(s)' => stream'[s].sent["response"] = Consumed(s)'
    <3>1. Responds(s) => Released(s) = Consumed(s)
      BY DEF Responds, Released, Consumed
    <3> QED BY <1>1, <1>3, <1>7, <2>2, <3>1
  <2> QED BY <1>1, <1>2, <2>1, <2>3, <2>4, <2>5, HeldStays
<1> QED BY <1>4, <1>5, <1>6, <1>7

(* ReceiveEnd.                                                             *)
LEMMA ReceiveEndHeld ==
  ASSUME IInv, NEW s \in Streams, Held(s), ReceiveEnd(s)
  PROVE  Held(s)'
<1>1. /\ At(s, "idle") /\ world' = world /\ filter' = filter /\ history' = history
      /\ Turns(s, TRUE) /\ stream'[s].sent = stream[s].sent
  BY ReceiveEndChanges
<1>2. stream[s].path \in {"request", "response"}
  BY StreamFields DEF Paths, IInv
<1>3. CASE stream[s].path = "request"
  <2>1. Consumed(s)' = Consumed(s)
    BY <1>1 DEF Consumed
  <2> QED BY <1>1, <1>3, <2>1, HeldAtResponse
<1>4. CASE stream[s].path = "response"
  <2>1. ~Active(s)' /\ ~Responds(s)'
    BY <1>1, <1>4 DEF Turns, Active, Responds
  <2>2. Judged(s)' = Judged(s)
    BY <1>1, JudgedStays
  <2> QED BY <1>1, <2>1, <2>2, HeldStays
<1> QED BY <1>2, <1>3, <1>4

(* Receive is one of the two data handlers, called as the mode has it.     *)
LEMMA Received ==
  ASSUME IInv, NEW s \in Streams, Receive(s)
  PROVE  /\ At(s, "idle") /\ world' = world /\ history' = history /\ Message(s).contents # <<>>
         /\ \E n \in 0 .. Rest(s) : \E end \in BOOLEAN :
              /\ end => n = Rest(s) /\ (Mode(s) = "wait" \/ ~Message(s).trailers)
              /\ \/ Mode(s) = "whole" /\ dataHandler(s, n, end)
                 \/ Mode(s) # "whole" /\ (Mode(s) = "wait" => end) /\ sseDataHandler(s, n, end)
<1>1. Mode(s) \in {"whole", "stream", "wait"}
  BY MessageFields DEF IInv
<1>2. PICK n \in 0 .. Rest(s), end \in BOOLEAN :
        CASE Mode(s) = "whole" -> /\ end => n = Rest(s) /\ ~Message(s).trailers
                                  /\ dataHandler(s, n, end)
          [] Mode(s) = "stream" -> /\ end => n = Rest(s) /\ ~Message(s).trailers
                                   /\ sseDataHandler(s, n, end)
          [] Mode(s) = "wait" -> /\ n = Rest(s) /\ end
                                 /\ sseDataHandler(s, n, end)
  BY DEF Receive
<1>3. /\ end => n = Rest(s) /\ (Mode(s) = "wait" \/ ~Message(s).trailers)
      /\ \/ Mode(s) = "whole" /\ dataHandler(s, n, end)
         \/ Mode(s) # "whole" /\ (Mode(s) = "wait" => end) /\ sseDataHandler(s, n, end)
  <2>1. CASE Mode(s) = "whole"
    BY <1>2, <2>1
  <2>2. CASE Mode(s) = "stream"
    BY <1>2, <2>2
  <2>3. CASE Mode(s) = "wait"
    BY <1>2, <2>3
  <2> QED BY <1>1, <2>1, <2>2, <2>3
<1>4. At(s, "idle") /\ world' = world /\ history' = history /\ Message(s).contents # <<>>
  BY DEF Receive
<1> QED BY <1>3, <1>4

(* Receive.                                                                *)
LEMMA ReceiveHeld ==
  ASSUME IInv, NEW s \in Streams, Held(s), Receive(s)
  PROVE  Held(s)'
<1>1. At(s, "idle") /\ world' = world /\ history' = history
  BY Received
<1>2. PICK n \in 0 .. Rest(s) : \E end \in BOOLEAN :
        \/ Mode(s) = "whole" /\ dataHandler(s, n, end)
        \/ Mode(s) # "whole" /\ sseDataHandler(s, n, end)
  BY Received
<1>3. PICK end \in BOOLEAN :
        \/ Mode(s) = "whole" /\ dataHandler(s, n, end)
        \/ Mode(s) # "whole" /\ sseDataHandler(s, n, end)
  BY <1>2
<1>4. stream[s].outcome = "open" /\ filter[s].pc = "idle" /\ ~Flushed(s)
  BY <1>1 DEF At, Flushed
<1>5. CASE Mode(s) = "whole" /\ dataHandler(s, n, end)
  <2>1. /\ stream'[s].path = stream[s].path
        /\ filter'[s].content = filter[s].content /\ filter'[s].chunks = filter[s].chunks
        /\ filter'[s].closed = filter[s].closed
    BY <1>1, <1>5, DocumentChanges
  <2>2. Mode(s)' = Mode(s) /\ (Active(s)' => Active(s))
    BY <1>1, <1>4, <2>1, RespondsBefore
  <2>3. ~Responds(s)'
    BY <1>5, <2>2 DEF Responds
  <2>4. Judged(s)' = Judged(s)
    BY <1>1, <2>1, JudgedStays
  <2> QED BY <1>1, <1>4, <2>1, <2>2, <2>3, <2>4, HeldStays
<1>6. CASE Mode(s) # "whole" /\ sseDataHandler(s, n, end)
  <2>1. /\ stream'[s].path = stream[s].path /\ stream'[s].sent = stream[s].sent
        /\ filter'[s].content = filter[s].content /\ filter'[s].chunks = filter[s].chunks
        /\ filter'[s].closed = filter[s].closed
        /\ filter[s].closed => stream'[s].outcome = "refused"
        /\ ~filter[s].closed =>
             /\ filter'[s].parser.base = filter[s].parser.base
             /\ filter'[s].parser.parsedOffset = filter[s].parser.parsedOffset
    BY <1>1, <1>6, EventsChange
  <2>2. (Active(s)' => Active(s)) /\ (Responds(s)' => Responds(s) /\ ~filter[s].closed)
    <3>1. (Active(s)' => Active(s)) /\ (Responds(s)' => Responds(s))
      BY <1>1, <1>4, <2>1, RespondsBefore
    <3> QED BY <3>1 DEF Responds, Active
  <2>3. Judged(s)' = Judged(s)
    BY <1>1, <2>1, JudgedStays
  <2>4. Responds(s)' => ~Uncounted(s)' /\ stream'[s].sent["response"] = Consumed(s)'
    BY <1>1, <1>4, <2>1, <2>2, RespondsStays
  <2> QED BY <1>1, <1>4, <2>1, <2>2, <2>3, <2>4, HeldStays
<1> QED BY <1>3, <1>5, <1>6

(* Held begins, and is kept.                                               *)
LEMMA HeldBegins ==
  ASSUME Init
  PROVE  \A s \in Streams : Held(s)
<1> SUFFICES ASSUME NEW s \in Streams
             PROVE  Held(s)
  OBVIOUS
<1>1. /\ filter[s].pc = "idle" /\ filter[s].content = NewContentBuffer
      /\ stream[s].path = "request" /\ filter[s].chunks = <<>>
      /\ history[s].spans = [d \in Paths |-> <<>>] /\ history[s].passed = {}
  BY DEF Init
<1>2. NewContentBuffer.boundaries = <<>> /\ NewContentBuffer.overlapEvents = 0
  BY DEF NewContentBuffer
<1>3. Judged(s) = {}
  <2>1. Submitted(s) = {} /\ Ready(NewContentBuffer) = {}
    BY <1>1, <1>2 DEF Submitted, Ready
  <2> QED BY <1>1, <2>1 DEF Judged, Behind
<1>4. history[s].spans["response"] = <<>>
  BY <1>1 DEF Paths
<1>5. Pending(NewContentBuffer, world, <<>>) /\ Overlapping(NewContentBuffer, world)
  BY <1>2 DEF Pending, Overlapping
<1>6. ~Responds(s)
  BY <1>1 DEF Responds
<1> QED BY <1>1, <1>3, <1>4, <1>5, <1>6 DEF Held, Reached

(* A step keeps Held of its stream, and changes no other.                  *)
LEMMA HeldKept ==
  ASSUME IInv, \A s \in Streams : Held(s), [Next]_vars
  PROVE  \A s \in Streams : Held(s)'
<1>1. CASE UNCHANGED vars
  BY <1>1 DEF vars, Held, Judged, Behind, Submitted, Active, Flushed, Responds, Uncounted, Consumed, Mode,
              Message
<1>2. CASE Next
  <2>1. PICK s \in Streams : Step(s)
    BY <1>2 DEF Next, Step
  <2>2. Held(s)'
    BY <2>1, ExtractHeld, ParseHeld, CharHeld, CountedHeld, CollectHeld, ModerateHeld, ReleaseHeld,
       ReceiveEndHeld, ReceiveHeld DEF Step, Handler
  <2>3. ASSUME NEW u \in Streams, u # s
        PROVE  Held(u)'
    <3>1. world' = world /\ filter'[u] = filter[u] /\ stream'[u] = stream[u] /\ history'[u] = history[u]
      BY <2>1, <2>3, OthersStay DEF IInv
    <3> QED BY <3>1 DEF Held, Judged, Behind, Submitted, Active, Flushed, Responds, Uncounted, Consumed, Mode,
                        Message
  <2> QED BY <2>2, <2>3
<1> QED BY <1>1, <1>2

(* An event that has not left ends no earlier than the chunk being built.  *)
LEMMA HeldHolds ==
  ASSUME IInv, \A s \in Streams : Held(s)
  PROVE  HeldForCause
<1> SUFFICES ASSUME NEW s \in Streams, At(s, "idle"), ~filter[s].closed,
                    NEW i \in (EventsSent(s, "response") + 1) .. Len(history[s].spans["response"]),
                    NEW p \in history[s].passed
             PROVE  p.to <= history[s].spans["response"][i].to + world.overlap
  BY DEF HeldForCause
<1> DEFINE c == filter[s].content
           spans == history[s].spans["response"]
           k == Len(spans)
           x == Consumed(s)
           t == Total(c)
           sent == stream[s].sent["response"]
<1>1. /\ Types /\ Good(s) /\ Held(s) /\ Active(s) /\ ~Flushed(s)
      /\ stream[s].outcome = "open" /\ filter[s].pc = "idle"
  BY DEF IInv, At, Active, Flushed
<1>2. spans \in CharSeqs /\ k \in Nat /\ x \in Nat /\ t \in Nat
  BY <1>1, ResponseNumbers
<1>3. /\ c \in Buffers /\ c.base \in Nat /\ c.currStart \in Nat /\ c.completed = 0
      /\ t = c.currEvents + c.overlapEvents
  <2>1. c \in Buffers
    BY <1>1, FilterFields
  <2>2. /\ c.base \in Nat /\ c.currStart \in Nat /\ c.completed \in Nat /\ c.currEvents \in Nat
        /\ c.overlapEvents \in Nat
    BY <2>1, BufferFields
  <2>3. c.completed = 0
    BY <1>1 DEF Good, Where, Content, BufferOK
  <2> QED BY <2>1, <2>2, <2>3 DEF Total
<1>4. sent \in Nat /\ world.overlap \in Nat /\ stream[s].path \in {"request", "response"}
  BY <1>1, StreamFields, WorldFields DEF Paths
<1>5. i \in DOMAIN spans /\ i \in Nat /\ sent \div Parts + 1 <= i /\ i <= k
  <2>1. sent \div Parts \in Nat
    BY <1>4 DEF Parts
  <2>2. spans \in Seq(Chars)
    BY <1>2 DEF CharSeqs
  <2> DEFINE j == sent \div Parts
  <2>3. i \in (j + 1) .. k
    BY DEF EventsSent
  <2> HIDE DEF j
  <2>4. i \in Nat /\ j + 1 <= i /\ i <= k /\ i \in 1 .. k
    BY <1>2, <2>1, <2>3 DEF j
  <2> QED BY <2>2, <2>4 DEF j
<1>6. Responds(s)
  <2>1. spans # <<>>
    BY <1>5
  <2>2. stream[s].path = "response"
    BY <1>1, <1>4, <2>1 DEF Good, Request
  <2>3. Mode(s) # "whole"
    BY <1>1, <2>1, <2>2 DEF Good, Whole
  <2> QED BY <1>1, <2>2, <2>3 DEF Responds
<1>7. ~(x + Parts * t < Parts * k) /\ sent = x
  BY <1>1, <1>6 DEF Held, Uncounted
<1>8. k < i + t
  <2>1. sent < Parts * i
    <3> HIDE DEF k, t, x, sent
    <3> QED BY <1>4, <1>5 DEF Parts
  <2> HIDE DEF k, t, x, sent
  <2> QED BY <1>2, <1>5, <1>7, <2>1 DEF Parts
<1>9. k < i + c.currEvents + c.overlapEvents
  <2>1. c.currEvents \in Nat /\ c.overlapEvents \in Nat
    BY <1>3, BufferFields
  <2> HIDE DEF k, t
  <2> QED BY <1>2, <1>3, <1>5, <1>8, <2>1
<1>10. Frontier(c) <= spans[i].to
  BY <1>1, <1>5, <1>9 DEF Held, Pending
<1>11. p.to <= Frontier(c) + world.overlap
  <2>1. p \in Judged(s)
    BY DEF Judged, Behind
  <2> QED BY <1>1, <2>1 DEF Held, Reached
<1>12. p.to \in Nat /\ spans[i].to \in Nat /\ Frontier(c) \in Nat
  <2>1. p \in Chars
    BY <1>1, HistoryFields
  <2>2. spans[i] \in Chars
    BY <1>2, <1>5 DEF CharSeqs
  <2>3. Frontier(c) \in Nat
    BY <1>3 DEF Frontier
  <2> QED BY <2>1, <2>2, <2>3 DEF Chars
<1> QED BY <1>4, <1>10, <1>11, <1>12

-----------------------------------------------------------------------------
(* What is due at the end of a message.  Without an overlap chunks begin   *)
(* at multiples of their length from where the message does, and an event  *)
(* that ends where a chunk begins has no content, if one is counted there. *)
Aligned(k, n, m) == \E j \in Nat : m = n + j * k.max
Grid(k, lo, c) == Aligned(k, lo, Frontier(c)) /\ lo <= Frontier(c) /\ (HasChunks(c) => lo < Frontier(c))
Empty(span) == span.from = span.to
Regular(s) ==
  LET f == filter[s]
      c == f.content
      lo == Start(s, "response")
      spans == history[s].spans["response"]
  IN /\ Grid(world, lo, c)
     /\ spans = <<>> => IF f.pc = "write" THEN lo + f.size = End(s) + f.left ELSE lo = End(s)
     /\ spans # <<>> => spans[1].from = lo
     /\ f.pc = "write" /\ f.left < f.size /\ c.currChars = 0 => c.currEvents = 0
     /\ f.pc # "write" /\ spans # <<>> /\ c.currChars = 0 /\ c.currEvents > 0 => Empty(spans[Len(spans)])

(* With one, chunks that are ready are repeated by the one being built.    *)
Repeats(s) == HasChunks(filter[s].content) => filter[s].content.currChars > 0

(* All of a message is consumed at its end.                                *)
Ending(s) ==
  LET f == filter[s]
      size == Size(Message(s))
  IN Responds(s) =>
       /\ f.pc # "idle" /\ f.end => stream[s].arrived = size
       /\ f.pc = "collect" /\ f.end => Parts * Len(history[s].spans["response"]) = size
       /\ Flushed(s) => Consumed(s) = size \/ EmptyTail(s)
       /\ ~Flushed(s) => IF world.overlap = 0 THEN Regular(s) ELSE Repeats(s)

(* What the request left behind.  A handler runs for a message with a      *)
(* body.                                                                   *)
RequestDone(s) ==
  LET m == world.message[s]["request"]
  IN /\ filter[s].pc # "idle" => Message(s).contents # <<>>
     /\ stream[s].path = "response" =>
          /\ filter[s].body["request"] = 0 \/ m.trailers
          /\ stream[s].sent["request"] = Size(m) \/ m.trailers
          /\ stream[s].outcome = "open" /\ (Mode(s) = "whole" \/ Message(s).contents = <<>>) =>
               stream[s].sent["response"] = 0

(* Why a stream has ended.                                                 *)
Accounted(s) ==
  /\ stream[s].outcome = "panic" => history[s].spare > 0
  /\ stream[s].outcome \in {"refused", "closed"} =>
       \/ history[s].denied
       \/ \E d \in Paths : ~world.message[s][d].valid
       \/ world.message[s]["request"].trailers
  /\ stream[s].outcome = "complete" =>
       \A d \in Paths :
         LET m == world.message[s][d]
         IN \/ stream[s].sent[d] = Size(m)
            \/ m.trailers /\ (m.events => world.streaming)
            \/ m.events /\ EmptyTail(s)
  /\ filter[s].closed => history[s].denied
Due(s) == Accounted(s) /\ RequestDone(s) /\ Ending(s)

-----------------------------------------------------------------------------
(* Without an overlap, the chunks of a message are of one length.          *)
LEMMA AlignedMore ==
  ASSUME NEW k, k.max \in Nat, NEW n \in Nat, NEW m \in Nat, Aligned(k, n, m)
  PROVE  Aligned(k, n, m + k.max)
<1>1. PICK j \in Nat : m = n + j * k.max
  BY DEF Aligned
<1> DEFINE max == k.max
<1>2. max \in Nat /\ j * max \in Nat
  OBVIOUS
<1> HIDE DEF max
<1>3. (j + 1) * max = j * max + max
  BY <1>2
<1>4. m + max = n + (j + 1) * max
  BY <1>1, <1>2, <1>3 DEF max
<1> QED BY <1>4 DEF Aligned, max

(* A message begins at such a place itself.                                *)
LEMMA AlignedSelf ==
  ASSUME NEW k, k.max \in Nat, NEW n \in Nat
  PROVE  Aligned(k, n, n)
<1>1. n = n + 0 * k.max
  OBVIOUS
<1> QED BY <1>1 DEF Aligned

(* Their distance is a multiple of the length of a chunk.                  *)
LEMMA AlignedMod ==
  ASSUME NEW k, k.max \in Nat, k.max > 0, NEW n \in Nat, NEW m \in Nat, Aligned(k, n, m)
  PROVE  (m - n) % k.max = 0
<1>1. PICK j \in Nat : m = n + j * k.max
  BY DEF Aligned
<1> DEFINE max == k.max
           r == j * max
<1>2. r \in Nat /\ r % max = 0
  <2>1. max \in Nat /\ max > 0
    OBVIOUS
  <2> HIDE DEF max
  <2>2. j * max \in Nat
    BY <2>1
  <2>3. (j * max) % max = 0
    BY <2>1
  <2> QED BY <2>2, <2>3
<1> HIDE DEF r
<1>3. m - n = r
  <2>1. m = n + r
    BY <1>1 DEF r
  <2> QED BY <1>2, <2>1
<1> QED BY <1>2, <1>3

(* A character that completes a chunk leaves no event to the next one.     *)
LEMMA WriteCharRegular ==
  ASSUME NEW k, k.max \in Nat, k.max > 0, k.overlap = 0,
         NEW c \in Buffers, BufferOK(c, k), Overlapping(c, k),
         NEW lo \in Nat, Grid(k, lo, c)
  PROVE  LET d == WriteChar(c, k)
         IN /\ Grid(k, lo, d) /\ d.base + d.len = c.base + c.len + 1
            /\ d.currChars = 0 => d.currEvents = 0
<1> DEFINE d == WriteChar(c, k)
           m == More(c)
           old == Frontier(c)
<1>1. /\ c.base \in Nat /\ c.len \in Nat /\ c.currStart \in Nat /\ c.currChars \in Nat
      /\ c.currEvents \in Nat /\ c.overlapEvents \in Nat
  BY BufferFields
<1>2. /\ m \in Buffers
      /\ m.len = c.len + 1 /\ m.currChars = c.currChars + 1
      /\ m.base = c.base /\ m.currStart = c.currStart
      /\ m.boundaries = c.boundaries
      /\ m.currEvents = c.currEvents /\ m.overlapEvents = c.overlapEvents
  BY MoreFields
<1>3. d = IF m.currChars = k.max THEN startNewChunk(m, k, FALSE) ELSE m
  BY DEF WriteChar, More
<1>4. c.currChars < k.max /\ c.len = c.currStart + c.currChars
  BY DEF BufferOK
<1>5. c.overlapEvents = 0
  BY <1>1, <1>4 DEF Overlapping, inOverlap
<1>6. Aligned(k, lo, old) /\ lo <= old /\ (HasChunks(c) => lo < old) /\ old \in Nat /\ old = c.base + c.currStart
  BY <1>1 DEF Grid, Frontier
<1> HIDE DEF d, m, old
<1>7. CASE m.currChars = k.max
  <2>1. d = startNewChunk(m, k, FALSE)
    BY <1>3, <1>7
  <2>2. m.len = m.currStart + m.currChars /\ m.currChars > 0
    BY <1>1, <1>2, <1>4
  <2>3. /\ d.base = m.base /\ d.len = m.len
        /\ d.currEvents = m.overlapEvents
        /\ d.currStart = m.len - k.overlap /\ d.currChars = k.overlap
    <3>1. k.overlap \in Nat /\ k.overlap < k.max
      OBVIOUS
    <3> QED BY <1>2, <1>7, <2>1, <2>2, <3>1, NewChunkFields
  <2>4. Frontier(d) = old + k.max
    BY <1>1, <1>2, <1>6, <1>7, <2>2, <2>3 DEF Frontier
  <2>5. Aligned(k, lo, Frontier(d)) /\ lo < Frontier(d) /\ lo <= Frontier(d)
    <3>1. Aligned(k, lo, old + k.max)
      BY <1>6, AlignedMore
    <3> QED BY <1>6, <2>4, <3>1
  <2> QED BY <1>1, <1>2, <1>5, <2>3, <2>5 DEF Grid, d
<1>8. CASE m.currChars # k.max
  <2>1. d = m
    BY <1>3, <1>8
  <2>2. Frontier(d) = old /\ HasChunks(d) = HasChunks(c) /\ d.currChars # 0
    BY <1>1, <1>2, <1>6, <2>1 DEF Frontier, HasChunks
  <2>3. d.base + d.len = c.base + c.len + 1
    BY <1>1, <1>2, <2>1
  <2> QED BY <1>6, <2>2, <2>3 DEF Grid, d
<1> QED BY <1>7, <1>8

(* With one, it leaves the overlap.                                        *)
LEMMA WriteCharRepeats ==
  ASSUME NEW k, k.max \in Nat, k.overlap \in Nat, k.overlap < k.max, k.overlap # 0,
         NEW c \in Buffers, BufferOK(c, k)
  PROVE  WriteChar(c, k).currChars > 0
<1> DEFINE d == WriteChar(c, k)
           m == More(c)
<1>1. c.currStart \in Nat /\ c.currChars \in Nat /\ c.len = c.currStart + c.currChars
  BY BufferFields DEF BufferOK
<1>2. /\ m \in Buffers /\ m.len = c.len + 1 /\ m.currChars = c.currChars + 1
      /\ m.currStart = c.currStart
  BY MoreFields
<1>3. d = IF m.currChars = k.max THEN startNewChunk(m, k, FALSE) ELSE m
  BY DEF WriteChar, More
<1> HIDE DEF d, m
<1>4. CASE m.currChars = k.max
  <2>1. d = startNewChunk(m, k, FALSE)
    BY <1>3, <1>4
  <2>2. m.len = m.currStart + m.currChars /\ m.currChars > 0
    BY <1>1, <1>2
  <2>3. d.currChars = k.overlap
    BY <1>2, <1>4, <2>1, <2>2, NewChunkFields
  <2> QED BY <2>3 DEF d
<1>5. CASE m.currChars # k.max
  BY <1>1, <1>2, <1>3, <1>5 DEF d
<1> QED BY <1>4, <1>5

-----------------------------------------------------------------------------
(* Due is kept.  A stream that stays open has nothing to account for.      *)
LEMMA AccountedStays ==
  ASSUME NEW s \in Streams, stream'[s].outcome = "open", Accounted(s),
         filter'[s].closed = filter[s].closed, history'[s].denied = history[s].denied
  PROVE  Accounted(s)'
BY DEF Accounted

(* What the request left behind stays, or is forgotten.                    *)
LEMMA RequestDoneStays ==
  ASSUME NEW s \in Streams, RequestDone(s), stream[s].outcome = "open", world' = world,
         stream'[s].path = stream[s].path, stream'[s].sent = stream[s].sent,
         stream[s].path = "response" => filter'[s].body["request"] \in {filter[s].body["request"], 0},
         filter'[s].pc # "idle" => Message(s).contents # <<>>
  PROVE  RequestDone(s)'
<1>1. Message(s)' = Message(s) /\ Mode(s)' = Mode(s)
  BY SameStream
<1>2. Size(world.message[s]["request"])' = Size(world.message[s]["request"])
  OBVIOUS
<1> QED BY <1>1, <1>2 DEF RequestDone

(* Where nothing is written, the chunks stay as long as they were.         *)
LEMMA RegularStays ==
  ASSUME NEW s \in Streams, Regular(s), world' = world, history'[s].spans = history[s].spans,
         NEW c, c = filter[s].content, NEW e, filter'[s].content = e,
         Frontier(e) = Frontier(c), e.base + e.len = c.base + c.len,
         e.currChars = c.currChars, e.currEvents > 0 => c.currEvents > 0,
         HasChunks(e) => HasChunks(c),
         filter[s].pc # "write", filter'[s].pc # "write"
  PROVE  Regular(s)'
<1>1. Start(s, "response")' = Start(s, "response") /\ End(s)' = End(s)
  BY DEF Start, End
<1>2. Grid(world, Start(s, "response"), c) => Grid(world, Start(s, "response"), e)
  BY DEF Grid
<1> QED BY <1>1, <1>2 DEF Regular

(* Chunks that were repeated still are.                                    *)
LEMMA RepeatsStays ==
  ASSUME NEW s \in Streams, Repeats(s), filter'[s].content.currChars = filter[s].content.currChars,
         HasChunks(filter'[s].content) => HasChunks(filter[s].content)
  PROVE  Repeats(s)'
BY DEF Repeats

(* A handler that runs has been called for a message with a body, and      *)
(* knows whether it is the end.                                            *)
LEMMA RunningDue ==
  ASSUME IInv, NEW s \in Streams, Due(s), NEW pc, pc # "idle", At(s, pc),
         world' = world, stream'[s].path = stream[s].path, stream'[s].arrived = stream[s].arrived,
         filter'[s].end = filter[s].end
  PROVE  /\ Message(s).contents # <<>> /\ Size(Message(s))' = Size(Message(s))
         /\ Responds(s) /\ filter'[s].end => stream'[s].arrived = Size(Message(s))
         /\ Mode(s)' = Mode(s)
<1>1. filter[s].pc = pc
  BY DEF At
<1> QED BY <1>1, SameStream DEF Due, RequestDone, Ending

(* Extract.                                                                *)
LEMMA ExtractDue ==
  ASSUME IInv, NEW s \in Streams, Due(s), Extract(s)
  PROVE  Due(s)'
<1>1. /\ At(s, "extract") /\ world' = world /\ stream' = stream /\ SameBuffers(s) /\ SameHistory(s)
      /\ filter'[s].parser = filter[s].parser /\ filter'[s].pc = "write"
      /\ filter'[s].left = filter'[s].size /\ filter'[s].size \in Nat
  BY ExtractChanges
<1>2. /\ filter'[s].content = filter[s].content /\ filter'[s].closed = filter[s].closed
      /\ filter'[s].end = filter[s].end /\ filter'[s].body = filter[s].body
      /\ history'[s].spans = history[s].spans /\ history'[s].denied = history[s].denied
  BY <1>1 DEF SameBuffers, SameHistory
<1>3. stream[s].outcome = "open" /\ filter[s].pc = "extract" /\ ~Flushed(s) /\ ~Flushed(s)'
  BY <1>1 DEF At, Flushed
<1>4. /\ Message(s).contents # <<>> /\ Size(Message(s))' = Size(Message(s))
      /\ Responds(s) /\ filter'[s].end => stream'[s].arrived = Size(Message(s))
  BY <1>1, <1>2, RunningDue
<1>5. Accounted(s)' /\ RequestDone(s)'
  BY <1>1, <1>2, <1>3, <1>4, AccountedStays, RequestDoneStays DEF Due
<1>6. Responds(s)' => Responds(s)
  BY <1>1, <1>2, <1>3, RespondsBefore
<1>7. Regular(s) => Regular(s)'
  <2> SUFFICES ASSUME Regular(s)
               PROVE  Regular(s)'
    OBVIOUS
  <2>1. Start(s, "response")' = Start(s, "response") /\ End(s)' = End(s)
    BY <1>2 DEF Start, End
  <2>2. Start(s, "response") = End(s) => Start(s, "response") + filter'[s].size = End(s) + filter'[s].left
    BY <1>1
  <2>3. ~(filter'[s].left < filter'[s].size)
    BY <1>1
  <2> QED BY <1>1, <1>2, <1>3, <2>1, <2>2, <2>3 DEF Regular
<1>8. Repeats(s) => Repeats(s)'
  BY <1>2, RepeatsStays
<1>9. Ending(s)'
  BY <1>1, <1>3, <1>4, <1>6, <1>7, <1>8 DEF Due, Ending
<1> QED BY <1>5, <1>9 DEF Due

(* Parse: where it ends, all events have been found.                       *)
LEMMA ParseDue ==
  ASSUME IInv, NEW s \in Streams, Due(s), Parse(s)
  PROVE  Due(s)'
<1> DEFINE p == filter[s].parser
           spans == history[s].spans["response"]
<1>1. /\ At(s, "parse") /\ world' = world /\ stream' = stream /\ SameBuffers(s) /\ SameHistory(s)
      /\ filter'[s].pc \in {"extract", "idle", "collect"}
      /\ filter'[s].pc = "collect" => filter'[s].parser = p /\ ~Parsable(p)
  BY ParseChanges
<1>2. /\ filter'[s].content = filter[s].content /\ filter'[s].closed = filter[s].closed
      /\ filter'[s].end = filter[s].end /\ filter'[s].body = filter[s].body
      /\ history'[s].spans = history[s].spans /\ history'[s].denied = history[s].denied
  BY <1>1 DEF SameBuffers, SameHistory
<1>3. /\ Types /\ Good(s) /\ stream[s].outcome = "open" /\ filter[s].pc = "parse"
      /\ ~Flushed(s) /\ ~Flushed(s)'
  <2>1. ~Flushed(s) /\ ~Flushed(s)'
    BY <1>1 DEF At, Flushed
  <2> QED BY <1>1, <2>1, Running
<1>4. /\ Message(s).contents # <<>> /\ Size(Message(s))' = Size(Message(s))
      /\ Responds(s) /\ filter'[s].end => stream'[s].arrived = Size(Message(s))
  BY <1>1, <1>2, RunningDue
<1>5. Accounted(s)' /\ RequestDone(s)'
  BY <1>1, <1>2, <1>3, <1>4, AccountedStays, RequestDoneStays DEF Due
<1>6. Responds(s)' => Responds(s)
  BY <1>1, <1>2, <1>3, RespondsBefore
<1>7. Regular(s) => Regular(s)'
  BY <1>1, <1>2, <1>3, RegularStays
<1>8. Repeats(s) => Repeats(s)'
  BY <1>2, RepeatsStays
<1>9. Responds(s) /\ filter'[s].pc = "collect" /\ filter'[s].end => Parts * Len(spans) = Size(Message(s))
  <2> SUFFICES ASSUME Responds(s), filter'[s].pc = "collect", filter'[s].end
               PROVE  Parts * Len(spans) = Size(Message(s))
    OBVIOUS
  <2>1. ~Parsable(p) /\ p \in Parsers /\ ParserOK(p)
    BY <1>1, <1>3, FilterFields DEF Good, Parser
  <2>2. /\ p.base + p.len = stream[s].arrived
        /\ p.base + p.lastParseEnd = Parts * (Len(spans) + 0)
    BY <1>3 DEF Good, Streamed, Responds
  <2>3. stream[s].arrived = Parts * Len(Message(s).contents) /\ Len(Message(s).contents) \in Nat
    BY <1>1, <1>3, <1>4, MessageFields
  <2>4. Len(spans) \in Nat
    BY <1>3, ResponseNumbers
  <2> DEFINE a == Len(spans)
             b == Len(Message(s).contents)
  <2>5. /\ p.base \in Nat /\ p.len \in Nat /\ p.lastParseEnd \in Nat /\ p.lastParseEnd <= p.len
        /\ ~(p.lastParseEnd + Parts <= p.len)
    BY <2>1, ParserFields DEF ParserOK, Parsable
  <2>6. Parts * a = Parts * b
    <3> DEFINE base == p.base
               len == p.len
               last == p.lastParseEnd
    <3>1. a \in Nat /\ b \in Nat /\ base + last = Parts * (a + 0) /\ base + len = Parts * b
      BY <2>2, <2>3, <2>4
    <3>2. base \in Nat /\ len \in Nat /\ last \in Nat /\ last <= len /\ ~(last + Parts <= len)
      BY <2>5
    <3> HIDE DEF a, b, base, len, last
    <3> QED BY <3>1, <3>2 DEF Parts
  <2> QED BY <1>1, <1>4, <2>3, <2>6
<1>10. Ending(s)'
  BY <1>1, <1>2, <1>3, <1>4, <1>6, <1>7, <1>8, <1>9 DEF Due, Ending
<1> QED BY <1>5, <1>10 DEF Due

(* Char.                                                                   *)
LEMMA CharDue ==
  ASSUME IInv, NEW s \in Streams, Held(s), Due(s), Char(s)
  PROVE  Due(s)'
<1> DEFINE c == filter[s].content
           d == WriteChar(c, world)
           lo == Start(s, "response")
<1>1. /\ At(s, "write") /\ filter[s].left > 0
      /\ world' = world /\ stream' = stream /\ SameHistory(s)
      /\ filter'[s].content = d /\ filter'[s].left = filter[s].left - 1
      /\ filter'[s].size = filter[s].size
      /\ filter'[s].pc = "write" /\ filter'[s].body = filter[s].body
      /\ filter'[s].closed = filter[s].closed /\ filter'[s].end = filter[s].end
  BY CharChanges
<1>2. history'[s].denied = history[s].denied /\ history'[s].spans = history[s].spans
  BY <1>1 DEF SameHistory
<1>3. /\ Types /\ Good(s) /\ Active(s) /\ filter[s].pc = "write" /\ stream[s].outcome = "open"
      /\ c \in Buffers /\ BufferOK(c, world) /\ ~Flushed(s) /\ ~Flushed(s)'
      /\ Overlapping(c, world)
  <2>1. ~Flushed(s) /\ ~Flushed(s)'
    BY <1>1 DEF At, Flushed
  <2> QED BY <1>1, <2>1, Running DEF Held
<1>4. world.max \in Nat /\ world.max > 0 /\ world.overlap \in Nat /\ world.overlap < world.max
  BY <1>3, WorldFields
<1>5. /\ Message(s).contents # <<>> /\ Size(Message(s))' = Size(Message(s))
      /\ Responds(s) /\ filter'[s].end => stream'[s].arrived = Size(Message(s))
  BY <1>1, RunningDue
<1>6. Accounted(s)' /\ RequestDone(s)'
  BY <1>1, <1>2, <1>3, <1>5, AccountedStays, RequestDoneStays DEF Due
<1>7. Responds(s)' => Responds(s)
  BY <1>1, <1>3, RespondsBefore
<1>8. filter[s].left \in Nat /\ filter[s].size \in Nat /\ filter[s].left <= filter[s].size
  BY <1>3, FilterFields DEF Good, Where
<1>9. Regular(s) /\ world.overlap = 0 => Regular(s)'
  <2> SUFFICES ASSUME Regular(s), world.overlap = 0
               PROVE  Regular(s)'
    OBVIOUS
  <2>1. lo \in Nat /\ Start(s, "response")' = lo
    BY <1>2, <1>3, StartNat DEF Start
  <2>2. Grid(world, lo, c)
    BY DEF Regular
  <2>3. /\ Grid(world, lo, d) /\ d.base + d.len = c.base + c.len + 1
        /\ d.currChars = 0 => d.currEvents = 0
    BY <1>3, <1>4, <2>1, <2>2, WriteCharRegular
  <2> HIDE DEF d
  <2>4. End(s)' = End(s) + 1 /\ End(s) \in Nat
    BY <1>1, <1>3, <2>3, BufferFields DEF End
  <2>5. history[s].spans["response"] = <<>> => lo + filter'[s].size = End(s)' + filter'[s].left
    <3> DEFINE end == End(s)
               left == filter[s].left
               size == filter[s].size
    <3>1. history[s].spans["response"] = <<>> => lo + size = end + left
      BY <1>3 DEF Regular
    <3>2. left \in Nat /\ size \in Nat /\ end \in Nat /\ left > 0
      BY <1>1, <1>8, <2>4
    <3>3. filter'[s].left = left - 1 /\ filter'[s].size = size /\ End(s)' = end + 1
      BY <1>1, <2>4
    <3> HIDE DEF end, left, size, lo
    <3>4. lo + size = end + left => lo + size = (end + 1) + (left - 1)
      BY <2>1, <3>2 DEF lo
    <3> QED BY <3>1, <3>3, <3>4
  <2> QED BY <1>1, <1>2, <2>1, <2>3, <2>5 DEF Regular
<1>10. world.overlap # 0 => Repeats(s)'
  <2>1. world.overlap # 0 => d.currChars > 0
    BY <1>3, <1>4, WriteCharRepeats
  <2> QED BY <1>1, <2>1 DEF Repeats
<1> HIDE DEF d
<1>11. Ending(s)'
  BY <1>1, <1>3, <1>5, <1>7, <1>9, <1>10 DEF Due, Ending
<1> QED BY <1>6, <1>11 DEF Due

(* Counted: an event that ends where a chunk begins is counted for the     *)
(* next one only if it has no content.                                     *)
LEMMA CountedDue ==
  ASSUME IInv, NEW s \in Streams, Held(s), Due(s), Counted(s)
  PROVE  Due(s)'
<1> DEFINE c == filter[s].content
           size == filter[s].size
           d == CountEvent(c, world, size)
           lo == Start(s, "response")
           old == history[s].spans["response"]
           new == history'[s].spans["response"]
<1>1. /\ At(s, "write") /\ filter[s].left = 0
      /\ world' = world /\ stream' = stream
      /\ filter'[s].content = d
      /\ filter'[s].pc = (IF Mode(s) = "whole" THEN "collect" ELSE "parse")
      /\ filter'[s].body = filter[s].body
      /\ filter'[s].closed = filter[s].closed /\ filter'[s].end = filter[s].end
      /\ history'[s].denied = history[s].denied
      /\ stream[s].path = "response" =>
           new = WithOne(old, Span(s)) /\ history'[s].spans["request"] = history[s].spans["request"]
      /\ Span(s) \in Chars
  BY CountedChanges
<1>2. /\ Types /\ Good(s) /\ Active(s) /\ filter[s].pc = "write" /\ stream[s].outcome = "open"
      /\ c \in Buffers /\ BufferOK(c, world) /\ ~Flushed(s) /\ ~Flushed(s)'
      /\ Overlapping(c, world)
  <2>1. ~Flushed(s) /\ ~Flushed(s)'
    BY <1>1 DEF At, Flushed
  <2> QED BY <1>1, <2>1, Running DEF Held
<1>3. world.max \in Nat /\ world.overlap \in Nat /\ size \in Nat
  BY <1>2, WorldFields, FilterFields
<1>4. /\ d.base = c.base /\ d.len = c.len /\ d.currStart = c.currStart
      /\ d.currChars = c.currChars /\ d.boundaries = c.boundaries
  <2>1. size > 0 /\ c.currChars = 0 => HasChunks(c)
    BY <1>1, <1>2 DEF Good, Where
  <2> QED BY <1>2, <1>3, <2>1, CountEventOK
<1>5. size > 0 /\ world.overlap = 0 /\ c.currChars = 0 => d.currEvents = c.currEvents
  BY <1>2, <1>3, CountEventPends
<1> HIDE DEF d
<1>6. /\ Message(s).contents # <<>> /\ Size(Message(s))' = Size(Message(s))
      /\ Responds(s) /\ filter'[s].end => stream'[s].arrived = Size(Message(s))
      /\ Mode(s)' = Mode(s)
  BY <1>1, RunningDue
<1>7. Accounted(s)' /\ RequestDone(s)'
  BY <1>1, <1>2, <1>6, AccountedStays, RequestDoneStays DEF Due
<1>8. Responds(s)' => Responds(s) /\ filter'[s].pc = "parse"
  BY <1>1, <1>2, <1>6, RespondsBefore DEF Responds
<1>9. Responds(s) /\ Regular(s) /\ world.overlap = 0 => Regular(s)'
  <2> SUFFICES ASSUME Responds(s), Regular(s), world.overlap = 0
               PROVE  Regular(s)'
    OBVIOUS
  <2>1. stream[s].path = "response" /\ filter'[s].pc = "parse"
    BY <1>1 DEF Responds
  <2>2. old \in CharSeqs
    BY <1>2, ResponseNumbers
  <2>3. /\ new \in CharSeqs /\ Len(old) \in Nat /\ Len(new) = Len(old) + 1
        /\ new # <<>> /\ new[Len(new)] = Span(s)
        /\ new[1] = IF old = <<>> THEN Span(s) ELSE old[1]
    <3>1. old \in Seq(Chars)
      BY <2>2 DEF CharSeqs
    <3>2. new = Append(old, Span(s))
      BY <1>1, <2>1 DEF WithOne
    <3>3. /\ new \in Seq(Chars) /\ Len(old) \in Nat /\ Len(new) = Len(old) + 1
          /\ new[Len(new)] = Span(s) /\ \A i \in DOMAIN old : new[i] = old[i]
      <4> DEFINE seg == Span(s)
      <4>1. seg \in Chars /\ new = Append(old, seg)
        BY <1>1, <3>2
      <4> HIDE DEF old, seg, new
      <4>2. /\ new \in Seq(Chars) /\ Len(old) \in Nat /\ Len(new) = Len(old) + 1
            /\ new[Len(new)] = seg /\ \A i \in DOMAIN old : new[i] = old[i]
        BY <3>1, <4>1, Appended
      <4> QED BY <4>2 DEF seg
    <3>4. old # <<>> => 1 \in DOMAIN old
      BY <3>1
    <3>5. old = <<>> => Len(new) = 1
      BY <3>3
    <3>6. new # <<>>
      BY <3>3
    <3> QED BY <3>3, <3>4, <3>5, <3>6 DEF CharSeqs
  <2>4. lo \in Nat /\ Start(s, "response")' = lo
    BY <1>1, <1>2, <2>1, StartNat DEF Start
  <2>5. Grid(world, lo, d)
    <3>1. Grid(world, lo, c)
      BY DEF Regular
    <3> QED BY <1>4, <3>1 DEF Grid, Frontier, HasChunks
  <2>6. End(s) \in Nat /\ Span(s).from = End(s) - size /\ Span(s).to = End(s)
    BY <1>2, BufferFields DEF End, Span
  <2>7. new[1].from = lo
    <3>1. CASE old = <<>>
      <4>1. lo + size = End(s) + 0
        BY <1>1, <1>2, <3>1 DEF Regular
      <4> DEFINE end == End(s)
      <4>2. end \in Nat /\ lo + size = end + 0
        BY <2>6, <4>1
      <4> HIDE DEF end, size, lo
      <4>3. end - size = lo
        BY <1>3, <2>4, <4>2
      <4> QED BY <2>3, <2>6, <3>1, <4>3 DEF end
    <3>2. CASE old # <<>>
      BY <2>3, <3>2 DEF Regular
    <3> QED BY <3>1, <3>2
  <2>8. d.currChars = 0 /\ d.currEvents > 0 => Empty(new[Len(new)])
    <3>1. CASE size > 0
      <4>1. c.currChars = 0 => c.currEvents = 0
        BY <1>1, <1>2, <3>1 DEF Regular
      <4> QED BY <1>4, <1>5, <3>1, <4>1
    <3>2. CASE size = 0
      <4>1. Span(s).from = Span(s).to
        BY <2>6, <3>2
      <4> QED BY <2>3, <4>1 DEF Empty
    <3> QED BY <1>3, <3>1, <3>2
  <2> QED BY <1>1, <2>1, <2>3, <2>4, <2>5, <2>7, <2>8 DEF Regular
<1>10. Repeats(s) => Repeats(s)'
  BY <1>1, <1>4, RepeatsStays DEF HasChunks
<1>11. Ending(s)'
  BY <1>1, <1>2, <1>6, <1>8, <1>9, <1>10 DEF Due, Ending
<1> QED BY <1>7, <1>11 DEF Due

(* What ends the last chunk is all there is, or events without content     *)
(* that end where the next chunk would begin.                              *)
LEMMA TailIsEmpty ==
  ASSUME IInv, NEW s \in Streams, Held(s), Due(s), At(s, "collect"), Responds(s), filter[s].end,
         ~(Total(filter[s].content) <= CompletedEvents(Collected(s)))
  PROVE  EmptyTail(s)
<1> DEFINE c == filter[s].content
           d == Collected(s)
           spans == history[s].spans["response"]
           n == Len(spans)
           lo == Start(s, "response")
<1>1. /\ Types /\ Good(s) /\ Active(s) /\ filter[s].pc = "collect" /\ stream[s].outcome = "open"
      /\ c \in Buffers /\ BufferOK(c, world) /\ ~Flushed(s)
  <2>1. ~Flushed(s)
    BY DEF At, Flushed
  <2> QED BY <2>1, Running
<1>2. /\ c.base \in Nat /\ c.len \in Nat /\ c.currStart \in Nat /\ c.currChars \in Nat
      /\ c.completed \in Nat /\ c.currEvents \in Nat /\ c.overlapEvents \in Nat
      /\ world.max \in Nat /\ world.max > 0 /\ world.overlap \in Nat
  BY <1>1, BufferFields, WorldFields
<1>3. /\ HasChunks(d) \/ (d = c /\ c.overlapEvents = 0)
      /\ c.currChars # 0 => Total(c) <= CompletedEvents(d)
  BY CollectedHeld
<1>4. c.currChars = 0
  BY <1>3
<1>5. d = c
  BY <1>4 DEF Collected, Flush
<1>6. HasChunks(c)
  <2> SUFFICES ASSUME ~HasChunks(c)
               PROVE  FALSE
    OBVIOUS
  <2>1. c.overlapEvents = 0
    BY <1>3, <1>5
  <2>2. c.completed = 0
    BY <1>1 DEF BufferOK
  <2>3. CompletedEvents(c) = c.currEvents
    BY <1>4 DEF CompletedEvents, HasChunks
  <2>4. Total(c) = c.currEvents
    BY <1>2, <2>1, <2>2 DEF Total
  <2> QED BY <1>2, <1>5, <2>3, <2>4
<1>7. world.overlap = 0 /\ Regular(s)
  BY <1>1, <1>2, <1>4, <1>6 DEF Due, Ending, Repeats
<1>8. c.overlapEvents = 0
  <2>1. ~inOverlap(c, world)
    BY <1>2, <1>4, <1>7 DEF inOverlap
  <2> QED BY <1>2, <2>1 DEF Held, Overlapping
<1>9. c.currEvents > 0
  <2>1. CompletedEvents(c) = c.completed
    BY <1>6 DEF CompletedEvents, HasChunks
  <2>2. Total(c) = c.completed + c.currEvents
    BY <1>2, <1>8 DEF Total
  <2> QED BY <1>2, <1>5, <2>1, <2>2
<1>10. spans \in Seq(Chars) /\ spans # <<>> /\ n \in DOMAIN spans /\ n \in Nat
  <2>1. spans \in Seq(Chars)
    BY <1>1, ResponseNumbers DEF CharSeqs
  <2>2. Message(s).contents # <<>> /\ Parts * n = Size(Message(s))
    BY <1>1 DEF Due, RequestDone, Ending
  <2>3. Message(s).contents \in Seq(Nat) /\ Size(Message(s)) = Parts * Len(Message(s).contents)
    BY <1>1, MessageFields
  <2> DEFINE k == Len(Message(s).contents)
  <2>4. k \in Nat /\ k # 0
    BY <2>2, <2>3
  <2>5. n # 0
    <3>1. n \in Nat /\ Parts * n = Parts * k
      BY <2>1, <2>2, <2>3
    <3> HIDE DEF n, k
    <3> QED BY <2>4, <3>1 DEF Parts
  <2>6. DOMAIN spans = 1 .. n /\ n \in Nat
    BY <2>1
  <2> QED BY <2>1, <2>5, <2>6
<1>11. spans[n].from = spans[n].to /\ spans[1].from = lo /\ Grid(world, lo, c)
  BY <1>1, <1>4, <1>7, <1>9, <1>10 DEF Regular, Empty
<1>12. lo \in Nat /\ spans[n].to \in Nat /\ Frontier(c) \in Nat
  <2>1. spans[n] \in Chars
    BY <1>10
  <2>2. lo \in Nat
    BY <1>1, StartNat
  <2>3. spans[n].to \in Nat
    BY <2>1 DEF Chars
  <2>4. Frontier(c) \in Nat
    BY <1>2 DEF Frontier
  <2> QED BY <2>2, <2>3, <2>4
<1>13. spans[n].to = Frontier(c)
  <2>1. Pending(c, world, spans)
    BY <1>1 DEF Held
  <2>2. n < n + c.currEvents + c.overlapEvents
    BY <1>2, <1>9, <1>10
  <2>3. Frontier(c) <= spans[n].to
    BY <1>10, <2>1, <2>2 DEF Pending
  <2>4. spans[n].to <= End(s)
    BY <1>1, <1>10 DEF Good, Spans, Paths
  <2>5. End(s) = Frontier(c)
    BY <1>1, <1>2, <1>4 DEF BufferOK, End, Frontier
  <2> QED BY <1>12, <2>3, <2>4, <2>5
<1>14. lo < Frontier(c) /\ (Frontier(c) - lo) % world.max = 0
  BY <1>2, <1>6, <1>11, <1>12, AlignedMod DEF Grid
<1> QED BY <1>7, <1>11, <1>12, <1>13, <1>14 DEF EmptyTail

(* Only a count that the request left behind lets Consume panic.           *)
LEMMA PanicIsSpare ==
  ASSUME IInv, NEW s \in Streams, Held(s), At(s, "collect"), ~Consumable(filter[s].parser, Count(s))
  PROVE  history[s].spare > 0
<1> SUFFICES ASSUME history[s].spare = 0
             PROVE  FALSE
  BY HistoryFields DEF IInv
<1> DEFINE p == filter[s].parser
           c == filter[s].content
           n == Len(history[s].spans["response"])
<1>1. /\ Types /\ Good(s) /\ Active(s) /\ filter[s].pc = "collect" /\ ~Flushed(s)
      /\ p \in Parsers /\ ParserOK(p)
  <2>1. ~Flushed(s)
    BY DEF At, Flushed
  <2>2. Types /\ Good(s) /\ Active(s) /\ filter[s].pc = "collect"
    BY Running
  <2> QED BY <2>1, <2>2, FilterFields DEF Good, Parser
<1>2. /\ Count(s) # 0 /\ p.boundaries = <<>> /\ Mode(s) # "whole"
      /\ Count(s) = CompletedEvents(Collected(s))
  BY DEF Consumable, Count
<1>3. stream[s].path = "response"
  BY <1>1, <1>2, EventsRespond
<1>4. /\ p.base + p.lastParseEnd = Parts * (n + 0)
      /\ Counts(s)
  BY <1>1, <1>2, <1>3 DEF Good, Streamed
<1>5. p.lastParseEnd = p.parsedOffset + Parts * 0
  <2>1. Len(<<>>) = 0
    OBVIOUS
  <2> QED BY <1>1, <1>2, <2>1 DEF ParserOK
<1>6. Consumed(s) + Parts * Total(c) = Parts * n
  BY <1>4 DEF Counts, Total
<1>7. CompletedEvents(Collected(s)) \in Nat /\ CompletedEvents(Collected(s)) <= Total(c)
  BY CollectedHeld
<1> DEFINE base == p.base
           last == p.lastParseEnd
           off == p.parsedOffset
           t == Total(c)
           m == CompletedEvents(Collected(s))
<1>8. /\ base \in Nat /\ last \in Nat /\ off \in Nat /\ t \in Nat /\ n \in Nat
      /\ base + last = Parts * (n + 0) /\ last = off + Parts * 0
      /\ (base + off) + Parts * t = Parts * n /\ m \in Nat /\ m <= t /\ m # 0
  BY <1>1, <1>2, <1>4, <1>5, <1>6, <1>7, ParserFields, ResponseNumbers DEF Consumed
<1> HIDE DEF base, last, off, t, m, n
<1> QED BY <1>8 DEF Parts

(* Collect.                                                                *)
LEMMA CollectDue ==
  ASSUME IInv, NEW s \in Streams, Held(s), Due(s), Collect(s)
  PROVE  Due(s)'
<1> DEFINE c == filter[s].content
           d == Collected(s)
           e == Retrieved(d)
           n == Len(history[s].spans["response"])
<1>1. /\ At(s, "collect") /\ world' = world /\ SameHistory(s)
      /\ stream'[s].path = stream[s].path /\ stream'[s].sent = stream[s].sent
      /\ stream'[s].arrived = stream[s].arrived
  BY CollectChanges
<1>2. /\ history'[s].spans = history[s].spans /\ history'[s].denied = history[s].denied
      /\ history'[s].spare = history[s].spare
      /\ stream[s].outcome = "open" /\ filter[s].pc = "collect" /\ ~Flushed(s)
  BY <1>1 DEF SameHistory, At, Flushed
<1>3. CASE /\ ~Consumable(filter[s].parser, Count(s))
           /\ stream'[s].outcome = "panic" /\ filter' = filter
  <2>1. history[s].spare > 0
    BY <1>1, <1>3, PanicIsSpare
  <2>2. Accounted(s)'
    BY <1>2, <1>3, <2>1 DEF Due, Accounted
  <2>3. Message(s).contents # <<>>
    BY <1>2 DEF Due, RequestDone
  <2>4. RequestDone(s)'
    BY <1>1, <1>2, <1>3, <2>3, RequestDoneStays DEF Due
  <2>5. Ending(s)'
    BY <1>3 DEF Ending, Responds, Active
  <2> QED BY <2>2, <2>4, <2>5 DEF Due
<1>4. CASE /\ Consumable(filter[s].parser, Count(s))
           /\ stream'[s].outcome = "open"
           /\ filter'[s].content = e
           /\ filter'[s].parser = Consume(filter[s].parser, Count(s))
           /\ filter'[s].pc \in {"release", "moderate"}
           /\ filter'[s].body = filter[s].body
           /\ filter'[s].closed = filter[s].closed /\ filter'[s].end = filter[s].end
  <2>1. /\ Message(s).contents # <<>> /\ Size(Message(s))' = Size(Message(s))
        /\ Responds(s) /\ filter'[s].end => stream'[s].arrived = Size(Message(s))
    BY <1>1, <1>4, RunningDue
  <2>2. Accounted(s)' /\ RequestDone(s)'
    BY <1>1, <1>2, <1>4, <2>1, AccountedStays, RequestDoneStays DEF Due
  <2>3. Responds(s)' => Responds(s)
    BY <1>1, <1>2, <1>4, RespondsBefore
  <2>4. /\ d \in Buffers /\ BufferOK(d, world) /\ Total(c) \in Nat
        /\ ~filter[s].end => d = c
    BY <1>1, CollectedHeld
  <2>5. world.max \in Nat
    BY <1>1, WorldFields DEF IInv
  <2>6. /\ ~HasChunks(e) /\ e.base + e.len = d.base + d.len /\ e.base + e.currStart = d.base + d.currStart
        /\ e.currChars = d.currChars
    BY <2>4, <2>5, RetrievedOK
  <2>7. e.currEvents > 0 => d.currEvents > 0
    <3>1. Overlapping(d, world)
      BY <1>1, CollectedHeld
    <3>2. e.currEvents \in Nat /\ e.currEvents <= d.currEvents /\ d.currEvents \in Nat
      BY <2>4, <3>1, RetrievedPends, BufferFields
    <3> HIDE DEF d, e
    <3> QED BY <3>2
  <2>8. ~filter[s].end /\ Regular(s) => Regular(s)'
    <3> SUFFICES ASSUME ~filter[s].end, Regular(s)
                 PROVE  Regular(s)'
      OBVIOUS
    <3>1. d = c
      BY <2>4
    <3> HIDE DEF d, e
    <3>2. Frontier(e) = Frontier(c)
      BY <2>6, <3>1 DEF Frontier
    <3> QED BY <1>1, <1>2, <1>4, <2>6, <2>7, <3>1, <3>2, RegularStays
  <2>9. Repeats(s)'
    BY <1>4, <2>6 DEF Repeats
  <2>10. EmptyTail(s)' = EmptyTail(s)
    BY <1>1, <1>2 DEF EmptyTail
  <2>11. Responds(s) /\ filter[s].end => Consumed(s)' = Size(Message(s)) \/ EmptyTail(s)
    <3> SUFFICES ASSUME Responds(s), filter[s].end, ~EmptyTail(s)
                 PROVE  Consumed(s)' = Size(Message(s))
      OBVIOUS
    <3>1. Total(c) <= 0 + CompletedEvents(d)
      <4>1. Total(c) <= CompletedEvents(d)
        BY <1>1, TailIsEmpty
      <4>2. CompletedEvents(d) \in Nat
        BY <1>1, CollectedHeld
      <4> HIDE DEF d, c
      <4> QED BY <4>1, <4>2
    <3>2. /\ ~(Consumed(s)' + Parts * 0 < Parts * n)
          /\ Consumed(s)' <= Parts * n /\ Consumed(s)' \in Nat
      BY <1>4, <3>1, CollectConsumes
    <3>3. n \in Nat
      BY <1>1, ResponseNumbers DEF IInv
    <3>4. Parts * n = Size(Message(s))
      BY <1>2 DEF Due, Ending
    <3> DEFINE x == Consumed(s)'
    <3>5. x = Parts * n
      <4>1. ~(x + Parts * 0 < Parts * n) /\ x <= Parts * n /\ x \in Nat
        BY <3>2
      <4> HIDE DEF x, n
      <4> QED BY <3>3, <4>1 DEF Parts
    <3> QED BY <3>4, <3>5
  <2>12. Flushed(s)' => filter[s].end
    BY <1>4 DEF Flushed
  <2>13. ~Flushed(s)' => ~filter[s].end
    BY <1>4 DEF Flushed
  <2> HIDE DEF e
  <2>14. Ending(s)'
    BY <1>1, <1>2, <1>4, <2>1, <2>3, <2>8, <2>9, <2>10, <2>11, <2>12, <2>13 DEF Due, Ending
  <2> QED BY <2>2, <2>14 DEF Due
<1> QED BY <1>3, <1>4, CollectChanges

(* Moderate.                                                               *)
LEMMA ModerateDue ==
  ASSUME IInv, NEW s \in Streams, Due(s), Moderate(s)
  PROVE  Due(s)'
<1>1. /\ At(s, "moderate") /\ world' = world
      /\ history'[s].spans = history[s].spans
      /\ stream'[s].path = stream[s].path /\ stream'[s].sent = stream[s].sent
      /\ stream'[s].arrived = stream[s].arrived
      /\ filter'[s].content = filter[s].content /\ filter'[s].body = filter[s].body
      /\ filter'[s].parser = filter[s].parser /\ filter'[s].end = filter[s].end
  BY ModerateChanges
<1>2. /\ stream[s].outcome = "open" /\ filter[s].pc = "moderate" /\ Active(s) /\ ~filter[s].closed
  BY <1>1, Running DEF Active
<1>3. /\ Message(s).contents # <<>> /\ Size(Message(s))' = Size(Message(s))
      /\ Responds(s) /\ filter'[s].end => stream'[s].arrived = Size(Message(s))
  BY <1>1, RunningDue
<1>4. RequestDone(s)'
  BY <1>1, <1>2, <1>3, RequestDoneStays DEF Due
<1>5. CASE stream' = stream /\ filter'[s].pc = "release" /\ filter'[s].closed = filter[s].closed
  <2>1. Accounted(s)'
    BY <1>2, <1>5 DEF Accounted
  <2>2. Responds(s)' => Responds(s)
    BY <1>1, <1>2, <1>5, RespondsBefore
  <2>3. Flushed(s)' = Flushed(s) /\ Consumed(s)' = Consumed(s) /\ EmptyTail(s)' = EmptyTail(s)
    BY <1>1, <1>2, <1>5 DEF Flushed, Consumed, EmptyTail
  <2>4. Regular(s) => Regular(s)'
    BY <1>1, <1>2, <1>5, RegularStays
  <2>5. Repeats(s) => Repeats(s)'
    BY <1>1, RepeatsStays
  <2>6. Ending(s)'
    BY <1>1, <1>3, <1>5, <2>2, <2>3, <2>4, <2>5 DEF Due, Ending
  <2> QED BY <1>4, <2>1, <2>6 DEF Due
<1>6. CASE stream'[s].outcome = "refused" /\ filter' = filter /\ history'[s].denied = TRUE
  <2>1. Accounted(s)' /\ Ending(s)'
    BY <1>6 DEF Accounted, Ending, Responds, Active
  <2> QED BY <1>4, <2>1 DEF Due
<1>7. CASE /\ stream'[s].outcome \in {"open", "closed"} /\ filter'[s].closed = TRUE
           /\ history'[s].denied = TRUE
  <2>1. Accounted(s)' /\ Ending(s)'
    BY <1>7 DEF Accounted, Ending, Responds, Active
  <2> QED BY <1>4, <2>1 DEF Due
<1> QED BY <1>5, <1>6, <1>7, ModerateChanges

(* A response begins where the request has ended.                          *)
LEMMA ResponseBegins ==
  ASSUME IInv, NEW s \in Streams, stream[s].path = "request", world' = world,
         Start(s, "response") = End(s), filter[s].content.currChars = 0, ~HasChunks(filter[s].content),
         filter'[s].content = filter[s].content, filter'[s].pc = "idle",
         history'[s].spans = history[s].spans
  PROVE  Ending(s)'
<1> DEFINE c == filter[s].content
           lo == Start(s, "response")
<1>1. /\ Types /\ history[s].spans["response"] = <<>> /\ c \in Buffers /\ c.len = c.currStart + c.currChars
  BY FilterFields DEF IInv, Good, Request, Content, BufferOK
<1>2. End(s) = Frontier(c) /\ Frontier(c) \in Nat
  BY <1>1, BufferFields DEF End, Frontier
<1>3. Start(s, "response")' = lo /\ End(s)' = End(s)
  BY DEF Start, End
<1>4. Grid(world, lo, c)
  <2>1. world.max \in Nat
    BY <1>1, WorldFields
  <2> QED BY <1>2, <2>1, AlignedSelf DEF Grid
<1>5. Regular(s)' /\ Repeats(s)' /\ ~Flushed(s)'
  BY <1>1, <1>3, <1>4 DEF Regular, Repeats, Flushed
<1> QED BY <1>5 DEF Ending

(* The request of a stream that is complete has left.                      *)
LEMMA RequestLeft ==
  ASSUME IInv, NEW s \in Streams, Due(s), stream[s].path = "response"
  PROVE  LET m == world.message[s]["request"]
         IN stream[s].sent["request"] = Size(m) \/ (m.trailers /\ (m.events => world.streaming))
<1>1. world.message[s]["request"].events => "request" = "response"
  BY WorldsAssumption DEF IInv, Types, Paths
<1> QED BY <1>1 DEF Due, RequestDone

(* A stream is complete once both messages have left.                      *)
LEMMA CompleteAccounted ==
  ASSUME IInv, NEW s \in Streams, Due(s), stream[s].path = "response", world' = world,
         stream'[s].outcome = "complete", stream'[s].sent["request"] = stream[s].sent["request"],
         filter'[s].closed = filter[s].closed, history'[s].denied = history[s].denied,
         history'[s].spans = history[s].spans,
         \/ stream'[s].sent["response"] = Size(Message(s))
         \/ Message(s).trailers /\ (Message(s).events => world.streaming)
         \/ Message(s).events /\ EmptyTail(s)
  PROVE  Accounted(s)'
<1>1. Message(s) = world.message[s]["response"]
  BY DEF Message
<1>2. EmptyTail(s)' = EmptyTail(s)
  BY DEF EmptyTail
<1>3. LET m == world.message[s]["request"]
      IN stream[s].sent["request"] = Size(m) \/ (m.trailers /\ (m.events => world.streaming))
  BY RequestLeft
<1> QED BY <1>1, <1>2, <1>3 DEF Accounted, Due, Paths

(* Release.                                                                *)
LEMMA ReleaseDue ==
  ASSUME IInv, NEW s \in Streams, Due(s), Release(s)
  PROVE  Due(s)'
<1> DEFINE c == filter[s].content
<1>1. /\ At(s, "release") /\ world' = world /\ Turns(s, filter[s].end)
      /\ stream'[s].sent[stream[s].path] = Released(s)
      /\ \A e \in Paths \ {stream[s].path} : stream'[s].sent[e] = stream[s].sent[e]
      /\ filter'[s].content = filter[s].content
      /\ filter'[s].closed = filter[s].closed
      /\ filter'[s].body = NoBody /\ filter'[s].pc = "idle"
      /\ history'[s].spans = history[s].spans
      /\ history'[s].denied = history[s].denied
  BY ReleaseChanges
<1>2. /\ Types /\ Good(s) /\ Active(s) /\ stream[s].outcome = "open" /\ filter[s].pc = "release"
      /\ Message(s).contents # <<>>
  <2>1. Types /\ Good(s) /\ Active(s) /\ stream[s].outcome = "open" /\ filter[s].pc = "release"
    BY <1>1, Running
  <2> QED BY <2>1 DEF Due, RequestDone
<1>3. stream[s].path \in {"request", "response"} /\ filter[s].end \in BOOLEAN
  BY <1>2, StreamFields, FilterFields DEF Paths
<1>4. filter'[s].body["request"] = 0
  BY <1>1 DEF NoBody, Paths
<1>5. /\ ~HasChunks(c) /\ (filter[s].end => c.currChars = 0) /\ (Mode(s) # "stream" => filter[s].end)
  BY <1>2 DEF Good, Where
<1>6. CASE stream[s].path = "request"
  <2>1. Mode(s) = "whole" /\ filter[s].end
    BY <1>2, <1>5, <1>6, MessageFields
  <2>2. stream'[s].path = "response" /\ stream'[s].outcome = "open"
    BY <1>1, <1>6, <2>1 DEF Turns
  <2>3. Accounted(s)'
    BY <1>1, <2>2, AccountedStays DEF Due
  <2>4. Released(s) = Size(world.message[s]["request"])
    BY <1>2, <1>6, <2>1 DEF Good, Whole, Message
  <2>5. stream[s].sent["response"] = 0
    BY <1>2, <1>6 DEF Good, Request, Paths
  <2>6. Size(world.message[s]["request"])' = Size(world.message[s]["request"])
    BY <1>1
  <2>7. stream'[s].sent["request"] = Released(s) /\ stream'[s].sent["response"] = 0
    BY <1>1, <1>6, <2>5 DEF Paths
  <2>8. RequestDone(s)'
    BY <1>1, <1>4, <2>2, <2>4, <2>6, <2>7 DEF RequestDone
  <2>9. Start(s, "response") = End(s)
    <3>1. Len(history[s].spans["request"]) = 1 /\ history[s].spans["request"][1].to = End(s)
      BY <1>2, <1>6, <2>1 DEF Good, Whole
    <3>2. Len(<<>>) = 0
      OBVIOUS
    <3>3. history[s].spans["request"] # <<>>
      BY <3>1, <3>2
    <3> QED BY <3>1, <3>3 DEF Start
  <2>10. Ending(s)'
    BY <1>1, <1>5, <1>6, <2>1, <2>9, ResponseBegins
  <2> QED BY <2>3, <2>8, <2>10 DEF Due
<1>7. CASE stream[s].path = "response" /\ filter[s].end
  <2>1. stream'[s].path = "response" /\ stream'[s].outcome = "complete"
    BY <1>1, <1>7 DEF Turns
  <2>2. stream'[s].sent["request"] = stream[s].sent["request"] /\ stream'[s].sent["response"] = Released(s)
    BY <1>1, <1>7 DEF Paths
  <2>3. Released(s) = Size(Message(s)) \/ (Message(s).events /\ EmptyTail(s))
    <3>1. CASE Mode(s) = "whole"
      BY <1>2, <1>7, <3>1 DEF Good, Whole
    <3>2. CASE Mode(s) # "whole"
      <4>1. Responds(s) /\ Flushed(s)
        BY <1>2, <1>7, <3>2 DEF Responds, Flushed
      <4>2. Consumed(s) = Size(Message(s)) \/ EmptyTail(s)
        BY <4>1 DEF Due, Ending
      <4>3. Message(s).events /\ Released(s) = Consumed(s)
        BY <1>2, <3>2, MessageFields DEF Released, Consumed
      <4> QED BY <4>2, <4>3
    <3> QED BY <3>1, <3>2
  <2>4. Accounted(s)'
    BY <1>1, <1>7, <2>1, <2>2, <2>3, CompleteAccounted
  <2>5. RequestDone(s)'
    <3>1. Size(world.message[s]["request"])' = Size(world.message[s]["request"])
      BY <1>1
    <3>2. stream[s].sent["request"] = Size(world.message[s]["request"]) \/ world.message[s]["request"].trailers
      BY <1>7 DEF Due, RequestDone
    <3> QED BY <1>1, <1>4, <2>1, <2>2, <3>1, <3>2 DEF RequestDone
  <2>6. Ending(s)'
    BY <2>1 DEF Ending, Responds, Active
  <2> QED BY <2>4, <2>5, <2>6 DEF Due
<1>8. CASE stream[s].path = "response" /\ ~filter[s].end
  <2>1. /\ stream'[s].path = stream[s].path /\ stream'[s].outcome = "open"
        /\ stream'[s].arrived = stream[s].arrived
    BY <1>1, <1>8 DEF Turns
  <2>2. Accounted(s)'
    BY <1>1, <2>1, AccountedStays DEF Due
  <2>3. Message(s)' = Message(s) /\ Mode(s)' = Mode(s) /\ Mode(s) # "whole"
    BY <1>1, <1>5, <1>8, <2>1, SameStream
  <2>4. RequestDone(s)'
    <3>1. Size(world.message[s]["request"])' = Size(world.message[s]["request"])
      BY <1>1
    <3>2. stream[s].sent["request"] = Size(world.message[s]["request"]) \/ world.message[s]["request"].trailers
      BY <1>8 DEF Due, RequestDone
    <3>3. stream'[s].sent["request"] = stream[s].sent["request"]
      BY <1>1, <1>8 DEF Paths
    <3> QED BY <1>1, <1>2, <1>4, <2>3, <3>1, <3>2, <3>3 DEF RequestDone
  <2>5. Responds(s)' => Responds(s)
    BY <1>1, <1>2, <2>1, RespondsBefore
  <2>6. ~Flushed(s) /\ ~Flushed(s)'
    BY <1>1, <1>8 DEF Flushed
  <2>7. Regular(s) => Regular(s)'
    BY <1>1, <1>2, RegularStays
  <2>8. Repeats(s) => Repeats(s)'
    BY <1>1, RepeatsStays
  <2>9. Ending(s)'
    BY <1>1, <2>5, <2>6, <2>7, <2>8 DEF Due, Ending
  <2> QED BY <2>2, <2>4, <2>9 DEF Due
<1> QED BY <1>3, <1>6, <1>7, <1>8

(* ReceiveEnd.                                                             *)
LEMMA ReceiveEndDue ==
  ASSUME IInv, NEW s \in Streams, Due(s), ReceiveEnd(s)
  PROVE  Due(s)'
<1> DEFINE m == Message(s)
<1>1. /\ At(s, "idle") /\ world' = world /\ filter' = filter /\ history' = history
      /\ Turns(s, TRUE) /\ stream'[s].sent = stream[s].sent
  BY ReceiveEndChanges
<1>2. /\ Types /\ Good(s) /\ stream[s].outcome = "open" /\ filter[s].pc = "idle"
      /\ stream[s].path \in {"request", "response"}
  <2>1. Types /\ Good(s)
    BY DEF IInv
  <2> QED BY <1>1, <2>1, StreamFields DEF At, Paths
<1>3. /\ m.contents = <<>> \/ (m.trailers /\ Mode(s) # "wait")
      /\ Rest(s) = 0
  BY DEF ReceiveEnd
<1>4. m.contents = <<>> => Size(m) = 0
  <2>1. Len(<<>>) = 0
    OBVIOUS
  <2>2. m.contents = <<>> => Size(m) = Parts * 0
    BY <2>1 DEF Size
  <2> QED BY <2>2 DEF Parts
<1>5. CASE stream[s].path = "request"
  <2>1. /\ stream'[s].path = "response" /\ stream'[s].outcome = "open"
        /\ m = world.message[s]["request"] /\ Mode(s) = "whole"
    BY <1>1, <1>2, <1>5, MessageFields DEF Turns, Message
  <2>2. Accounted(s)'
    BY <1>1, <2>1, AccountedStays DEF Due
  <2>3. filter[s].body["request"] = 0 \/ m.trailers
    <3>1. filter[s].body["request"] = stream[s].arrived
      BY <1>2, <1>5, <2>1 DEF Good, Whole
    <3>2. stream[s].arrived \in Nat /\ stream[s].arrived <= Size(m)
      BY <1>2, StreamFields DEF Good, Arrived
    <3>3. Size(m) = 0 => stream[s].arrived = 0
      BY <3>2
    <3> QED BY <1>3, <1>4, <3>1, <3>3
  <2>4. stream[s].sent["request"] = 0 /\ stream[s].sent["response"] = 0
    BY <1>2, <1>5 DEF Good, Request, Paths
  <2>5. RequestDone(s)'
    <3>1. Size(world.message[s]["request"])' = Size(world.message[s]["request"])
      BY <1>1
    <3>2. stream[s].sent["request"] = Size(m) \/ m.trailers
      BY <1>3, <1>4, <2>4
    <3> HIDE DEF m
    <3> QED BY <1>1, <1>2, <2>1, <2>3, <2>4, <3>1, <3>2 DEF RequestDone
  <2>6. filter[s].content = NewContentBuffer /\ history[s].spans["request"] = <<>>
    BY <1>2, <1>5, <2>1 DEF Good, Request, Whole
  <2>7. Start(s, "response") = End(s) /\ filter[s].content.currChars = 0 /\ ~HasChunks(filter[s].content)
    BY <2>6 DEF Start, End, HasChunks, NewContentBuffer
  <2>8. Ending(s)'
    BY <1>1, <1>2, <1>5, <2>7, ResponseBegins
  <2> QED BY <2>2, <2>5, <2>8 DEF Due
<1>6. CASE stream[s].path = "response"
  <2>1. stream'[s].path = "response" /\ stream'[s].outcome = "complete"
    BY <1>1, <1>6 DEF Turns
  <2>2. \/ stream'[s].sent["response"] = Size(Message(s))
        \/ Message(s).trailers /\ (Message(s).events => world.streaming)
    <3>1. CASE m.contents = <<>>
      <4>1. stream[s].sent["response"] = 0
        BY <1>2, <1>6, <3>1 DEF Due, RequestDone
      <4> QED BY <1>1, <1>4, <3>1, <4>1
    <3>2. CASE m.trailers /\ Mode(s) # "wait"
      <4>1. m.events => world.streaming
        BY <1>2, <3>2, MessageFields, WorldFields DEF Mode
      <4> QED BY <3>2, <4>1
    <3> QED BY <1>3, <3>1, <3>2
  <2>3. Accounted(s)'
    BY <1>1, <1>6, <2>1, <2>2, CompleteAccounted
  <2>4. RequestDone(s)'
    <3>1. Size(world.message[s]["request"])' = Size(world.message[s]["request"])
      BY <1>1
    <3> QED BY <1>1, <1>2, <1>6, <2>1, <3>1 DEF Due, RequestDone
  <2>5. Ending(s)'
    BY <2>1 DEF Ending, Responds, Active
  <2> QED BY <2>3, <2>4, <2>5 DEF Due
<1> QED BY <1>2, <1>5, <1>6

(* A document is refused if it is not JSON, or after a request that ended  *)
(* with trailers.                                                          *)
LEMMA DocumentDue ==
  ASSUME IInv, NEW s \in Streams, Due(s), At(s, "idle"), world' = world, history' = history,
         Message(s).contents # <<>>, Mode(s) = "whole",
         NEW n \in 0 .. Rest(s), NEW end \in BOOLEAN, dataHandler(s, n, end)
  PROVE  Due(s)'
<1> DEFINE path == stream[s].path
<1>1. /\ stream'[s].path = stream[s].path /\ stream'[s].sent = stream[s].sent
      /\ filter'[s].closed = filter[s].closed
      /\ \A e \in Paths \ {stream[s].path} : filter'[s].body[e] = filter[s].body[e]
      /\ stream'[s].outcome \in {"open", "refused"}
      /\ stream'[s].outcome = "refused" =>
           \/ ~Message(s).valid
           \/ \E e \in Paths \ {stream[s].path} : filter[s].body[e] # 0
  BY DocumentChanges
<1>2. stream[s].outcome = "open" /\ path \in {"request", "response"} /\ Good(s)
  BY StreamFields DEF At, IInv, Paths
<1>3. stream'[s].outcome = "refused" =>
        (\E d \in Paths : ~world.message[s][d].valid) \/ world.message[s]["request"].trailers
  <2>1. CASE ~Message(s).valid
    BY <1>2, <2>1 DEF Message, Paths
  <2>2. CASE \E e \in Paths \ {path} : filter[s].body[e] # 0
    <3>1. PICK e \in Paths \ {path} : filter[s].body[e] # 0
      BY <2>2
    <3>2. path # "request"
      BY <1>2, <3>1 DEF Good, Request, Paths
    <3>3. e = "request" /\ path = "response"
      BY <1>2, <3>1, <3>2 DEF Paths
    <3> QED BY <3>1, <3>3 DEF Due, RequestDone
  <2> QED BY <1>1, <2>1, <2>2
<1>4. Accounted(s)'
  BY <1>1, <1>3 DEF Due, Accounted
<1>5. path = "response" => filter'[s].body["request"] = filter[s].body["request"]
  BY <1>1 DEF Paths
<1>6. RequestDone(s)'
  BY <1>1, <1>2, <1>5, RequestDoneStays DEF Due
<1>7. Ending(s)'
  <2>1. Mode(s)' = "whole"
    BY <1>1, SameStream
  <2> QED BY <2>1 DEF Ending, Responds
<1> QED BY <1>4, <1>6, <1>7 DEF Due

(* Events are refused if the stream is closed.                             *)
LEMMA EventsDue ==
  ASSUME IInv, NEW s \in Streams, Due(s), At(s, "idle"), world' = world, history' = history,
         Message(s).contents # <<>>, Mode(s) # "whole",
         NEW n \in 0 .. Rest(s), NEW end \in BOOLEAN, end => n = Rest(s), sseDataHandler(s, n, end)
  PROVE  Due(s)'
<1>1. /\ stream'[s].path = stream[s].path /\ stream'[s].sent = stream[s].sent
      /\ stream'[s].arrived = stream[s].arrived + n
      /\ filter'[s].content = filter[s].content
      /\ filter'[s].closed = filter[s].closed /\ filter'[s].body = filter[s].body
      /\ filter[s].closed => stream'[s].outcome = "refused"
      /\ ~filter[s].closed =>
           stream'[s].outcome = "open" /\ filter'[s].pc = "parse" /\ filter'[s].end = end
  BY EventsChange
<1>2. stream[s].outcome = "open" /\ filter[s].pc = "idle" /\ ~Flushed(s)
  BY DEF At, Flushed
<1>3. RequestDone(s)'
  BY <1>1, <1>2, RequestDoneStays DEF Due
<1>4. CASE filter[s].closed
  <2>1. stream'[s].outcome = "refused" /\ history[s].denied
    BY <1>1, <1>4 DEF Due, Accounted
  <2>2. Accounted(s)' /\ Ending(s)'
    BY <2>1 DEF Accounted, Ending, Responds, Active
  <2> QED BY <1>3, <2>2 DEF Due
<1>5. CASE ~filter[s].closed
  <2>1. Accounted(s)'
    BY <1>1, <1>5, AccountedStays DEF Due
  <2>2. Size(Message(s))' = Size(Message(s)) /\ (Responds(s)' => Responds(s))
    BY <1>1, <1>2, SameStream, RespondsBefore
  <2>3. end => stream'[s].arrived = Size(Message(s))
    <3>1. stream[s].arrived \in Nat /\ Size(Message(s)) \in Nat
      BY StreamFields, MessageFields DEF IInv
    <3> DEFINE a == stream[s].arrived
               b == Size(Message(s))
    <3>2. end => stream'[s].arrived = a + (b - a)
      BY <1>1 DEF Rest
    <3>3. a \in Nat /\ b \in Nat
      BY <3>1
    <3> HIDE DEF a, b
    <3>4. a + (b - a) = b
      BY <3>3
    <3> QED BY <3>2, <3>4 DEF b
  <2>4. Regular(s) => Regular(s)'
    BY <1>1, <1>2, <1>5, RegularStays
  <2>5. Repeats(s) => Repeats(s)'
    BY <1>1, RepeatsStays
  <2>6. filter'[s].pc = "parse" /\ filter'[s].end = end /\ ~Flushed(s)'
    BY <1>1, <1>5 DEF Flushed
  <2>7. Ending(s)'
    BY <1>2, <2>2, <2>3, <2>4, <2>5, <2>6 DEF Due, Ending
  <2> QED BY <1>3, <2>1, <2>7 DEF Due
<1> QED BY <1>4, <1>5

(* Receive.                                                                *)
LEMMA ReceiveDue ==
  ASSUME IInv, NEW s \in Streams, Due(s), Receive(s)
  PROVE  Due(s)'
<1>1. At(s, "idle") /\ world' = world /\ history' = history /\ Message(s).contents # <<>>
  BY Received
<1>2. PICK n \in 0 .. Rest(s) : \E end \in BOOLEAN :
        /\ end => n = Rest(s)
        /\ \/ Mode(s) = "whole" /\ dataHandler(s, n, end)
           \/ Mode(s) # "whole" /\ sseDataHandler(s, n, end)
  BY Received
<1>3. PICK end \in BOOLEAN :
        /\ end => n = Rest(s)
        /\ \/ Mode(s) = "whole" /\ dataHandler(s, n, end)
           \/ Mode(s) # "whole" /\ sseDataHandler(s, n, end)
  BY <1>2
<1> QED BY <1>1, <1>3, DocumentDue, EventsDue

(* Due begins, and is kept.                                                *)
LEMMA DueBegins ==
  ASSUME Init
  PROVE  \A s \in Streams : Due(s)
<1> SUFFICES ASSUME NEW s \in Streams
             PROVE  Due(s)
  OBVIOUS
<1>1. /\ filter[s].pc = "idle" /\ filter[s].closed = FALSE
      /\ stream[s].path = "request" /\ stream[s].outcome = "open"
  BY DEF Init
<1> QED BY <1>1 DEF Due, Accounted, RequestDone, Ending, Responds

(* A step keeps Due of its stream, and changes no other.                   *)
LEMMA DueKept ==
  ASSUME IInv, \A s \in Streams : Held(s) /\ Due(s), [Next]_vars
  PROVE  \A s \in Streams : Due(s)'
<1>1. CASE UNCHANGED vars
  <2> SUFFICES ASSUME NEW s \in Streams
               PROVE  Due(s)'
    OBVIOUS
  <2>1. world' = world /\ filter' = filter /\ stream' = stream /\ history' = history
    BY <1>1 DEF vars
  <2>2. Accounted(s)' /\ RequestDone(s)' /\ Ending(s)'
    BY <2>1 DEF Due, Accounted, RequestDone, Ending, Regular, Repeats, Responds, Active, Flushed, Consumed,
                EmptyTail, Start, End, Mode, Message
  <2> QED BY <2>2 DEF Due
<1>2. CASE Next
  <2>1. PICK s \in Streams : Step(s)
    BY <1>2 DEF Next, Step
  <2>2. Due(s)'
    BY <2>1, ExtractDue, ParseDue, CharDue, CountedDue, CollectDue, ModerateDue, ReleaseDue,
       ReceiveEndDue, ReceiveDue DEF Step, Handler
  <2>3. ASSUME NEW u \in Streams, u # s
        PROVE  Due(u)'
    <3>1. world' = world /\ filter'[u] = filter[u] /\ stream'[u] = stream[u] /\ history'[u] = history[u]
      BY <2>1, <2>3, OthersStay DEF IInv
    <3>2. Accounted(u) /\ RequestDone(u) /\ Ending(u)
      BY DEF Due
    <3>3. Mode(u)' = Mode(u) /\ Message(u)' = Message(u) /\ Size(Message(u))' = Size(Message(u))
      BY <3>1, SameStream
    <3>4. EmptyTail(u)' = EmptyTail(u)
      BY <3>1 DEF EmptyTail
    <3>5. Accounted(u)'
      BY <3>1, <3>2, <3>4 DEF Accounted
    <3>6. RequestDone(u)'
      <4>1. Size(world.message[u]["request"])' = Size(world.message[u]["request"])
        BY <3>1
      <4> QED BY <3>1, <3>2, <3>3, <4>1 DEF RequestDone
    <3>7. Ending(u)'
      <4>1. /\ (Responds(u)' => Responds(u)) /\ Flushed(u)' = Flushed(u) /\ Consumed(u)' = Consumed(u)
            /\ Repeats(u)' = Repeats(u)
        BY <3>1, <3>3 DEF Responds, Active, Flushed, Consumed, Repeats
      <4>2. Regular(u) => Regular(u)'
        BY <3>1 DEF Regular, Start, End
      <4> QED BY <3>1, <3>2, <3>3, <3>4, <4>1, <4>2 DEF Ending
    <3> QED BY <3>5, <3>6, <3>7 DEF Due
  <2> QED BY <2>2, <2>3
<1> QED BY <1>1, <1>2

-----------------------------------------------------------------------------
(* The inductive invariant holds in every reachable state.                 *)
THEOREM Invariant == Spec => []IInv
<1> QED BY Begins, Keeps, PTL DEF Spec

(* The parser's offsets and the content buffer's boundaries are in range,  *)
(* between frames nothing waits to be retrieved or to be moderated, and no *)
(* handler has had more than the message is.                               *)
THEOREM TypeCorrect == Spec => []TypeOK
<1> QED BY Invariant, InvariantTyped, PTL

(* Every character of an event, or of a document, that leaves lies in a    *)
(* chunk that the moderation service has allowed (sseDataHandler,          *)
(* dataHandler), whatever the limits, contents and frames are.             *)
THEOREM OnlyAllowedLeaves == Spec => []ReleasedPassed
<1> QED BY Invariant, InvariantPassed, PTL

(* Any two characters that leave and are no further apart than the overlap *)
(* were moderated in one chunk (startNewChunk, GetCompletedResult).        *)
THEOREM ModeratedInContext == Spec => []InContext
<1> QED BY Invariant, InvariantContext, PTL

(* An event that the filter holds back between two frames ends in what is  *)
(* not moderated yet, or will be once more (GetCompletedResult, and the    *)
(* events that Write counts for the overlap).                              *)
THEOREM HeldOnlyForCause == Spec => []HeldForCause
<1>1. Init => IInv /\ \A s \in Streams : Held(s)
  BY Begins, HeldBegins
<1>2. (IInv /\ \A s \in Streams : Held(s)) /\ [Next]_vars => (IInv /\ \A s \in Streams : Held(s))'
  BY Keeps, HeldKept
<1>3. (IInv /\ \A s \in Streams : Held(s)) => HeldForCause
  BY HeldHolds
<1> QED BY <1>1, <1>2, <1>3, PTL DEF Spec

(* A message that no one refuses leaves as a whole (Flush, Consume), and a *)
(* stream is refused, closed or ended by Consume's panic only for a cause, *)
(* whatever the limits, contents and frames are.                           *)
THEOREM EndsForCause == Spec => []Delivered
<1> DEFINE Inv == IInv /\ \A s \in Streams : Held(s) /\ Due(s)
<1>1. Init => Inv
  BY Begins, HeldBegins, DueBegins
<1>2. Inv /\ [Next]_vars => Inv'
  <2> SUFFICES ASSUME Inv, [Next]_vars
               PROVE  Inv'
    OBVIOUS
  <2>1. IInv' /\ (\A s \in Streams : Held(s)') /\ (\A s \in Streams : Due(s)')
    BY Keeps, HeldKept, DueKept
  <2> QED BY <2>1
<1>3. Inv => Delivered
  BY DEF Due, Accounted, Delivered
<1> HIDE DEF Inv
<1> QED BY <1>1, <1>2, <1>3, PTL DEF Spec
=============================================================================
