---------------------------- MODULE ContentBuffer ----------------------------
(***************************************************************************)
(* The content buffer of the AI content security plugin                    *)
(* (aicontentsecurity/contentbuffer): it cuts what events say into chunks  *)
(* of k.max characters, each of which repeats the last k.overlap of the    *)
(* one before, and counts the events that the chunks complete.             *)
(*                                                                         *)
(* Characters are numbered in the order they are written, so the buffer is *)
(* the `len` characters that follow the `base` already dropped.  Bytes     *)
(* that are no character are left out.  Of the boundaries that are not yet *)
(* retrieved only the sum of their writeTimes matters: `completed`.        *)
(***************************************************************************)
EXTENDS Naturals, Sequences

NewContentBuffer ==
  [base |-> 0, len |-> 0, boundaries |-> <<>>, completed |-> 0,
   currStart |-> 0, currChars |-> 0, currEvents |-> 0, overlapEvents |-> 0]

inOverlap(c, k) == k.max < c.currChars + k.overlap

TailStartIndex(c, n) == IF c.len > n THEN c.len - n ELSE 0

startNewChunk_ForgetsOverlap(c, k, disableOverlap) ==
  IF c.currChars = 0 THEN c
  ELSE [c EXCEPT !.boundaries = Append(@, [start |-> c.currStart, end |-> c.len]),
                 !.completed = @ + c.currEvents,
                 !.currEvents = c.overlapEvents, !.overlapEvents = 0,
                 !.currStart = c.len, !.currChars = 0]
startNewChunk(c, k, disableOverlap) ==
  LET repeats == k.overlap > 0 /\ ~disableOverlap
  IN IF c.currChars = 0 THEN c
     ELSE [c EXCEPT !.boundaries = Append(@, [start |-> c.currStart, end |-> c.len]),
                    !.completed = @ + c.currEvents,
                    !.currEvents = c.overlapEvents, !.overlapEvents = 0,
                    !.currStart = IF repeats THEN TailStartIndex(c, k.overlap) ELSE c.len,
                    !.currChars = IF repeats THEN k.overlap ELSE 0]

(* Write: one turn of its loop, and what follows the loop for a content of *)
(* n characters.                                                           *)
WriteChar(c, k) ==
  LET more == [c EXCEPT !.len = @ + 1, !.currChars = @ + 1]
  IN IF more.currChars = k.max THEN startNewChunk(more, k, FALSE) ELSE more

CountEvent_Early(c, k, n) ==
  IF c.boundaries # <<>> THEN [c EXCEPT !.completed = @ + 1] ELSE [c EXCEPT !.currEvents = @ + 1]
CountEvent_Never(c, k, n) ==
  IF n = 0 THEN c
  ELSE IF inOverlap(c, k) THEN [c EXCEPT !.overlapEvents = @ + 1] ELSE [c EXCEPT !.currEvents = @ + 1]
CountEvent(c, k, n) ==
  IF n > 0 /\ k.overlap = 0 /\ c.currChars = 0 THEN [c EXCEPT !.completed = @ + 1]
  ELSE IF inOverlap(c, k) THEN [c EXCEPT !.overlapEvents = @ + 1]
  ELSE [c EXCEPT !.currEvents = @ + 1]

(* The events of the overlap stay counted there as well.                   *)
Flush(c, k) ==
  IF c.currChars = 0 THEN c
  ELSE startNewChunk([c EXCEPT !.currEvents = @ + c.overlapEvents], k, TRUE)

(* GetCompletedResult: what it returns, and what it leaves.                *)
Chunks(c) ==
  [i \in DOMAIN c.boundaries |-> [from |-> c.base + c.boundaries[i].start,
                                  to |-> c.base + c.boundaries[i].end]]
CompletedEvents(c) ==
  IF c.boundaries # <<>> THEN c.completed ELSE IF c.currChars = 0 THEN c.currEvents ELSE 0

Retrieved_KeepsCount(c) ==
  IF c.boundaries = <<>> THEN c
  ELSE [c EXCEPT !.base = @ + c.currStart, !.len = @ - c.currStart,
                 !.boundaries = <<>>, !.completed = 0, !.currStart = 0]
Retrieved(c) ==
  IF c.boundaries = <<>>
  THEN IF c.currChars = 0 THEN [c EXCEPT !.currEvents = 0] ELSE c
  ELSE IF c.currStart = 0 THEN c
  ELSE [c EXCEPT !.base = @ + c.currStart, !.len = @ - c.currStart,
                 !.boundaries = <<>>, !.completed = 0, !.currStart = 0]
=============================================================================
