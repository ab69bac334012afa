------------------------------ MODULE SSEParser ------------------------------
(***************************************************************************)
(* The parser of server-sent events (aicontentsecurity/sseparser).  The    *)
(* stream is cut into events of `Parts` parts each, so that a frame may    *)
(* end within one; the buffer is the `len` parts that follow the `base`    *)
(* already pruned, and offsets are relative to it, as in the code.  What   *)
(* findEventEnd finds is the end of an event that is there as a whole.     *)
(***************************************************************************)
EXTENDS Naturals, Sequences

Parts == 2

NewStreamEventParser ==
  [base |-> 0, len |-> 0, boundaries |-> <<>>, parsedOffset |-> 0, lastParseEnd |-> 0]

AppendData(p, n) == [p EXCEPT !.len = @ + n]

(* TryParse finds an event, and remembers where it ends.                   *)
Parsable(p) == p.lastParseEnd + Parts <= p.len
TryParse(p) ==
  [p EXCEPT !.lastParseEnd = @ + Parts, !.boundaries = Append(@, p.lastParseEnd + Parts)]

(* Consume(n): there is no event before the first, so n # 0 needs a        *)
(* boundary.                                                               *)
Consumable(p, n) == n = 0 \/ p.boundaries # <<>>
Consume(p, n) ==
  LET m == IF n > Len(p.boundaries) THEN Len(p.boundaries) ELSE n
  IN IF n = 0 THEN p
     ELSE [p EXCEPT !.parsedOffset = p.boundaries[m],
                    !.boundaries = SubSeq(@, m + 1, Len(@))]

PruneParsedData_Boundaries(p) ==
  [p EXCEPT !.base = @ + p.parsedOffset, !.len = @ - p.parsedOffset,
            !.lastParseEnd = @ - p.parsedOffset, !.parsedOffset = 0]
PruneParsedData(p) ==
  [p EXCEPT !.base = @ + p.parsedOffset, !.len = @ - p.parsedOffset,
            !.boundaries = [i \in DOMAIN @ |-> @[i] - p.parsedOffset],
            !.lastParseEnd = @ - p.parsedOffset, !.parsedOffset = 0]
=============================================================================
