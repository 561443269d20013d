---------------------------- MODULE OutputPages ----------------------------
(***************************************************************************)
(* The output of one stream of a command: how it is kept while it is       *)
(* written, and how it is read page by page and previewed meanwhile.  A    *)
(* durable job's worker appends to a log with a cap and leaves a tail file *)
(* and the totals at the end (personal-runtime worker.rs, jobs.rs); an     *)
(* interactive session keeps the latest bytes in memory (session.rs).      *)
(*                                                                         *)
(* A byte knows its place in its character, or in a malformed sequence     *)
(* that decoding replaces as a whole, so that slices can be decoded        *)
(* without a recursive definition.  A worker that died is one that takes   *)
(* no further step: its row is unknown, which readers treat as running.    *)
(***************************************************************************)
EXTENDS Integers, Sequences, FiniteSets

CONSTANTS Outputs,   \* what commands write: sequences of bytes
          LogCap,    \* MAX_STREAM_BYTES
          TailCap,   \* bytes of the tail file
          BufferCap, \* SESSION_BUFFER_BYTES
          Limits     \* bytes that callers ask for

\* good: a character; short: the beginning of one, broken off by the byte after
\* it; stray: a byte that begins nothing.
ByteKinds == {"good", "short", "stray"}
Bytes == [place : 0..3, width : 1..4, kind : ByteKinds]
WellFormed(o) ==
  \A i \in DOMAIN o :
    /\ o[i].place < o[i].width
    /\ (o[i].kind = "stray" => o[i].width = 1)
    /\ o[i].kind = "short" => o[i].width < 4 /\ i + o[i].width - o[i].place <= Len(o)
    /\ IF o[i].place = 0 THEN i = 1 \/ o[i - 1].place + 1 = o[i - 1].width
       ELSE i > 1 /\ o[i - 1] = [o[i] EXCEPT !.place = o[i].place - 1]

ASSUME OutputAssumption ==
  /\ \A o \in Outputs : o \in Seq(Bytes) /\ WellFormed(o)
  /\ {LogCap, TailCap, BufferCap} \subseteq Nat \ {0} /\ Limits \subseteq Nat \ {0}

VARIABLES
  output,  \* what the command writes, all of it
  keeping, \* "log" or "buffer"
  got,     \* how many bytes a collector has read from the pipe
  flowing, \* the pipe is open
  tail,    \* the tail file: "none", "empty" or "full"
  totals,  \* output.json is there
  row,     \* the job is "live" (queued, running, unknown) or "over"
  reader,  \* [at, seen, from, upto]: the offset that it follows; the status, or the
           \* buffer, that its current read has seen
  page,    \* the last page that was answered
  preview  \* the last poll's view of the stream

opvars == <<output, keeping, got, flowing, tail, totals, row, reader, page, preview>>
streamvars == <<output, keeping, got, flowing, tail, totals, row>>

Nothing == -1   \* no offset, no total
Smaller(a, b) == IF a <= b THEN a ELSE b
LargestOf(S) == CHOOSE x \in S : \A y \in S : y <= x
SmallestOf(S) == CHOOSE x \in S : \A y \in S : x <= y

Resting(at) == [at |-> at, seen |-> "none", from |-> 0, upto |-> 0]
NoPreview == [step |-> "none", limit |-> 1, total |-> Nothing, from |-> 0, upto |-> 0,
              until |-> 0, cut |-> FALSE]

OPInit ==
  /\ output \in Outputs /\ keeping \in {"log", "buffer"} /\ got = 0 /\ flowing = TRUE
  /\ tail = "none" /\ totals = FALSE /\ row = "live"
  /\ reader = Resting(0) /\ preview = NoPreview
  /\ page = [from |-> 0, read |-> 0, next |-> 0, pending |-> 0, lossy |-> FALSE, total |-> 0,
             base |-> 0, seen |-> "none"]

\* The log is as long as the cap allows, the buffer holds the latest bytes.
Logged == Smaller(got, LogCap)
BufferFrom == got - Smaller(got, BufferCap)

-----------------------------------------------------------------------------
(* The collector: capture of worker.rs, read_stream of session.rs.         *)

Collect(n) ==
  /\ flowing /\ n > 0 /\ got + n <= Len(output) /\ got' = got + n
  /\ UNCHANGED <<output, keeping, flowing, tail, totals, row, reader, page, preview>>

\* The command ended, or it was stopped in the middle of what it had to say; the
\* tail file is created before it is written.
StreamEnds ==
  /\ flowing /\ flowing' = FALSE
  /\ tail' = IF keeping = "log" THEN "empty" ELSE tail
  /\ UNCHANGED <<output, keeping, got, totals, row, reader, page, preview>>

WriteTail ==
  /\ tail = "empty" /\ tail' = "full"
  /\ UNCHANGED <<output, keeping, got, flowing, totals, row, reader, page, preview>>

WriteTotals ==
  /\ tail = "full" /\ ~totals /\ totals' = TRUE
  /\ UNCHANGED <<output, keeping, got, flowing, tail, row, reader, page, preview>>

\* finish_job, when both collectors are joined and their totals are written.
FinishRow ==
  /\ totals /\ row = "live" /\ row' = "over"
  /\ UNCHANGED <<output, keeping, got, flowing, tail, totals, reader, page, preview>>

-----------------------------------------------------------------------------
(* How a slice of the text, the bytes from offset a and before b, decodes. *)

Byte(p) == output[p + 1]
Start(p) == p - Byte(p).place
\* The byte belongs to a character all of which is in the slice.
Valid(a, b, p) ==
  Byte(p).kind = "good" /\ Start(p) >= a /\ Start(p) + Byte(p).width <= b
\* Where a character or a malformed sequence is known to end: what began before the
\* slice is single bytes, and what the end of the slice breaks off may go on.
EndsAt(a, b, e) ==
  LET p == e - 1
  IN \/ Start(p) < a
     \/ e = Start(p) + Byte(p).width /\ (Byte(p).kind = "short" => e < b)
\* What decoding replaces: one character, of three bytes, for each.
Replaced(a, b) ==
  {p \in a..(b - 1) : ~Valid(a, b, p) /\ (Start(p) < a \/ Byte(p).place = 0)}
DecodedLen(a, b) ==
  Cardinality({p \in a..(b - 1) : Valid(a, b, p)}) + 3 * Cardinality(Replaced(a, b))

-----------------------------------------------------------------------------
(* job_output: pages of the log, of whole characters.                      *)

\* Mutant: the bytes asked for and none more are looked at.
WindowBare(a, total, limit) == Smaller(a + limit, total)
\* Three more bytes complete the last character.
Window(a, total, limit) == Smaller(a + limit + 3, total)

\* Only a job that is over has a last character that is not completed any more.
Stops(a, b, over) == {e \in (a + 1)..b : EndsAt(a, b, e) \/ (over /\ e = b)}

\* As many as fit, at least one.
Consumed(a, b, limit, over) ==
  LET fit == {e \in Stops(a, b, over) : e <= a + limit}
  IN IF fit # {} THEN LargestOf(fit) - a
     ELSE IF Stops(a, b, over) # {} THEN SmallestOf(Stops(a, b, over)) - a ELSE 0

\* The status first, then the log.
SeeStatus ==
  /\ keeping = "log" /\ reader.seen = "none"
  /\ reader' = [reader EXCEPT !.seen = row]
  /\ UNCHANGED <<streamvars, page, preview>>

ReadPage(limit) ==
  /\ keeping = "log" /\ reader.seen # "none"
  /\ LET over == reader.seen = "over"
         a == Smaller(reader.at, Logged)
         b == Window(a, Logged, limit)
         n == Consumed(a, b, limit, over)
         pending == IF n = 0 THEN b - a ELSE 0
     IN /\ page' = [from |-> a, read |-> n, pending |-> pending, lossy |-> Replaced(a, a + n) # {},
                    next |-> IF pending = 0 /\ a + n < Logged THEN a + n ELSE Nothing,
                    total |-> Logged, base |-> 0, seen |-> reader.seen]
        /\ reader' = Resting(a + n)
  /\ UNCHANGED <<streamvars, preview>>

-----------------------------------------------------------------------------
(* read_output: pages of a session's buffer, at offsets in the buffer.     *)

CloneBuffer ==
  /\ keeping = "buffer" /\ reader.seen = "none"
  /\ reader' = [reader EXCEPT !.seen = "buffer", !.from = BufferFrom, !.upto = got]
  /\ UNCHANGED <<streamvars, page, preview>>

\* The total is read when the buffer's lock is free again.
ReadBuffer(limit) ==
  /\ reader.seen = "buffer"
  /\ LET size == reader.upto - reader.from
         a == Smaller(reader.at, size)
         n == Smaller(limit, size - a)
     IN /\ page' = [from |-> a, read |-> n, pending |-> 0, lossy |-> FALSE,
                    next |-> IF a + n < got THEN a + n ELSE Nothing,
                    total |-> got, base |-> reader.from, seen |-> "buffer"]
        /\ reader' = Resting(a + n)
  /\ UNCHANGED <<streamvars, preview>>

-----------------------------------------------------------------------------
(* What a poll shows of the stream: its last bytes.                        *)

\* snapshot of a session.
PreviewBuffer(limit) ==
  /\ keeping = "buffer"
  /\ LET size == got - BufferFrom
     IN preview' = [step |-> "done", limit |-> limit, total |-> Nothing,
                    from |-> got - Smaller(size, limit), upto |-> got, until |-> got,
                    cut |-> size > limit]
  /\ UNCHANGED <<streamvars, reader, page>>

\* attach_output of a job: the totals if they are there, ...
PreviewTotals(limit) ==
  /\ keeping = "log" /\ preview.step \in {"none", "done"}
  /\ preview' = [NoPreview EXCEPT !.step = "totals", !.limit = limit,
                                  !.total = IF totals THEN got ELSE Nothing]
  /\ UNCHANGED <<streamvars, reader, page>>

\* ... then the tail file or else the log, from the first whole character that
\* is within the limit, ...
TailStart(lo, hi, limit) ==
  LET a == hi - Smaller(hi - lo, limit)
  IN IF a < hi /\ Byte(a).place > 0 /\ Valid(lo, hi, a)
     THEN Start(a) + Byte(a).width ELSE a

PreviewTail ==
  /\ preview.step = "totals"
  /\ LET hi == IF tail = "none" THEN Logged ELSE got
         lo == IF tail = "none" THEN 0
               ELSE IF tail = "empty" THEN got ELSE got - Smaller(got, TailCap)
     IN preview' = [preview EXCEPT !.step = "text", !.from = TailStart(lo, hi, preview.limit),
                                   !.upto = hi]
  /\ UNCHANGED <<streamvars, reader, page>>

\* ... then the length of the log: was anything left out?
PreviewLength ==
  /\ preview.step = "text"
  /\ LET shown == DecodedLen(preview.from, preview.upto)
     IN preview' = [preview EXCEPT !.step = "done", !.until = got,
                      !.cut = IF preview.total # Nothing THEN preview.total > shown
                              ELSE Logged > shown \/ Logged >= LogCap]
  /\ UNCHANGED <<streamvars, reader, page>>

-----------------------------------------------------------------------------
OPNext ==
  \/ \E n \in 1..Len(output) : Collect(n)
  \/ StreamEnds \/ WriteTail \/ WriteTotals \/ FinishRow
  \/ SeeStatus \/ CloneBuffer \/ PreviewTail \/ PreviewLength
  \/ \E limit \in Limits :
       ReadPage(limit) \/ ReadBuffer(limit) \/ PreviewBuffer(limit) \/ PreviewTotals(limit)

OPSpec == OPInit /\ [][OPNext]_opvars

-----------------------------------------------------------------------------
(* Properties, of a reader that starts at the beginning and follows the    *)
(* offsets that it is given, at any speed.                                 *)

OPTypeOK ==
  /\ output \in Outputs /\ keeping \in {"log", "buffer"} /\ got \in 0..Len(output)
  /\ flowing \in BOOLEAN /\ totals \in BOOLEAN
  /\ tail \in {"none", "empty", "full"} /\ row \in {"live", "over"}
  /\ reader \in [at : Nat, seen : {"none", "live", "over", "buffer"}, from : Nat, upto : Nat]
  /\ page \in [from : Nat, read : Nat, next : Nat \cup {Nothing}, pending : 0..3, lossy : BOOLEAN,
               total : Nat, base : Nat, seen : {"none", "live", "over", "buffer"}]
  /\ preview \in [step : {"none", "totals", "text", "done"}, limit : Nat, total : Nat \cup {Nothing},
                  from : Int, upto : Nat, until : Nat, cut : BOOLEAN]

\* The byte before the offset is of a character or sequence that goes on.
Inside(p) == p > 0 /\ Byte(p - 1).place + 1 < Byte(p - 1).width

\* jobs.rs:242-272: no page of a job's log ends inside a character, unless the log
\* itself does and nothing comes any more; so a reader that puts the pages together
\* replaces nothing of an output that is valid.
CharactersWhole ==
  keeping = "log" =>
    /\ Inside(reader.at) => row = "over" /\ reader.at = Logged
    /\ page.lossy => \E p \in page.from..(page.from + page.read - 1) :
                       Byte(p).kind # "good" \/ Start(p) + Byte(p).width > Logged

\* jobs.rs:261-279: a reader that is told of nothing more by a job that is over has all
\* of its log, and until then each page brings it further; what is left pending is
\* pending of a job that may still write.
ReadersFinish ==
  page.seen = "over" =>
    /\ row = "over" /\ page.pending = 0
    /\ page.next = Nothing => page.from + page.read >= Logged
    /\ page.from < page.total => page.read > 0

\* session.rs:352-358: a page of a session that says there is no more is the end of an
\* output of which the buffer dropped nothing.
NoGapUntold ==
  page.seen = "buffer" /\ page.next = Nothing =>
    page.base = 0 /\ page.from + page.read = page.total

\* jobs.rs:357-366, session.rs:306-313: a preview that is not marked as cut, and in
\* which decoding replaced nothing, is the whole output up to then, unless a session's
\* caller asks for as much as the buffer holds.
PreviewsHonest ==
  preview.step = "done" /\ ~preview.cut
  /\ (IF keeping = "log" THEN Replaced(preview.from, preview.upto) = {} ELSE preview.limit < BufferCap)
    => preview.from = 0 /\ preview.upto = preview.until

OutputInv == OPTypeOK /\ CharactersWhole /\ ReadersFinish /\ NoGapUntold /\ PreviewsHonest
=============================================================================
