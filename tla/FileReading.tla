---------------------------- MODULE FileReading ----------------------------
(***************************************************************************)
(* read_file (tools/file.rs): what it answers, and the scan in chunks      *)
(* that gives the answer for files too large to hold.                      *)
(*                                                                         *)
(* A file is a sequence of bytes: x is a character, n a newline, l and c   *)
(* the two bytes of a longer character.  The chunk boundaries fall         *)
(* anywhere.  Binary files are refused by both in the same way and left    *)
(* out, and so are the digest and the warnings.                            *)
(***************************************************************************)
EXTENDS Integers, Sequences, FiniteSetsExt, SequencesExt

CONSTANTS MaxSize,   \* bound: bytes of a file
          MaxChunk,  \* bound: bytes of a chunk
          MaxLine,   \* bound: lines asked for
          MaxBytes   \* bound: max_bytes asked for

ASSUME ReadingAssumption == {MaxSize, MaxChunk, MaxLine, MaxBytes} \subseteq Nat

Open == 99   \* no end_line was given

VARIABLES
  file, ask,  \* the bytes; [from, to, max]
  pos, carry, \* the bytes read, and those of them that await the next chunk
  scan,       \* total_lines, selected, line_pending and overflow
  outcome     \* "scanning", "eof", "early" or "encoding"

frvars == <<file, ask, pos, carry, scan, outcome>>

FRInit ==
  /\ file \in UNION {[1..k -> {"x", "n", "l", "c"}] : k \in 0..MaxSize}
  /\ ask \in [from : 1..MaxLine, to : (0..MaxLine) \cup {Open}, max : 0..MaxBytes]
  /\ pos = 0 /\ carry = <<>>
  /\ scan = [lines |-> 0, selected |-> <<>>, pending |-> <<>>, overflow |-> FALSE]
  /\ outcome = "scanning"

-----------------------------------------------------------------------------
(* What both share.                                                        *)

\* Bytes that no continuation makes valid, and bytes that stop short of it.
Ill(s) == \E i \in DOMAIN s :
  \/ s[i] = "c" /\ (i = 1 \/ s[i - 1] # "l")
  \/ s[i] = "l" /\ i < Len(s) /\ s[i + 1] # "c"
Short(s) == s # <<>> /\ Last(s) = "l"

\* content.lines().count()
LineCount(s) == Cardinality({i \in DOMAIN s : s[i] = "n"})
                + (IF s # <<>> /\ Last(s) # "n" THEN 1 ELSE 0)

EndOf(total) == IF ask.to < total THEN ask.to ELSE total
LastLine(content, truncated, total) ==
  IF truncated /\ content # <<>> THEN ask.from + LineCount(content) - 1 ELSE EndOf(total)

\* Both cut the content back to a whole character.
WholeChars(s) == IF Short(s) THEN Front(s) ELSE s
Answer(content, truncated, total) ==
  [content |-> content, truncated |-> truncated, total |-> total,
   last |-> LastLine(content, truncated, total)]

-----------------------------------------------------------------------------
(* In memory: the lines of the whole text.                                 *)

LineOf(i) == 1 + Cardinality({j \in 1..(i - 1) : file[j] = "n"})
Selection ==
  LET s == {i \in DOMAIN file : LineOf(i) \in ask.from..EndOf(LineCount(file))}
  IN IF s = {} THEN <<>> ELSE SubSeq(file, Min(s), Max(s))

InMemory ==
  IF Len(Selection) <= ask.max THEN Answer(Selection, FALSE, LineCount(file))
  ELSE Answer(WholeChars(SubSeq(Selection, 1, ask.max)), TRUE, LineCount(file))
Refused == Ill(file) \/ Short(file)

-----------------------------------------------------------------------------
(* In chunks.                                                              *)

InRange(n) == n >= ask.from /\ n <= ask.to

\* append_capped: the bytes that fit, and whether some did not.
Capped(dst, src) == SubSeq(dst \o src, 1, Min({ask.max, Len(dst \o src)}))
Spills(dst, src) == Len(dst) + Len(src) > ask.max

\* The line in progress joins the selection when its line is asked for.
FlushLine(st) ==
  IF ~InRange(st.lines + 1) THEN [st EXCEPT !.lines = @ + 1]
  ELSE [lines |-> st.lines + 1, selected |-> Capped(st.selected, st.pending),
        pending |-> <<>>, overflow |-> st.overflow \/ Spills(st.selected, st.pending)]

\* consume_stream_lines, a byte at a time.
Consume(st, byte) ==
  LET kept == IF ~InRange(st.lines + 1) THEN st
              ELSE [st EXCEPT !.pending = Capped(@, <<byte>>),
                              !.overflow = @ \/ Spills(st.pending, <<byte>>)]
  IN IF byte = "n" THEN FlushLine(kept) ELSE kept

SelectionComplete(st) == st.overflow \/ st.lines >= ask.to

\* Mutant: the bytes that await the next chunk are forgotten.
ReadChunkNoCarry ==
  /\ outcome = "scanning" /\ pos < Len(file)
  /\ \E n \in 1..Min({MaxChunk, Len(file) - pos}) :
       LET window == SubSeq(file, pos + 1, pos + n)
           st == FoldLeft(Consume, scan, WholeChars(window))
       IN /\ pos' = pos + n
          /\ carry' = <<>>
          /\ IF Ill(window) THEN outcome' = "encoding" /\ UNCHANGED scan
             ELSE IF SelectionComplete(st)
               THEN outcome' = "early" /\ scan' = (IF st.pending = <<>> THEN st ELSE FlushLine(st))
             ELSE scan' = st /\ UNCHANGED outcome
  /\ UNCHANGED <<file, ask>>

\* One read of the loop: the incomplete end of the chunk is carried over, the
\* rest is consumed, and the scan stops when no more can be selected.
ReadChunk ==
  /\ outcome = "scanning" /\ pos < Len(file)
  /\ \E n \in 1..Min({MaxChunk, Len(file) - pos}) :
       LET window == carry \o SubSeq(file, pos + 1, pos + n)
           st == FoldLeft(Consume, scan, WholeChars(window))
       IN /\ pos' = pos + n
          /\ carry' = IF Short(window) /\ ~SelectionComplete(st) THEN <<Last(window)>> ELSE <<>>
          /\ IF Ill(window) THEN outcome' = "encoding" /\ UNCHANGED scan
             ELSE IF SelectionComplete(st)
               THEN outcome' = "early" /\ scan' = (IF st.pending = <<>> THEN st ELSE FlushLine(st))
             ELSE scan' = st /\ UNCHANGED outcome
  /\ UNCHANGED <<file, ask>>

\* The end of the file: a last line without a newline counts.
ReadEof ==
  /\ outcome = "scanning" /\ pos = Len(file)
  /\ outcome' = IF carry = <<>> THEN "eof" ELSE "encoding"
  /\ scan' = IF carry = <<>> /\ pos > 0 /\ Last(file) # "n" THEN FlushLine(scan) ELSE scan
  /\ UNCHANGED <<file, ask, pos, carry>>

Streamed == Answer(IF scan.overflow THEN WholeChars(scan.selected) ELSE scan.selected,
                   scan.overflow, scan.lines)

FRNext == ReadChunk \/ ReadEof
FRSpec == FRInit /\ [][FRNext]_frvars

-----------------------------------------------------------------------------
\* However the chunks fall, the scan answers what reading the whole file would:
\* the same content and truncation, the same last line (but for a truncation to
\* nothing, where it knows only the lines it saw), the same number of lines
\* when it saw them all; and it refuses only what is no UTF-8.
StreamMatches ==
  /\ outcome \in {"eof", "early"} =>
       /\ Streamed.content = InMemory.content /\ Streamed.truncated = InMemory.truncated
       /\ (~InMemory.truncated \/ InMemory.content # <<>>) => Streamed.last = InMemory.last
       /\ outcome = "eof" => Streamed.total = InMemory.total /\ ~Refused
  /\ outcome = "encoding" => Refused

\* What it holds is bounded by the answer, whatever the length of a line.
BoundedMemory == Len(scan.selected) <= ask.max /\ Len(scan.pending) <= ask.max
                 /\ Len(carry) <= 1

ReadingInv == StreamMatches /\ BoundedMemory
=============================================================================
