-------------------------------- MODULE Codec --------------------------------
(***************************************************************************)
(* The framing of both ends of a connection (tether-protocol, codec.rs): a *)
(* decoder that looks for the end of a line where it last left off, under  *)
(* a limit, called by tokio_util's FramedRead whenever bytes have arrived. *)
(*                                                                         *)
(* "m" stands for text that is part of a message, "?" for text that no     *)
(* message has.                                                            *)
(***************************************************************************)
EXTENDS Naturals, SequencesExt

CONSTANT MAX_LINE_BYTES

ASSUME CodecConstants == MAX_LINE_BYTES \in Nat

LF == "\n"
CR == "\r"
Bytes == {"m", "?", LF, CR}

VARIABLES
  stream,     \* all that the peer will send
  coming,     \* what of it has not arrived
  src,        \* what has and is not decoded
  next_index, \* the length of the prefix of src known to hold no LF
  reader,     \* FramedRead: it decodes, reads on, has ended or failed
  messages    \* what it yielded

codecVars == <<stream, coming, src, next_index, reader, messages>>

\* The shape of the state.
CodecTypeOK ==
  /\ stream \in Seq(Bytes) /\ IsSuffix(coming, stream) /\ src \in Seq(Bytes)
  /\ next_index \in 0..Len(src) /\ reader \in {"decode", "read", "eof", "end", "failed"}
  /\ messages \in Seq(Seq(Bytes))

CodecInit(bytes) ==
  /\ stream = bytes /\ coming = bytes /\ src = <<>> /\ next_index = 0
  /\ reader = "read" /\ messages = <<>>

\* Bytes arrive, or the stream ends.
Arrive ==
  /\ reader = "read"
  /\ \/ /\ \E n \in 1..Len(coming) :
             src' = src \o SubSeq(coming, 1, n) /\ coming' = SubSeq(coming, n + 1, Len(coming))
        /\ reader' = "decode"
     \/ coming = <<>> /\ reader' = "eof" /\ UNCHANGED <<src, coming>>
  /\ UNCHANGED <<stream, next_index, messages>>

\* Where decode finds the next LF, or 0.
NewlineAt ==
  LET found == {i \in next_index + 1 .. Len(src) : src[i] = LF} IN
  IF found = {} THEN 0 ELSE CHOOSE i \in found : \A j \in found : i <= j

Strip(line) == IF line # <<>> /\ Last(line) = CR THEN Front(line) ELSE line

\* FramedRead yields nothing more, whatever is left in src.
Fail == reader' = "failed" /\ UNCHANGED <<src, next_index, messages>>

\* Fault: the search goes on where it was in the line before.
TakeLineStale ==
  /\ reader \in {"decode", "eof"} /\ NewlineAt \in 1..MAX_LINE_BYTES
  /\ src' = SubSeq(src, NewlineAt + 1, Len(src))
  /\ next_index' = IF next_index > Len(src') THEN Len(src') ELSE next_index
  /\ LET line == Strip(SubSeq(src, 1, NewlineAt - 1)) IN
     /\ messages' = IF line = <<>> THEN messages ELSE Append(messages, line)
     /\ "?" \notin Range(line)
  /\ UNCHANGED <<stream, coming, reader>>

\* A line: yielded, skipped if it is blank, the end of all if it is no message.
\* The code skips one by calling itself; the next step here is that call, and
\* how deep they go is not modelled.
TakeLine ==
  LET line == Strip(SubSeq(src, 1, NewlineAt - 1)) IN
  /\ reader \in {"decode", "eof"} /\ NewlineAt \in 1..MAX_LINE_BYTES
  /\ \/ /\ "?" \notin Range(line)
        /\ src' = SubSeq(src, NewlineAt + 1, Len(src)) /\ next_index' = 0
        /\ messages' = IF line = <<>> THEN messages ELSE Append(messages, line)
        /\ UNCHANGED reader
     \/ "?" \in Range(line) /\ Fail
  /\ UNCHANGED <<stream, coming>>

\* A line too long, with its end in sight or not.
Overlong ==
  /\ reader \in {"decode", "eof"}
  /\ NewlineAt > MAX_LINE_BYTES \/ (NewlineAt = 0 /\ Len(src) > MAX_LINE_BYTES)
  /\ Fail
  /\ UNCHANGED <<stream, coming>>

\* Fault: the limit is for the text.
NoLineLax ==
  /\ reader \in {"decode", "eof"} /\ NewlineAt = 0
  /\ next_index' = Len(src)
  /\ reader' = IF reader = "decode" THEN "read" ELSE IF src = <<>> THEN "end" ELSE "failed"
  /\ UNCHANGED <<stream, coming, src, messages>>

\* No line yet; at the end of the stream nothing may be left.
NoLine ==
  /\ reader \in {"decode", "eof"} /\ NewlineAt = 0 /\ Len(src) <= MAX_LINE_BYTES
  /\ next_index' = Len(src)
  /\ reader' = IF reader = "decode" THEN "read" ELSE IF src = <<>> THEN "end" ELSE "failed"
  /\ UNCHANGED <<stream, coming, src, messages>>

CodecNext == Arrive \/ TakeLine \/ Overlong \/ NoLine

-----------------------------------------------------------------------------
(* Properties.                                                             *)

\* The stream byte by byte: the line so far, the lines before it, and whether
\* one of them was the last.
Parse(st, b) ==
  LET line == Strip(st.line) IN
  IF st.failed THEN st
  ELSE IF b # LF
       THEN [st EXCEPT !.line = Append(@, b), !.failed = Len(st.line) >= MAX_LINE_BYTES]
       ELSE [line |-> <<>>,
             got |-> IF line = <<>> \/ "?" \in Range(line) \/ Len(st.line) >= MAX_LINE_BYTES
                     THEN st.got ELSE Append(st.got, line),
             failed |-> "?" \in Range(line) \/ Len(st.line) >= MAX_LINE_BYTES]

Parsed(bytes) == FoldLeft(Parse, [line |-> <<>>, got |-> <<>>, failed |-> FALSE], bytes)

\* Whichever way the bytes arrive, the messages are those of the stream, none
\* twice, none cut, none missing; a stream fails if and where it should; and a
\* peer that never ends its line does not make the buffer grow: between two
\* reads it holds no more than a line may have.
DecodedAsSent ==
  LET all == Parsed(stream) IN
  /\ IsPrefix(messages, all.got)
  /\ reader \in {"end", "failed"} => messages = all.got
  /\ reader = "end" => ~all.failed /\ all.line = <<>>
  /\ reader = "failed" => all.failed \/ all.line # <<>>
  /\ reader = "read" => Len(src) <= MAX_LINE_BYTES
=============================================================================
