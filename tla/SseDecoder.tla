----------------------------- MODULE SseDecoder -----------------------------
(***************************************************************************)
(* OpenAiSseDecoder: the incremental decoding of the upstream's server-    *)
(* sent events into the events of an inference stream. The upstream's      *)
(* bytes come in chunks cut anywhere; the decoder keeps what is not yet a  *)
(* complete frame, up to MAX_SSE_FRAME_BYTES, and ends with exactly one    *)
(* terminal event.                                                         *)
(*                                                                         *)
(* Bytes are kept as the tokens that decoding tells apart: line ends, the  *)
(* field name, a comment's colon, payloads by what they parse as, and      *)
(* bytes that are not UTF-8.                                               *)
(***************************************************************************)
EXTENDS Integers, Sequences, SequencesExt, AscendingOrder

CONSTANTS
  Upstreams,   \* the bytes an upstream may send before it closes
  MaxFrame,    \* MAX_SSE_FRAME_BYTES, in tokens
  MaxChunk     \* bound: the largest chunk, in tokens

Tokens == {"LF", "CR", "data:", ":", "chunk", "[DONE]", "error", "junk", "invalid"}

ASSUME ConstantsAssumption ==
  /\ \A bytes \in Upstreams : bytes \in Seq(Tokens)
  /\ MaxFrame \in Nat \ {0}
  /\ MaxChunk \in Nat \ {0}

VARIABLES
  sent,      \* everything the upstream sends in this behaviour
  source,    \* what of it has not been read
  broken,    \* the transport has failed
  buffer,    \* OpenAiSseDecoder.buffer
  terminal,  \* OpenAiSseDecoder.terminal
  events     \* the events the decoder has yielded

vars == <<sent, source, broken, buffer, terminal, events>>

Events == {"frame", "completed", "failed"}

TypeOK ==
  /\ sent \in Seq(Tokens)
  /\ source \in Seq(Tokens) /\ IsSuffix(source, sent)
  /\ broken \in BOOLEAN
  /\ buffer \in Seq(Tokens) /\ Len(buffer) <= MaxFrame
  /\ terminal \in BOOLEAN
  /\ events \in Seq(Events)

Init ==
  /\ sent \in Upstreams
  /\ source = sent
  /\ broken = FALSE
  /\ buffer = <<>>
  /\ terminal = FALSE
  /\ events = <<>>

-----------------------------------------------------------------------------
(* complete_frame and decode_frame *)

(* The line that the line end at i closes, without that line end. *)
LineBefore(bytes, i) ==
  LET ends == {j \in 1 .. i - 1 : bytes[j] = "LF"}
  IN  SubSeq(bytes, IF ends = {} THEN 1 ELSE Max(ends) + 1, i - 1)

(* The line ends that close an empty line, with or without a carriage return. *)
FrameEnds(bytes) ==
  {i \in DOMAIN bytes : bytes[i] = "LF" /\ LineBefore(bytes, i) \in {<<>>, <<"CR">>}}

(* The payload of a frame: what follows the field name in its data lines. Line *)
(* ends and carriage returns between payloads are white space to the parser.   *)
DataLines(frame) ==
  {i \in DOMAIN frame : frame[i] = "data:" /\ (i = 1 \/ frame[i - 1] = "LF")}

Payload(frame) ==
  LET saysData(i) == \E d \in DataLines(frame) : d < i /\ \A j \in d .. i : frame[j] # "LF"
  IN  SelectSeq([i \in DOMAIN frame |-> IF saysData(i) THEN frame[i] ELSE "CR"],
                LAMBDA token : token # "CR")

(* A frame is text as a whole, its comments included, before it is split. *)
IsText(frame) == \A i \in DOMAIN frame : frame[i] # "invalid"

(* What a frame says: nothing without a data line, else one of the events. *)
Decoded(frame) ==
  IF ~ IsText(frame) THEN "failed"
  ELSE IF DataLines(frame) = {} THEN "nothing"
  ELSE IF Payload(frame) = <<"[DONE]">> THEN "completed"
  ELSE IF Payload(frame) = <<"chunk">> THEN "frame"
  ELSE "failed"

-----------------------------------------------------------------------------
(* poll_next *)

Yield(event) ==
  /\ events' = Append(events, event)
  /\ terminal' = (event # "frame")

(* Variant: every frame that is taken empties the buffer. *)
ClearedAfter(event, rest) == <<>>

(* What stays in the buffer: a terminal event drops whatever follows. *)
LeftAfter(event, rest) == IF event \in {"completed", "failed"} THEN <<>> ELSE rest

(* The first complete frame of the buffer is taken out and decoded: one turn of *)
(* the loop, which returns only with an event.                                  *)
TakeFrame ==
  /\ ~ terminal
  /\ FrameEnds(buffer) # {}
  /\ LET end   == Min(FrameEnds(buffer))
         line  == LineBefore(buffer, end)
         event == Decoded(SubSeq(buffer, 1, end - Len(line) - 1))
     IN  /\ IF event = "nothing" THEN UNCHANGED <<events, terminal>> ELSE Yield(event)
         /\ buffer' = LeftAfter(event, SubSeq(buffer, end + 1, Len(buffer)))
  /\ UNCHANGED <<sent, source, broken>>

(* Variant: the room that is left is not taken into account. *)
FitsAlone(n) == n <= MaxFrame

Fits(n) == n <= MaxFrame - Len(buffer)

(* Without a complete frame the next chunk is read. One that does not fit      *)
(* fails the stream; the check of the buffer alone that precedes the read      *)
(* never fires, since no more than the limit is ever put into it.              *)
ReadChunk(n) ==
  /\ ~ terminal /\ ~ broken
  /\ FrameEnds(buffer) = {}
  /\ n <= Len(source)
  /\ source' = SubSeq(source, n + 1, Len(source))
  /\ IF Fits(n)
       THEN /\ buffer' = buffer \o SubSeq(source, 1, n)
            /\ UNCHANGED <<events, terminal>>
       ELSE /\ buffer' = <<>>
            /\ Yield("failed")
  /\ UNCHANGED <<sent, broken>>

(* Variant: a clean end is taken for a completion. *)
EventAtCleanEnd == IF broken THEN "failed" ELSE "completed"

EventAtEnd == "failed"

(* Variant: the end of the bytes is taken for a pause. *)
IsBroken == broken

IsOver == source = <<>> \/ broken

(* The upstream is at its end or its transport fails: never a completion. *)
SourceEnds ==
  /\ ~ terminal
  /\ FrameEnds(buffer) = {}
  /\ IsOver
  /\ buffer' = <<>>
  /\ Yield(EventAtEnd)
  /\ UNCHANGED <<sent, source, broken>>

(* The transport fails. *)
Break ==
  /\ ~ terminal /\ ~ broken
  /\ broken' = TRUE
  /\ UNCHANGED <<sent, source, buffer, terminal, events>>

Next ==
  \/ TakeFrame
  \/ \E n \in 1 .. MaxChunk : ReadChunk(n)
  \/ SourceEnds
  \/ Break

Spec == Init /\ [][Next]_vars

(* The consumer keeps polling and the upstream sends or closes. *)
Fairness == WF_vars(TakeFrame \/ (\E n \in 1 .. MaxChunk : ReadChunk(n)) \/ SourceEnds)

FairSpec == Spec /\ Fairness

-----------------------------------------------------------------------------
(* What the bytes say as a whole, not cut into chunks *)

(* What the frame says that the line end e closes: the bytes from the end of    *)
(* the frame before, without the empty line.                                    *)
Says(bytes, e) ==
  LET before == {i \in FrameEnds(bytes) : i < e}
      first  == IF before = {} THEN 1 ELSE Max(before) + 1
  IN  Decoded(SubSeq(bytes, first, e - Len(LineBefore(bytes, e)) - 1))

Speaking(bytes) == {e \in FrameEnds(bytes) : Says(bytes, e) # "nothing"}

(* What the frames say, in their order. *)
Said(bytes) ==
  LET ends == Ascending(Speaking(bytes))
  IN  [i \in DOMAIN ends |-> Says(bytes, ends[i])]

(* The events of the bytes up to the first terminal one; bytes that end without *)
(* one have failed.                                                             *)
Meaning(bytes) ==
  LET said  == Said(bytes)
      final == {i \in DOMAIN said : said[i] # "frame"}
  IN  IF final = {} THEN Append(said, "failed") ELSE SubSeq(said, 1, Min(final))

-----------------------------------------------------------------------------
(* Properties *)

(* "A stream has exactly one terminal event": the events are those of the whole *)
(* bytes so far, however they were cut, except that a transport failure or the  *)
(* limit may fail the stream early. In particular it is completed by [DONE]     *)
(* only, and nothing follows a terminal event.                                  *)
NothingInvented ==
  LET meaning == Meaning(sent)
  IN  \/ IsPrefix(events, meaning)
      \/ terminal /\ Last(events) = "failed" /\ IsStrictPrefix(Front(events), meaning)

(* Bytes that cannot exceed the limit and arrive are decoded to the end: no     *)
(* frame is lost or read twice where a chunk ends inside it, or inside the      *)
(* line that closes it.                                                         *)
NothingMissed ==
  (terminal /\ ~ broken /\ Len(sent) <= MaxFrame) => events = Meaning(sent)

(* A consumer that keeps polling gets a terminal event, whatever was sent. *)
Terminates == <> terminal
=============================================================================
