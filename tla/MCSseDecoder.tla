---------------------------- MODULE MCSseDecoder ----------------------------
(* The finite instance of SseDecoder. *)
EXTENDS SseDecoder

(* Frames as an upstream may write them: one payload, a payload that is the     *)
(* marker, an error, not JSON or cut in two, lines that are not data, a comment *)
(* that is not UTF-8, and both ways to end a line.                              *)
MCFrames == {
  <<"data:", "chunk", "LF", "LF">>,
  <<":", "LF", "data:", "chunk", "CR", "LF", "CR", "LF">>,
  <<"data:", "[DONE]", "CR", "LF", "LF">>,
  <<"data:", "error", "LF", "LF">>,
  <<"data:", "junk", "LF", "data:", "junk", "LF", "LF">>,
  <<":", "junk", "LF", "CR", "LF">>,
  <<":", "invalid", "LF", "LF">>,
  <<"data:", "LF", "LF">>,
  <<"LF">>}

(* What may follow one of them: nothing, a frame that is not closed, or frames. *)
MCRests == {
  <<>>,
  <<"data:", "chunk", "LF">>,
  <<"data:", "chunk", "CR", "CR", "LF">>,
  <<"data:", "[DONE]", "LF", "LF">>,
  <<"data:", "chunk", "LF", "LF", "data:", "[DONE]", "LF", "CR", "LF", "data:">>,
  <<"LF", "data:", "chunk", "CR", "LF", "CR", "LF", "data:", "error", "LF", "LF">>,
  <<":", "LF", "LF", "data:", "chunk", "LF", "LF", "data:", "[DONE]">>}

MCUpstreams == {frame \o rest : frame \in MCFrames, rest \in MCRests}
=============================================================================
