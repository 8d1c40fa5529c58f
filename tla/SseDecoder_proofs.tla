------------------------- MODULE SseDecoder_proofs -------------------------
(***************************************************************************)
(* What holds of the decoder for all upstreams, limits and chunk sizes: its *)
(* buffer is bounded, it reads every byte once and in order, and what it    *)
(* yields is what the bytes mean as a whole.                                *)
(***************************************************************************)
EXTENDS SseDecoder, AscendingOrder_proofs, SequenceTheorems, TLAPS

(* A suffix agrees with the sequence from its end on. *)
LEMMA SuffixMeans ==
  ASSUME NEW S, NEW s \in Seq(S), NEW t \in Seq(S)
  PROVE  IsSuffix(s, t) <=>
           /\ Len(s) <= Len(t)
           /\ \A i \in 1 .. Len(s) : s[Len(s) - i + 1] = t[Len(t) - i + 1]
<1>1. /\ Reverse(s) \in Seq(S) /\ Len(Reverse(s)) = Len(s)
      /\ \A i \in 1 .. Len(s) : Reverse(s)[i] = s[Len(s) - i + 1]
  BY DEF Reverse
<1>2. /\ Reverse(t) \in Seq(S) /\ Len(Reverse(t)) = Len(t)
      /\ \A i \in 1 .. Len(t) : Reverse(t)[i] = t[Len(t) - i + 1]
  BY DEF Reverse
<1>3. CASE Len(s) <= Len(t)
  <2> DEFINE u == SubSeq(Reverse(s), 1, Len(s))
             v == SubSeq(Reverse(t), 1, Len(s))
  <2>1. /\ u \in Seq(S) /\ Len(u) = Len(s)
        /\ \A i \in 1 .. Len(s) : u[i] = Reverse(s)[i]
    BY <1>1
  <2>2. /\ v \in Seq(S) /\ Len(v) = Len(s)
        /\ \A i \in 1 .. Len(s) : v[i] = Reverse(t)[i]
    BY <1>2, <1>3
  <2> HIDE DEF u, v
  <2>3. u = v <=> \A i \in 1 .. Len(s) : u[i] = v[i]
    BY <2>1, <2>2, SeqEqual
  <2>4. IsSuffix(s, t) <=> u = v
    BY <1>1, <1>2, <1>3 DEF IsSuffix, IsPrefix, u, v
  <2>5. \A i \in 1 .. Len(s) : i \in 1 .. Len(t)
    BY <1>3
  <2>6. QED
    BY <1>1, <1>2, <1>3, <2>1, <2>2, <2>3, <2>4, <2>5
<1>4. CASE ~ Len(s) <= Len(t)
  BY <1>1, <1>2, <1>4 DEF IsSuffix, IsPrefix
<1>5. QED
  BY <1>3, <1>4

(* Dropping from the front of a suffix leaves a suffix. *)
LEMMA DroppedSuffix ==
  ASSUME NEW S, NEW s \in Seq(S), NEW t \in Seq(S), IsSuffix(s, t), NEW n \in 0 .. Len(s)
  PROVE  /\ SubSeq(s, n + 1, Len(s)) \in Seq(S)
         /\ IsSuffix(SubSeq(s, n + 1, Len(s)), t)
<1> DEFINE rest == SubSeq(s, n + 1, Len(s))
<1>1. /\ rest \in Seq(S) /\ Len(rest) = Len(s) - n
      /\ \A i \in 1 .. Len(rest) : rest[i] = s[n + i]
  OBVIOUS
<1> HIDE DEF rest
<1>2. /\ Len(s) <= Len(t)
      /\ \A i \in 1 .. Len(s) : s[Len(s) - i + 1] = t[Len(t) - i + 1]
  BY SuffixMeans
<1>3. ASSUME NEW i \in 1 .. Len(rest)
      PROVE  rest[Len(rest) - i + 1] = t[Len(t) - i + 1]
  <2>1. Len(rest) - i + 1 \in 1 .. Len(rest)
    BY <1>1
  <2>2. rest[Len(rest) - i + 1] = s[n + (Len(rest) - i + 1)]
    BY <1>1, <2>1
  <2>3. n + (Len(rest) - i + 1) = Len(s) - i + 1 /\ i \in 1 .. Len(s)
    BY <1>1
  <2>4. QED
    BY <1>2, <2>2, <2>3
<1>4. Len(rest) <= Len(t)
  BY <1>1, <1>2
<1>5. QED
  BY <1>1, <1>3, <1>4, SuffixMeans DEF rest

(* The first line end that completes a frame exists. *)
LEMMA FirstEnd ==
  ASSUME NEW bytes \in Seq(Tokens), FrameEnds(bytes) # {}
  PROVE  Min(FrameEnds(bytes)) \in 1 .. Len(bytes)
<1>1. FrameEnds(bytes) \subseteq 1 .. Len(bytes)
  BY DEF FrameEnds
<1>2. FrameEnds(bytes) \subseteq Nat
  BY <1>1
<1>3. \E i \in FrameEnds(bytes) : \A j \in FrameEnds(bytes) : i <= j
  BY <1>2, SmallestOf
<1>4. Min(FrameEnds(bytes)) \in FrameEnds(bytes)
  BY <1>3 DEF Min
<1>5. QED
  BY <1>1, <1>4

-----------------------------------------------------------------------------
(* Types *)

LEMMA TypeInit == Init => TypeOK
<1> SUFFICES ASSUME Init PROVE TypeOK
  OBVIOUS
<1>1. sent \in Seq(Tokens) /\ source = sent
  BY ConstantsAssumption DEF Init
<1>2. IsSuffix(source, sent)
  BY <1>1, SuffixMeans
<1>3. buffer = <<>> /\ events = <<>> /\ broken = FALSE /\ terminal = FALSE
  BY DEF Init
<1>4. buffer \in Seq(Tokens) /\ Len(buffer) <= MaxFrame /\ events \in Seq(Events)
  BY <1>3, ConstantsAssumption
<1>5. QED
  BY <1>1, <1>2, <1>3, <1>4 DEF TypeOK

LEMMA YieldTypes ==
  ASSUME TypeOK, NEW event \in Events, Yield(event)
  PROVE  events' \in Seq(Events) /\ terminal' \in BOOLEAN
BY DEF TypeOK, Yield

(* Reading takes a chunk off the front of what is left. *)
LEMMA ReadTypes ==
  ASSUME TypeOK, NEW n \in 1 .. MaxChunk, n <= Len(source)
  PROVE  /\ IsSuffix(SubSeq(source, n + 1, Len(source)), sent)
         /\ SubSeq(source, n + 1, Len(source)) \in Seq(Tokens)
         /\ SubSeq(source, 1, n) \in Seq(Tokens)
         /\ Len(SubSeq(source, 1, n)) = n
<1>1. n \in 0 .. Len(source) /\ source \in Seq(Tokens) /\ sent \in Seq(Tokens)
  BY ConstantsAssumption DEF TypeOK
<1>2. SubSeq(source, 1, n) \in Seq(Tokens) /\ Len(SubSeq(source, 1, n)) = n
  BY <1>1
<1>3. QED
  BY <1>1, <1>2, DroppedSuffix DEF TypeOK

LEMMA TypeStep == TypeOK /\ [Next]_vars => TypeOK'
<1> SUFFICES ASSUME TypeOK, [Next]_vars PROVE TypeOK'
  OBVIOUS
<1>1. CASE TakeFrame
  <2> DEFINE end   == Min(FrameEnds(buffer))
             line  == LineBefore(buffer, end)
             event == Decoded(SubSeq(buffer, 1, end - Len(line) - 1))
             rest  == SubSeq(buffer, end + 1, Len(buffer))
  <2>1. end \in 1 .. Len(buffer)
    BY <1>1, FirstEnd DEF TypeOK, TakeFrame
  <2>2. event \in {"nothing", "completed", "frame", "failed"}
    BY DEF Decoded
  <2>3. /\ IF event = "nothing" THEN UNCHANGED <<events, terminal>> ELSE Yield(event)
        /\ buffer' = LeftAfter(event, rest)
        /\ UNCHANGED <<sent, source, broken>>
    BY <1>1 DEF TakeFrame
  <2>4. buffer \in Seq(Tokens) /\ Len(buffer) \in Nat /\ Len(buffer) <= MaxFrame
    BY DEF TypeOK
  <2> HIDE DEF end, event
  <2>5. rest \in Seq(Tokens) /\ Len(rest) = Len(buffer) - end
    BY <2>1, <2>4
  <2> HIDE DEF rest
  <2>6. buffer' \in Seq(Tokens) /\ Len(buffer') <= MaxFrame
    BY <2>1, <2>3, <2>4, <2>5, ConstantsAssumption DEF LeftAfter
  <2>7. events' \in Seq(Events) /\ terminal' \in BOOLEAN
    BY <2>2, <2>3, YieldTypes DEF TypeOK, Events
  <2>8. QED
    BY <2>3, <2>6, <2>7 DEF TypeOK
<1>2. ASSUME NEW n \in 1 .. MaxChunk, ReadChunk(n) PROVE TypeOK'
  <2>1. n <= Len(source)
    BY <1>2 DEF ReadChunk
  <2>2. /\ source' = SubSeq(source, n + 1, Len(source))
        /\ UNCHANGED <<sent, broken>>
    BY <1>2 DEF ReadChunk
  <2>3. source' \in Seq(Tokens) /\ IsSuffix(source', sent')
    BY <2>1, <2>2, ReadTypes
  <2>4. CASE Fits(n)
    <3>1. buffer' = buffer \o SubSeq(source, 1, n) /\ UNCHANGED <<events, terminal>>
      BY <1>2, <2>4 DEF ReadChunk
    <3>2. Len(buffer') = Len(buffer) + n /\ buffer' \in Seq(Tokens)
      BY <2>1, <3>1, ReadTypes DEF TypeOK
    <3>3. Len(buffer') <= MaxFrame
      BY <2>4, <3>2, ConstantsAssumption DEF Fits, TypeOK
    <3>4. QED
      BY <2>2, <2>3, <3>1, <3>2, <3>3 DEF TypeOK
  <2>5. CASE ~ Fits(n)
    <3>1. buffer' = <<>> /\ Yield("failed")
      BY <1>2, <2>5 DEF ReadChunk
    <3>2. events' \in Seq(Events) /\ terminal' \in BOOLEAN
      BY <3>1, YieldTypes DEF Events
    <3>3. QED
      BY <2>2, <2>3, <3>1, <3>2, ConstantsAssumption DEF TypeOK
  <2>6. QED
    BY <2>4, <2>5
<1>3. CASE SourceEnds
  <2>1. buffer' = <<>> /\ Yield("failed") /\ UNCHANGED <<sent, source, broken>>
    BY <1>3 DEF SourceEnds, EventAtEnd
  <2>2. events' \in Seq(Events) /\ terminal' \in BOOLEAN
    BY <2>1, YieldTypes DEF Events
  <2>3. QED
    BY <2>1, <2>2, ConstantsAssumption DEF TypeOK
<1>4. CASE Break \/ UNCHANGED vars
  BY <1>4 DEF Break, vars, TypeOK
<1>5. QED
  BY <1>1, <1>2, <1>3, <1>4 DEF Next

(* The buffer never exceeds the limit, whatever is sent and however it is cut,  *)
(* and what is left to read is the end of what was sent.                        *)
THEOREM TypeCorrect == Spec => []TypeOK
BY TypeInit, TypeStep, PTL DEF Spec

-----------------------------------------------------------------------------
(* Bytes and terminal events *)

(* What is buffered and what is still to be read are, together, the end of what *)
(* was sent.                                                                    *)
BytesInOrder == ~ terminal => IsSuffix(buffer \o source, sent)

LEMMA Regrouped ==
  ASSUME NEW s \in Seq(Tokens), NEW t \in Seq(Tokens), NEW u \in Seq(Tokens)
  PROVE  (s \o t) \o u = s \o (t \o u)
BY ConcatAssociative

LEMMA BytesStep == TypeOK /\ BytesInOrder /\ [Next]_vars => BytesInOrder'
<1> SUFFICES ASSUME TypeOK, BytesInOrder, [Next]_vars, ~ terminal'
             PROVE  IsSuffix(buffer' \o source', sent')
  BY DEF BytesInOrder
<1>1. buffer \in Seq(Tokens) /\ source \in Seq(Tokens) /\ sent \in Seq(Tokens)
  BY DEF TypeOK
<1>2. CASE TakeFrame
  <2> DEFINE end   == Min(FrameEnds(buffer))
             line  == LineBefore(buffer, end)
             event == Decoded(SubSeq(buffer, 1, end - Len(line) - 1))
             rest  == SubSeq(buffer, end + 1, Len(buffer))
  <2>1. end \in 1 .. Len(buffer)
    BY <1>1, <1>2, FirstEnd DEF TakeFrame
  <2>2. /\ IF event = "nothing" THEN UNCHANGED <<events, terminal>> ELSE Yield(event)
        /\ buffer' = LeftAfter(event, rest)
        /\ UNCHANGED <<sent, source>>
        /\ ~ terminal
    BY <1>2 DEF TakeFrame
  <2> HIDE DEF end, event
  <2>3. event \notin {"completed", "failed"}
    BY <2>2 DEF Yield
  <2>4. buffer' = rest
    BY <2>2, <2>3 DEF LeftAfter
  <2>5. /\ rest \in Seq(Tokens) /\ Len(rest) = Len(buffer) - end
        /\ \A i \in 1 .. Len(rest) : rest[i] = buffer[end + i]
    BY <1>1, <2>1
  <2> HIDE DEF rest
  <2> DEFINE all  == buffer \o source
             left == SubSeq(all, end + 1, Len(all))
  <2>6. /\ all \in Seq(Tokens) /\ Len(all) = Len(buffer) + Len(source)
        /\ \A i \in 1 .. Len(all) :
             all[i] = IF i <= Len(buffer) THEN buffer[i] ELSE source[i - Len(buffer)]
    BY <1>1
  <2>7. IsSuffix(all, sent)
    BY <2>2 DEF BytesInOrder
  <2> HIDE DEF all
  <2>8. left \in Seq(Tokens) /\ IsSuffix(left, sent)
    <3>1. end \in 0 .. Len(all)
      BY <1>1, <2>1, <2>6
    <3>2. QED
      BY <1>1, <2>6, <2>7, <3>1, DroppedSuffix
  <2>9. Len(left) = Len(all) - end /\ \A i \in 1 .. Len(left) : left[i] = all[end + i]
    BY <2>1, <2>6
  <2> HIDE DEF left
  <2>10. rest \o source = left
    <3>1. /\ rest \o source \in Seq(Tokens)
          /\ Len(rest \o source) = Len(rest) + Len(source)
          /\ \A i \in 1 .. Len(rest \o source) :
               (rest \o source)[i] = IF i <= Len(rest) THEN rest[i] ELSE source[i - Len(rest)]
      BY <1>1, <2>5
    <3>2. Len(rest \o source) = Len(left)
      BY <1>1, <2>1, <2>5, <2>6, <2>9, <3>1
    <3>3. ASSUME NEW i \in 1 .. Len(left) PROVE (rest \o source)[i] = left[i]
      <4>1. end + i \in 1 .. Len(all) /\ left[i] = all[end + i]
        BY <1>1, <2>1, <2>6, <2>9
      <4>2. CASE i <= Len(rest)
        BY <1>1, <2>1, <2>5, <2>6, <3>1, <3>2, <4>1, <4>2
      <4>3. CASE ~ i <= Len(rest)
        <5>1. (end + i) - Len(buffer) = i - Len(rest) /\ ~ end + i <= Len(buffer)
          BY <1>1, <2>1, <2>5, <4>3
        <5>2. QED
          BY <2>6, <3>1, <3>2, <4>1, <4>3, <5>1
      <4>4. QED
        BY <4>2, <4>3
    <3>4. QED
      BY <2>8, <3>1, <3>2, <3>3, SeqEqual
  <2>11. QED
    BY <2>2, <2>4, <2>8, <2>10
<1>3. ASSUME NEW n \in 1 .. MaxChunk, ReadChunk(n)
      PROVE  IsSuffix(buffer' \o source', sent')
  <2>1. /\ n \in 0 .. Len(source)
        /\ source' = SubSeq(source, n + 1, Len(source))
        /\ UNCHANGED sent
        /\ ~ terminal
    BY <1>1, <1>3, ConstantsAssumption DEF ReadChunk
  <2>2. buffer' = buffer \o SubSeq(source, 1, n)
    BY <1>3 DEF ReadChunk, Yield
  <2>3. SubSeq(source, 1, n) \o SubSeq(source, n + 1, Len(source)) = source
    <3> DEFINE s1 == SubSeq(source, 1, n)
               s2 == SubSeq(source, n + 1, Len(source))
    <3>1. /\ s1 \in Seq(Tokens) /\ Len(s1) = n
          /\ \A i \in 1 .. n : s1[i] = source[i]
      BY <1>1, <2>1
    <3>2. /\ s2 \in Seq(Tokens) /\ Len(s2) = Len(source) - n
          /\ \A i \in 1 .. Len(s2) : s2[i] = source[n + i]
      BY <1>1, <2>1
    <3> HIDE DEF s1, s2
    <3> n \in Nat /\ Len(source) \in Nat /\ n <= Len(source)
      BY <1>1, <2>1
    <3>3. /\ s1 \o s2 \in Seq(Tokens) /\ Len(s1 \o s2) = Len(s1) + Len(s2)
          /\ \A i \in 1 .. Len(s1 \o s2) :
               (s1 \o s2)[i] = IF i <= Len(s1) THEN s1[i] ELSE s2[i - Len(s1)]
      BY <3>1, <3>2
    <3>4. ASSUME NEW i \in 1 .. Len(source) PROVE (s1 \o s2)[i] = source[i]
      <4>1. CASE i <= n
        BY <3>1, <3>2, <3>3, <4>1
      <4>2. CASE ~ i <= n
        <5>1. i - n \in 1 .. Len(s2) /\ n + (i - n) = i
          BY <3>2, <4>2
        <5>2. QED
          BY <3>1, <3>2, <3>3, <4>2, <5>1
      <4>3. QED
        BY <4>1, <4>2
    <3>5. Len(s1 \o s2) = Len(source)
      BY <3>1, <3>2, <3>3
    <3>6. s1 \o s2 = source
      BY <1>1, <3>3, <3>4, <3>5, SeqEqual
    <3>7. QED
      BY <3>6 DEF s1, s2
  <2>4. buffer' \o source' = buffer \o source
    <3>1. /\ SubSeq(source, 1, n) \in Seq(Tokens)
          /\ SubSeq(source, n + 1, Len(source)) \in Seq(Tokens)
      BY <1>1, <2>1
    <3>2. (buffer \o SubSeq(source, 1, n)) \o SubSeq(source, n + 1, Len(source))
            = buffer \o (SubSeq(source, 1, n) \o SubSeq(source, n + 1, Len(source)))
      BY <1>1, <3>1, Regrouped
    <3>3. QED
      BY <2>1, <2>2, <2>3, <3>2
  <2>5. QED
    BY <2>1, <2>4 DEF BytesInOrder
<1>4. CASE SourceEnds
  BY <1>4 DEF SourceEnds, Yield, EventAtEnd
<1>5. CASE Break \/ UNCHANGED vars
  BY <1>5 DEF Break, vars, BytesInOrder
<1>6. QED
  BY <1>2, <1>3, <1>4, <1>5 DEF Next

(* However the bytes are cut and whatever frames they make, none is lost, read  *)
(* twice or moved before the stream has ended.                                  *)
THEOREM BytesStayInOrder == Spec => []BytesInOrder
<1>1. Init => BytesInOrder
  <2> SUFFICES ASSUME Init PROVE IsSuffix(buffer \o source, sent)
    BY DEF BytesInOrder
  <2>1. TypeOK /\ buffer = <<>> /\ source = sent
    BY TypeInit DEF Init
  <2>2. buffer \o source = source
    BY <2>1 DEF TypeOK
  <2>3. QED
    BY <2>1, <2>2 DEF TypeOK
<1>2. QED
  BY <1>1, BytesStep, TypeCorrect, PTL DEF Spec

(* The events of a stream: frames, and a terminal event at the end only. *)
OneTerminalEvent ==
  /\ \A i \in 1 .. Len(events) : i < Len(events) \/ ~ terminal => events[i] = "frame"
  /\ terminal => Len(events) > 0 /\ events[Len(events)] \in {"completed", "failed"}

LEMMA YieldKeeps ==
  ASSUME TypeOK, OneTerminalEvent, ~ terminal, NEW event \in Events, Yield(event)
  PROVE  OneTerminalEvent'
<1>1. events \in Seq(Events) /\ Len(events) \in Nat
  BY DEF TypeOK
<1>2. /\ Len(events') = Len(events) + 1
      /\ \A i \in 1 .. Len(events) : events'[i] = events[i]
      /\ events'[Len(events')] = event
  BY <1>1 DEF Yield
<1>3. \A i \in 1 .. Len(events) : events[i] = "frame"
  BY DEF OneTerminalEvent
<1>4. terminal' <=> event # "frame"
  BY DEF Yield
<1>5. \A i \in 1 .. Len(events') : i < Len(events') \/ ~ terminal' => events'[i] = "frame"
  BY <1>1, <1>2, <1>3, <1>4
<1>6. terminal' => Len(events') > 0 /\ events'[Len(events')] \in {"completed", "failed"}
  BY <1>1, <1>2, <1>4 DEF Events
<1>7. QED
  BY <1>5, <1>6 DEF OneTerminalEvent

LEMMA TerminalStep == TypeOK /\ OneTerminalEvent /\ [Next]_vars => OneTerminalEvent'
<1> SUFFICES ASSUME TypeOK, OneTerminalEvent, [Next]_vars PROVE OneTerminalEvent'
  OBVIOUS
<1>1. CASE UNCHANGED <<events, terminal>>
  BY <1>1 DEF OneTerminalEvent
<1>2. CASE TakeFrame
  <2> DEFINE end   == Min(FrameEnds(buffer))
             line  == LineBefore(buffer, end)
             event == Decoded(SubSeq(buffer, 1, end - Len(line) - 1))
  <2>1. ~ terminal /\ (UNCHANGED <<events, terminal>> \/ (event # "nothing" /\ Yield(event)))
    BY <1>2 DEF TakeFrame
  <2>2. event \in {"nothing", "completed", "frame", "failed"}
    BY DEF Decoded
  <2> HIDE DEF event
  <2>3. QED
    BY <1>1, <2>1, <2>2, YieldKeeps DEF Events
<1>3. ASSUME NEW n \in 1 .. MaxChunk, ReadChunk(n) PROVE OneTerminalEvent'
  <2>1. ~ terminal /\ (UNCHANGED <<events, terminal>> \/ Yield("failed"))
    BY <1>3 DEF ReadChunk
  <2>2. QED
    BY <1>1, <2>1, YieldKeeps DEF Events
<1>4. CASE SourceEnds
  <2>1. ~ terminal /\ Yield("failed")
    BY <1>4 DEF SourceEnds, EventAtEnd
  <2>2. QED
    BY <2>1, YieldKeeps DEF Events
<1>5. CASE Break \/ UNCHANGED vars
  BY <1>1, <1>5 DEF Break, vars
<1>6. QED
  BY <1>2, <1>3, <1>4, <1>5 DEF Next

(* "A stream has exactly one terminal event", and no event follows it: also     *)
(* when bytes follow [DONE], when the limit is hit, and when the source breaks. *)
THEOREM OneTerminal == Spec => []OneTerminalEvent
<1>1. Init => OneTerminalEvent
  BY DEF Init, OneTerminalEvent
<1>2. QED
  BY <1>1, TerminalStep, TypeCorrect, PTL DEF Spec

-----------------------------------------------------------------------------
(* The buffer as a part of what was sent *)

(* part is what follows the first k of the bytes, where a line begins. *)
IsPart(part, bytes, k) ==
  /\ k \in Nat /\ k + Len(part) <= Len(bytes)
  /\ \A i \in 1 .. Len(part) : part[i] = bytes[k + i]
  /\ k # 0 => bytes[k] = "LF"

LEMMA MaxIs ==
  ASSUME NEW S \in SUBSET Int, NEW m \in S, \A n \in S : n <= m
  PROVE  Max(S) = m
<1>1. \A n \in S : n \in Int
  OBVIOUS
<1>2. \A x \in S : (\A y \in S : x >= y) => x = m
  BY <1>1
<1>3. \A y \in S : m >= y
  BY <1>1
<1>4. QED
  BY <1>2, <1>3 DEF Max

LEMMA MinIs ==
  ASSUME NEW S \in SUBSET Int, NEW m \in S, \A n \in S : m <= n
  PROVE  Min(S) = m
<1>1. \A n \in S : n \in Int
  OBVIOUS
<1>2. \A x \in S : (\A y \in S : x <= y) => x = m
  BY <1>1
<1>3. QED
  BY <1>2 DEF Min

(* What lies between a and b, counted from k. *)
Window(bytes, k, a, b) == SubSeq(bytes, k + a, k + b)

LEMMA SamePart ==
  ASSUME NEW part \in Seq(Tokens), NEW bytes \in Seq(Tokens), NEW k \in Nat, IsPart(part, bytes, k),
         NEW a \in Nat, a # 0, NEW b \in Int, b <= Len(part)
  PROVE  SubSeq(part, a, b) = Window(bytes, k, a, b)
<1>1. k \in Nat /\ k + Len(part) <= Len(bytes) /\ Len(part) \in Nat /\ Len(bytes) \in Nat
  BY DEF IsPart
<1> DEFINE u == SubSeq(part, a, b)
           v == SubSeq(bytes, k + a, k + b)
<1>2. CASE a <= b
  <2>1. /\ u \in Seq(Tokens) /\ Len(u) = b - a + 1
        /\ \A i \in 1 .. b - a + 1 : u[i] = part[a + i - 1]
    BY <1>1, <1>2
  <2>2. /\ v \in Seq(Tokens) /\ Len(v) = b - a + 1
        /\ \A i \in 1 .. b - a + 1 : v[i] = bytes[(k + a) + i - 1]
    BY <1>1, <1>2
  <2> HIDE DEF u, v
  <2>3. ASSUME NEW i \in 1 .. b - a + 1 PROVE u[i] = v[i]
    <3>1. a + i - 1 \in 1 .. Len(part) /\ k + (a + i - 1) = (k + a) + i - 1
      BY <1>1, <1>2
    <3>2. part[a + i - 1] = bytes[(k + a) + i - 1]
      BY <3>1 DEF IsPart
    <3>3. QED
      BY <2>1, <2>2, <3>2
  <2>4. u = v
    BY <2>1, <2>2, <2>3, SeqEqual
  <2>5. QED
    BY <2>4 DEF u, v, Window
<1>3. CASE b < a
  <2>1. u = <<>> /\ v = <<>>
    BY <1>1, <1>3
  <2>2. QED
    BY <2>1 DEF Window
<1>4. a <= b \/ b < a
  OBVIOUS
<1>5. QED
  BY <1>2, <1>3, <1>4, Zenon

LEMMA SameLine ==
  ASSUME NEW part \in Seq(Tokens), NEW bytes \in Seq(Tokens), NEW k \in Nat, IsPart(part, bytes, k),
         NEW i \in 1 .. Len(part)
  PROVE  LineBefore(part, i) = LineBefore(bytes, k + i)
<1> DEFINE near  == {j \in 1 .. i - 1 : part[j] = "LF"}
           far   == {j \in 1 .. (k + i) - 1 : bytes[j] = "LF"}
           first == IF near = {} THEN 1 ELSE Max(near) + 1
<1>1. /\ k \in Nat /\ k + Len(part) <= Len(bytes) /\ Len(part) \in Nat
      /\ \A j \in 1 .. i - 1 : part[j] = bytes[k + j]
  BY DEF IsPart
<1>2. near \in SUBSET Nat /\ far \in SUBSET Nat /\ far \in SUBSET Int
  BY <1>1
<1>3. \A j \in near : k + j \in far /\ j < i /\ j > 0
  BY <1>1
<1>4. \A j \in far : j > k => j - k \in near
  <2> SUFFICES ASSUME NEW j \in far, j > k PROVE j - k \in near
    OBVIOUS
  <2>1. j - k \in 1 .. i - 1 /\ k + (j - k) = j
    BY <1>1
  <2>2. QED
    BY <1>1, <2>1
<1>5. k # 0 => k \in far
  BY <1>1 DEF IsPart
<1>6. /\ first \in Nat \ {0} /\ first <= i
      /\ k + first = IF far = {} THEN 1 ELSE Max(far) + 1
  <2> HIDE DEF near, far
  <2>1. CASE near = {} /\ k = 0
    <3>1. far = {}
      BY <1>2, <1>4, <2>1 DEF far
    <3>2. QED
      BY <2>1, <3>1
  <2>2. CASE near = {} /\ k # 0
    <3>1. \A j \in far : j <= k
      BY <1>1, <1>2, <1>4, <2>2
    <3>2. Max(far) = k
      BY <1>2, <1>5, <2>2, <3>1, MaxIs
    <3>3. QED
      BY <1>1, <1>5, <2>2, <3>2
  <2>3. CASE near # {}
    <3>1. PICK m \in near : \A j \in near : j <= m
      <4>1. i \in Nat /\ \A j \in near : j <= i
        BY <1>1, <1>2, <1>3
      <4>2. QED
        BY <1>2, <2>3, <4>1, LargestOf
    <3>2. Max(near) = m /\ m \in Nat /\ m > 0 /\ m < i
      BY <1>2, <1>3, <3>1, MaxIs
    <3>3. k + m \in far
      BY <1>3
    <3>4. \A j \in far : j <= k + m
      BY <1>1, <1>2, <1>4, <3>1, <3>2
    <3>5. Max(far) = k + m
      BY <1>2, <3>3, <3>4, MaxIs
    <3>6. QED
      BY <1>1, <2>3, <3>2, <3>3, <3>5
  <2>4. QED
    BY <2>1, <2>2, <2>3
<1> HIDE DEF first
<1>7. SubSeq(part, first, i - 1) = SubSeq(bytes, k + first, (k + i) - 1)
  <2>1. i - 1 \in Int /\ i - 1 <= Len(part) /\ (k + i) - 1 = k + (i - 1)
    BY <1>1
  <2>2. SubSeq(part, first, i - 1) = Window(bytes, k, first, i - 1)
    BY <1>6, <2>1, SamePart
  <2>3. QED
    BY <2>1, <2>2 DEF Window
<1>8. QED
  BY <1>6, <1>7 DEF LineBefore, first

(* The frames of the part end where those of the bytes do. *)
LEMMA SameEnds ==
  ASSUME NEW part \in Seq(Tokens), NEW bytes \in Seq(Tokens), NEW k \in Nat, IsPart(part, bytes, k),
         NEW i \in 1 .. Len(part)
  PROVE  i \in FrameEnds(part) <=> k + i \in FrameEnds(bytes)
<1>1. k + i \in DOMAIN bytes /\ part[i] = bytes[k + i] /\ i \in DOMAIN part
  BY DEF IsPart
<1>2. QED
  BY <1>1, SameLine DEF FrameEnds

(* Of the first complete frame of the part: what it says, and the part after it. *)
LEMMA FirstFrame ==
  ASSUME NEW part \in Seq(Tokens), NEW bytes \in Seq(Tokens), NEW k \in Nat, IsPart(part, bytes, k),
         k # 0 => k \in FrameEnds(bytes), FrameEnds(part) # {}
  PROVE  LET end  == Min(FrameEnds(part))
             line == LineBefore(part, end)
         IN  /\ end \in 1 .. Len(part) /\ k + end \in FrameEnds(bytes)
             /\ \A e \in FrameEnds(bytes) : e < k + end => e <= k
             /\ Decoded(SubSeq(part, 1, end - Len(line) - 1)) = Says(bytes, k + end)
<1> DEFINE end    == Min(FrameEnds(part))
           line   == LineBefore(part, end)
           before == {i \in FrameEnds(bytes) : i < k + end}
<1>1. /\ k \in Nat /\ Len(part) \in Nat /\ Len(bytes) \in Nat
      /\ k + Len(part) <= Len(bytes)
  BY DEF IsPart
<1>2. FrameEnds(part) \in SUBSET Nat /\ FrameEnds(bytes) \in SUBSET Nat
  BY DEF FrameEnds
<1>3. end \in 1 .. Len(part) /\ end \in FrameEnds(part) /\ \A e \in FrameEnds(part) : end <= e
  <2>1. PICK m \in FrameEnds(part) : \A e \in FrameEnds(part) : m <= e
    BY <1>2, SmallestOf
  <2>2. end = m
    BY <1>2, <2>1, MinIs
  <2>3. QED
    BY <2>1, <2>2, FirstEnd
<1> HIDE DEF end
<1>4. k + end \in FrameEnds(bytes)
  BY <1>3, SameEnds
<1>5. ASSUME NEW e \in FrameEnds(bytes), e < k + end PROVE e <= k
  <2>1. SUFFICES ASSUME e > k PROVE FALSE
    BY <1>1, <1>2
  <2>2. e - k \in 1 .. Len(part) /\ k + (e - k) = e
    BY <1>1, <1>2, <1>3, <1>5, <2>1
  <2>3. e - k \in FrameEnds(part)
    BY <2>2, SameEnds
  <2>4. QED
    BY <1>1, <1>2, <1>3, <1>5, <2>3
<1>6. (IF before = {} THEN 1 ELSE Max(before) + 1) = k + 1
  <2>1. before \in SUBSET Int /\ \A e \in before : e <= k
    BY <1>2, <1>5
  <2>2. CASE k = 0
    <3>1. \A e \in FrameEnds(bytes) : e > 0
      BY DEF FrameEnds
    <3>2. before = {}
      BY <1>2, <2>1, <2>2, <3>1
    <3>3. QED
      BY <2>2, <3>2
  <2>3. CASE k # 0
    <3>1. k \in before
      BY <1>1, <1>3, <2>3
    <3> HIDE DEF before
    <3>2. Max(before) = k
      BY <2>1, <3>1, MaxIs
    <3>3. QED
      BY <3>1, <3>2
  <2>4. QED
    BY <2>2, <2>3
<1>7. line = LineBefore(bytes, k + end) /\ Len(line) \in Nat
  <2>1. line = LineBefore(bytes, k + end)
    BY <1>3, SameLine
  <2>2. line \in {<<>>, <<"CR">>}
    BY <1>3 DEF FrameEnds
  <2>3. QED
    BY <2>1, <2>2
<1> HIDE DEF line
<1>8. SubSeq(part, 1, end - Len(line) - 1) = SubSeq(bytes, k + 1, (k + end) - Len(line) - 1)
  <2>1. /\ end - Len(line) - 1 \in Int /\ end - Len(line) - 1 <= Len(part)
        /\ (k + end) - Len(line) - 1 = k + (end - Len(line) - 1)
    BY <1>1, <1>3, <1>7
  <2>2. \A b \in Int : b <= Len(part) => SubSeq(part, 1, b) = Window(bytes, k, 1, b)
    BY SamePart
  <2>3. QED
    BY <2>1, <2>2 DEF Window
<1>9. Decoded(SubSeq(part, 1, end - Len(line) - 1)) = Says(bytes, k + end)
  BY <1>6, <1>7, <1>8 DEF Says
<1>10. QED
  BY <1>3, <1>4, <1>5, <1>9 DEF end, line

-----------------------------------------------------------------------------
(* What the bytes mean *)

LEMMA SaidIsSequence ==
  ASSUME NEW bytes \in Seq(Tokens)
  PROVE  /\ FrameEnds(bytes) \in SUBSET Int
         /\ Speaking(bytes) \in SUBSET Int /\ IsFiniteSet(Speaking(bytes))
         /\ Said(bytes) \in Seq(Events)
         /\ Len(Said(bytes)) = Cardinality(Speaking(bytes))
         /\ \A e \in Speaking(bytes) :
              /\ Place(Speaking(bytes), e) \in 1 .. Len(Said(bytes))
              /\ Said(bytes)[Place(Speaking(bytes), e)] = Says(bytes, e)
<1> DEFINE ends == Speaking(bytes)
<1>1. Len(bytes) \in Nat /\ FrameEnds(bytes) \in SUBSET (1 .. Len(bytes))
  BY DEF FrameEnds
<1>2. ends \in SUBSET FrameEnds(bytes)
  BY DEF Speaking
<1>3. ends \in SUBSET Int /\ FrameEnds(bytes) \in SUBSET Int
  BY <1>1, <1>2
<1>4. IsFiniteSet(ends)
  <2>1. IsFiniteSet(1 .. Len(bytes)) /\ ends \in SUBSET (1 .. Len(bytes))
    BY <1>1, <1>2, FS_Interval
  <2> HIDE DEF ends
  <2>2. QED
    BY <2>1, FS_Subset
<1>5. \A e \in ends : Says(bytes, e) \in Events
  BY DEF Speaking, Says, Decoded, Events
<1> HIDE DEF ends
<1>6. /\ Cardinality(ends) \in Nat
      /\ Ascending(ends) \in [1 .. Cardinality(ends) -> ends]
  BY <1>3, <1>4, AscendingIsSorted
<1> DEFINE said == [i \in 1 .. Cardinality(ends) |-> Says(bytes, Ascending(ends)[i])]
<1>7. Said(bytes) = said
  BY <1>6 DEF Said, ends
<1>8. said \in [1 .. Cardinality(ends) -> Events]
  BY <1>5, <1>6
<1>9. said \in Seq(Events) /\ Len(said) = Cardinality(ends)
  BY <1>6, <1>8
<1>10. ASSUME NEW e \in ends
       PROVE  Place(ends, e) \in 1 .. Cardinality(ends) /\ said[Place(ends, e)] = Says(bytes, e)
  <2>1. Place(ends, e) \in 1 .. Cardinality(ends)
    BY <1>3, <1>4, PlaceIsIndex
  <2>2. Ascending(ends)[Place(ends, e)] = e
    BY <1>3, <1>4, AscendingFinds
  <2>3. QED
    BY <2>1, <2>2
<1> HIDE DEF said
<1>11. QED
  BY <1>3, <1>4, <1>7, <1>9, <1>10 DEF ends

(* Of events that are frames, as the first of those said are. *)
FirstFrames(frames, bytes) ==
  /\ frames \in Seq(Events) /\ Len(frames) <= Len(Said(bytes))
  /\ \A i \in 1 .. Len(frames) : frames[i] = "frame" /\ Said(bytes)[i] = "frame"

(* When all is said, the end of the bytes fails the stream. *)
LEMMA MeaningAtEnd ==
  ASSUME NEW bytes \in Seq(Tokens), NEW frames, FirstFrames(frames, bytes),
         Len(frames) = Len(Said(bytes))
  PROVE  Meaning(bytes) = Append(frames, "failed")
<1>1. /\ Said(bytes) \in Seq(Events) /\ frames \in Seq(Events)
      /\ Len(frames) \in Nat /\ Len(Said(bytes)) = Len(frames)
      /\ \A i \in 1 .. Len(frames) : frames[i] = Said(bytes)[i] /\ Said(bytes)[i] = "frame"
  BY SaidIsSequence DEF FirstFrames
<1>2. frames = Said(bytes)
  BY <1>1, SeqEqual
<1>3. {i \in DOMAIN Said(bytes) : Said(bytes)[i] # "frame"} = {}
  BY <1>1
<1>4. QED
  BY <1>2, <1>3 DEF Meaning

(* The first event that is no frame ends the stream. *)
LEMMA MeaningAtTerminal ==
  ASSUME NEW bytes \in Seq(Tokens), NEW frames, FirstFrames(frames, bytes),
         Len(frames) + 1 <= Len(Said(bytes)), Said(bytes)[Len(frames) + 1] # "frame"
  PROVE  Meaning(bytes) = Append(frames, Said(bytes)[Len(frames) + 1])
<1> DEFINE said  == Said(bytes)
           final == {i \in DOMAIN said : said[i] # "frame"}
<1>0. PICK n \in Nat : n = Len(frames)
  BY DEF FirstFrames
<1>1. /\ said \in Seq(Events) /\ frames \in Seq(Events) /\ n + 1 <= Len(said)
      /\ DOMAIN said = 1 .. Len(said) /\ Len(said) \in Nat
      /\ \A i \in 1 .. n : frames[i] = said[i] /\ said[i] = "frame"
  BY <1>0, SaidIsSequence DEF FirstFrames
<1>2. said[n + 1] # "frame"
  BY <1>0
<1> HIDE DEF said
<1>3. Min(final) = n + 1 /\ final # {}
  <2>1. n + 1 \in final /\ final \in SUBSET Int
    BY <1>1, <1>2
  <2>2. \A i \in final : n + 1 <= i
    BY <1>1
  <2> HIDE DEF final
  <2>3. QED
    BY <2>1, <2>2, MinIs
<1>4. Meaning(bytes) = SubSeq(said, 1, n + 1)
  BY <1>3 DEF Meaning, said
<1>5. /\ SubSeq(said, 1, n + 1) \in Seq(Events) /\ Len(SubSeq(said, 1, n + 1)) = n + 1
      /\ \A i \in 1 .. n + 1 : SubSeq(said, 1, n + 1)[i] = said[i]
  BY <1>1
<1>6. said[n + 1] \in Events
  BY <1>1
<1>7. /\ Append(frames, said[n + 1]) \in Seq(Events)
      /\ Len(Append(frames, said[n + 1])) = n + 1
      /\ \A i \in 1 .. n : Append(frames, said[n + 1])[i] = frames[i]
      /\ Append(frames, said[n + 1])[n + 1] = said[n + 1]
  BY <1>0, <1>1, <1>6
<1>8. \A i \in 1 .. n + 1 : SubSeq(said, 1, n + 1)[i] = Append(frames, said[n + 1])[i]
  <2>1. \A i \in 1 .. n + 1 : i \in 1 .. n \/ i = n + 1
    OBVIOUS
  <2>2. QED
    BY <1>1, <1>5, <1>7, <2>1
<1>9. SubSeq(said, 1, n + 1) = Append(frames, said[n + 1])
  BY <1>5, <1>7, <1>8, SeqEqual
<1>10. QED
  BY <1>0, <1>4, <1>9 DEF said

(* The frames so far are never all of the events. *)
LEMMA MeaningGoesOn ==
  ASSUME NEW bytes \in Seq(Tokens), NEW frames, FirstFrames(frames, bytes)
  PROVE  IsStrictPrefix(frames, Meaning(bytes))
<1> DEFINE said  == Said(bytes)
           final == {i \in DOMAIN said : said[i] # "frame"}
           all   == Meaning(bytes)
<1>0. PICK n \in Nat : n = Len(frames)
  BY DEF FirstFrames
<1>1. /\ said \in Seq(Events) /\ frames \in Seq(Events) /\ n <= Len(said)
      /\ DOMAIN said = 1 .. Len(said) /\ Len(said) \in Nat
      /\ \A i \in 1 .. n : frames[i] = said[i] /\ said[i] = "frame"
  BY <1>0, SaidIsSequence DEF FirstFrames
<1> HIDE DEF said
<1>2. all \in Seq(Events) /\ n < Len(all) /\ \A i \in 1 .. n : all[i] = said[i]
  <2>1. CASE final = {}
    <3>1. all = Append(said, "failed")
      BY <2>1 DEF Meaning, said
    <3>2. /\ Append(said, "failed") \in Seq(Events)
          /\ Len(Append(said, "failed")) = Len(said) + 1
          /\ \A i \in 1 .. Len(said) : Append(said, "failed")[i] = said[i]
      BY <1>1 DEF Events
    <3>3. QED
      BY <1>1, <3>1, <3>2
  <2>2. CASE final # {}
    <3>1. PICK m \in final : \A i \in final : m <= i
      <4>1. final \in SUBSET Nat
        BY <1>1
      <4> HIDE DEF final
      <4>2. QED
        BY <2>2, <4>1, SmallestOf
    <3>2. Min(final) = m
      <4>1. final \in SUBSET Int
        BY <1>1
      <4> HIDE DEF final
      <4>2. QED
        BY <3>1, <4>1, MinIs
    <3>3. all = SubSeq(said, 1, m)
      BY <2>2, <3>2 DEF Meaning, said
    <3>4. m \in 1 .. Len(said) /\ n < m
      BY <1>1, <3>1
    <3>5. /\ SubSeq(said, 1, m) \in Seq(Events) /\ Len(SubSeq(said, 1, m)) = m
          /\ \A i \in 1 .. m : SubSeq(said, 1, m)[i] = said[i]
      BY <1>1, <3>4
    <3>6. QED
      BY <3>3, <3>4, <3>5
  <2>3. QED
    BY <2>1, <2>2
<1> HIDE DEF all
<1>3. IsPrefix(frames, all)
  <2>1. /\ SubSeq(frames, 1, n) \in Seq(Events) /\ Len(SubSeq(frames, 1, n)) = n
        /\ \A i \in 1 .. n : SubSeq(frames, 1, n)[i] = frames[i]
    BY <1>0, <1>1
  <2>2. /\ SubSeq(all, 1, n) \in Seq(Events) /\ Len(SubSeq(all, 1, n)) = n
        /\ \A i \in 1 .. n : SubSeq(all, 1, n)[i] = all[i]
    BY <1>2
  <2>3. SubSeq(frames, 1, n) = SubSeq(all, 1, n)
    <3>1. \A i \in 1 .. n : SubSeq(frames, 1, n)[i] = SubSeq(all, 1, n)[i]
      BY <1>1, <1>2, <2>1, <2>2
    <3>2. QED
      BY <2>1, <2>2, <3>1, SeqEqual
  <2>4. n <= Len(all)
    BY <1>2
  <2>5. QED
    BY <1>0, <2>3, <2>4 DEF IsPrefix
<1>4. frames # all
  BY <1>0, <1>2
<1>5. QED
  BY <1>3, <1>4 DEF IsStrictPrefix, all

-----------------------------------------------------------------------------
(* The events are what the bytes mean *)

(* How much of what was sent has been decoded. *)
Decided == Len(sent) - Len(buffer) - Len(source)

(* While the stream goes on: frames are decoded whole, and the events are what  *)
(* those say that end in the part that is decoded.                              *)
SaysSoFar ==
  /\ Decided # 0 => Decided \in FrameEnds(sent)
  /\ Len(events) = Place(Speaking(sent), Decided)
  /\ FirstFrames(events, sent)

FailedEarly ==
  /\ broken \/ Len(sent) > MaxFrame
  /\ Last(events) = "failed"
  /\ IsStrictPrefix(Front(events), Meaning(sent))

DecodeInv ==
  /\ ~ terminal => SaysSoFar
  /\ terminal => events = Meaning(sent) \/ FailedEarly

LEMMA BufferIsPart ==
  ASSUME TypeOK, BytesInOrder, ~ terminal, SaysSoFar
  PROVE  /\ Decided \in Nat /\ Decided + Len(buffer) + Len(source) = Len(sent)
         /\ IsPart(buffer, sent, Decided)
<1>1. /\ buffer \in Seq(Tokens) /\ source \in Seq(Tokens) /\ sent \in Seq(Tokens)
      /\ IsSuffix(buffer \o source, sent)
  BY DEF TypeOK, BytesInOrder
<1>2. PICK b \in Nat, s \in Nat, t \in Nat :
        b = Len(buffer) /\ s = Len(source) /\ t = Len(sent)
  BY <1>1
<1> DEFINE all == buffer \o source
<1>3. all \in Seq(Tokens) /\ Len(all) = b + s /\ \A i \in 1 .. b : all[i] = buffer[i]
  BY <1>1, <1>2
<1> HIDE DEF all
<1>4. b + s <= t /\ \A i \in 1 .. b + s : all[(b + s) - i + 1] = sent[t - i + 1]
  <2>1. IsSuffix(all, sent) /\ all \in Seq(Tokens) /\ sent \in Seq(Tokens)
    BY <1>1, <1>3 DEF all
  <2>2. /\ Len(all) <= Len(sent)
        /\ \A i \in 1 .. Len(all) : all[Len(all) - i + 1] = sent[Len(sent) - i + 1]
    BY <2>1, SuffixMeans
  <2>3. QED
    BY <1>2, <1>3, <2>2
<1>5. Decided = t - b - s /\ Decided \in Nat /\ Decided + b + s = t
  BY <1>2, <1>4 DEF Decided
<1>6. ASSUME NEW i \in 1 .. b PROVE buffer[i] = sent[Decided + i]
  <2>1. PICK j \in 1 .. b + s : j = (b + s) - i + 1
    <3>1. (b + s) - i + 1 \in 1 .. b + s
      OBVIOUS
    <3>2. QED
      BY <3>1
  <2>2. (b + s) - j + 1 = i /\ t - j + 1 = Decided + i
    BY <1>5, <2>1
  <2>3. QED
    BY <1>3, <1>4, <2>2
<1>7. Decided # 0 => sent[Decided] = "LF"
  BY DEF SaysSoFar, FrameEnds
<1>8. QED
  BY <1>2, <1>5, <1>6, <1>7 DEF IsPart

LEMMA DecodeInit == Init => DecodeInv
<1> SUFFICES ASSUME Init PROVE DecodeInv
  OBVIOUS
<1>1. sent \in Seq(Tokens) /\ source = sent /\ buffer = <<>> /\ events = <<>> /\ ~ terminal
  BY ConstantsAssumption DEF Init
<1>2. Decided = 0
  BY <1>1 DEF Decided
<1>3. Place(Speaking(sent), 0) = 0
  <2>1. \A e \in Speaking(sent) : e \in Int /\ e > 0
    BY <1>1 DEF Speaking, FrameEnds
  <2>2. {e \in Speaking(sent) : e <= 0} = {}
    BY <2>1
  <2>3. QED
    BY <2>2, FS_EmptySet DEF Place
<1>4. FirstFrames(<<>>, sent)
  <2>1. Said(sent) \in Seq(Events)
    BY <1>1, SaidIsSequence
  <2>2. QED
    BY <2>1 DEF FirstFrames
<1>5. QED
  BY <1>1, <1>2, <1>3, <1>4 DEF DecodeInv, SaysSoFar

LEMMA DecodeTakeFrame ==
  ASSUME TypeOK, BytesInOrder, DecodeInv, TakeFrame
  PROVE  DecodeInv'
<1> DEFINE end   == Min(FrameEnds(buffer))
           line  == LineBefore(buffer, end)
           event == Decoded(SubSeq(buffer, 1, end - Len(line) - 1))
           rest  == SubSeq(buffer, end + 1, Len(buffer))
           S     == Speaking(sent)
<1>1. /\ ~ terminal /\ FrameEnds(buffer) # {} /\ UNCHANGED <<sent, source, broken>>
      /\ IF event = "nothing" THEN UNCHANGED <<events, terminal>> ELSE Yield(event)
      /\ buffer' = LeftAfter(event, rest)
  BY DEF TakeFrame
<1>2. /\ SaysSoFar /\ buffer \in Seq(Tokens) /\ sent \in Seq(Tokens) /\ source \in Seq(Tokens)
      /\ events \in Seq(Events)
  BY <1>1 DEF DecodeInv, TypeOK
<1>3. PICK k \in Nat : k = Decided
  BY <1>1, <1>2, BufferIsPart
<1>4. IsPart(buffer, sent, k) /\ (k # 0 => k \in FrameEnds(sent))
  BY <1>1, <1>2, <1>3, BufferIsPart DEF SaysSoFar
<1>5. /\ end \in 1 .. Len(buffer) /\ k + end \in FrameEnds(sent)
      /\ \A e \in FrameEnds(sent) : e < k + end => e <= k
      /\ event = Says(sent, k + end)
  BY <1>1, <1>2, <1>4, FirstFrame
<1>6. event \in {"nothing", "completed", "frame", "failed"}
  BY DEF Decoded
<1> HIDE DEF end, line, event, S
<1>7. PICK e \in Int : e = k + end /\ k < e
  BY <1>2, <1>5
<1>8. rest \in Seq(Tokens) /\ Len(rest) = Len(buffer) - end
  BY <1>2, <1>5
<1> HIDE DEF rest
<1>9. /\ FrameEnds(sent) \in SUBSET Int /\ S \in SUBSET Int /\ IsFiniteSet(S)
      /\ S \in SUBSET FrameEnds(sent)
      /\ Said(sent) \in Seq(Events) /\ Len(Said(sent)) \in Nat
  <2>1. S \in SUBSET FrameEnds(sent)
    BY DEF S, Speaking
  <2>2. /\ FrameEnds(sent) \in SUBSET Int /\ Speaking(sent) \in SUBSET Int
        /\ IsFiniteSet(Speaking(sent)) /\ Said(sent) \in Seq(Events)
    BY <1>2, SaidIsSequence
  <2>3. QED
    BY <2>1, <2>2 DEF S
<1>10. FirstFrames(events, sent) /\ Len(events) = Place(S, k)
  BY <1>2, <1>3 DEF SaysSoFar, S
<1>11. \A n \in S : n < e => n <= k
  BY <1>5, <1>7, <1>9
<1>12. buffer' = rest => Decided' = e
  <2>1. PICK b \in Nat, s \in Nat, t \in Nat :
          b = Len(buffer) /\ s = Len(source) /\ t = Len(sent)
    BY <1>2
  <2>2. k = t - b - s
    BY <1>3, <2>1 DEF Decided
  <2>3. buffer' = rest => Decided' = t - (b - end) - s
    BY <1>1, <1>8, <2>1 DEF Decided
  <2>4. QED
    BY <1>5, <1>7, <2>1, <2>2, <2>3
<1>13. CASE event = "nothing"
  <2>1. buffer' = rest /\ events' = events /\ ~ terminal'
    BY <1>1, <1>13 DEF LeftAfter
  <2>2. e \notin S
    BY <1>5, <1>7, <1>13 DEF S, Speaking
  <2>3. \A n \in S : n <= e => n <= k
    <3>1. \A n \in S : n \in Int /\ n # e
      BY <1>9, <2>2
    <3>2. QED
      BY <1>7, <1>11, <3>1
  <2>4. Place(S, e) = Place(S, k)
    BY <1>7, <1>9, <2>3, PlaceRests
  <2>5. SaysSoFar'
    BY <1>1, <1>5, <1>7, <1>10, <1>12, <2>1, <2>4 DEF SaysSoFar, FirstFrames, S
  <2>6. QED
    BY <2>1, <2>5 DEF DecodeInv
<1>14. CASE event # "nothing"
  <2>1. events' = Append(events, event) /\ terminal' = (event # "frame") /\ event \in Events
    BY <1>1, <1>6, <1>14 DEF Yield, Events
  <2>2. e \in S
    BY <1>5, <1>7, <1>14 DEF S, Speaking
  <2>3. Place(S, e) = Place(S, k) + 1
    BY <1>7, <1>9, <1>11, <2>2, PlaceOfNext
  <2>4. /\ Place(S, e) \in 1 .. Len(Said(sent))
        /\ Said(sent)[Place(S, e)] = event
    BY <1>2, <1>5, <1>7, <2>2, SaidIsSequence DEF S
  <2>5. PICK n \in Nat : n = Len(events)
    BY <1>2
  <2>6. n + 1 = Place(S, e) /\ n + 1 <= Len(Said(sent)) /\ Said(sent)[n + 1] = event
    BY <1>10, <2>3, <2>4, <2>5
  <2>7. CASE event = "frame"
    <3>1. buffer' = rest /\ ~ terminal'
      BY <1>1, <2>1, <2>7 DEF LeftAfter
    <3>2. /\ events' \in Seq(Events) /\ Len(events') = n + 1
          /\ \A i \in 1 .. n : events'[i] = events[i]
          /\ events'[n + 1] = "frame"
      BY <1>2, <2>1, <2>5, <2>7
    <3>3. FirstFrames(events', sent)
      <4>1. \A i \in 1 .. n + 1 : i \in 1 .. n \/ i = n + 1
        OBVIOUS
      <4>2. \A i \in 1 .. n : events[i] = "frame" /\ Said(sent)[i] = "frame"
        BY <1>10, <2>5 DEF FirstFrames
      <4>3. QED
        BY <2>6, <2>7, <3>2, <4>1, <4>2 DEF FirstFrames
    <3>4. SaysSoFar'
      BY <1>1, <1>5, <1>7, <1>12, <2>6, <3>1, <3>2, <3>3 DEF SaysSoFar, FirstFrames, S
    <3>5. QED
      BY <3>1, <3>4 DEF DecodeInv
  <2>8. CASE event # "frame"
    <3>1. Meaning(sent) = Append(events, event)
      BY <1>2, <1>10, <2>5, <2>6, <2>8, MeaningAtTerminal
    <3>2. (events = Meaning(sent))'
      BY <1>1, <2>1, <3>1
    <3>3. QED
      BY <2>1, <2>8, <3>2 DEF DecodeInv
  <2>9. QED
    BY <2>7, <2>8
<1>15. QED
  BY <1>13, <1>14

(* A stream that fails before its bytes are decoded. *)
LEMMA FailsEarly ==
  ASSUME TypeOK, SaysSoFar, Yield("failed"), UNCHANGED <<sent, broken>>,
         broken \/ Len(sent) > MaxFrame
  PROVE  DecodeInv'
<1>1. sent \in Seq(Tokens) /\ events \in Seq(Events)
  BY DEF TypeOK
<1>2. events' = Append(events, "failed") /\ terminal'
  BY DEF Yield
<1>3. Len(events) \in Nat /\ Len(events') = Len(events) + 1
  BY <1>1, <1>2
<1>4. Last(events') = "failed"
  BY <1>1, <1>2, <1>3 DEF Last
<1>5. Front(events') = events
  <2>1. PICK n \in Nat : n = Len(events)
    BY <1>3
  <2>2. /\ events' \in Seq(Events) /\ Len(events') = n + 1
        /\ \A i \in 1 .. n : events'[i] = events[i]
    BY <1>1, <1>2, <2>1 DEF Events
  <2> DEFINE front == SubSeq(events', 1, n)
  <2>3. /\ front \in Seq(Events) /\ Len(front) = n
        /\ \A i \in 1 .. n : front[i] = events[i]
    BY <2>2
  <2>4. Front(events') = front
    BY <2>2 DEF Front
  <2> HIDE DEF front
  <2>5. QED
    BY <1>1, <2>1, <2>3, <2>4, SeqEqual
<1>6. IsStrictPrefix(events, Meaning(sent))
  BY <1>1, MeaningGoesOn DEF SaysSoFar
<1>7. IsStrictPrefix(Front(events'), Meaning(sent'))
  BY <1>5, <1>6
<1>8. FailedEarly'
  BY <1>4, <1>7 DEF FailedEarly
<1>9. QED
  BY <1>2, <1>8 DEF DecodeInv

LEMMA DecodeReadChunk ==
  ASSUME TypeOK, BytesInOrder, DecodeInv, NEW n \in 1 .. MaxChunk, ReadChunk(n)
  PROVE  DecodeInv'
<1>1. /\ ~ terminal /\ UNCHANGED <<sent, broken>> /\ n \in Nat /\ n <= Len(source)
      /\ source' = SubSeq(source, n + 1, Len(source))
  BY ConstantsAssumption DEF ReadChunk
<1>2. /\ SaysSoFar /\ buffer \in Seq(Tokens) /\ source \in Seq(Tokens) /\ sent \in Seq(Tokens)
  BY <1>1 DEF DecodeInv, TypeOK
<1>3. PICK b \in Nat, s \in Nat, t \in Nat :
        b = Len(buffer) /\ s = Len(source) /\ t = Len(sent)
  BY <1>2
<1>4. Decided = t - b - s /\ Decided \in Nat
  BY <1>1, <1>2, <1>3, BufferIsPart DEF Decided
<1>5. CASE Fits(n)
  <2>1. buffer' = buffer \o SubSeq(source, 1, n) /\ UNCHANGED <<events, terminal>>
    BY <1>5 DEF ReadChunk
  <2>2. Len(buffer') = b + n /\ Len(source') = s - n
    BY <1>1, <1>2, <1>3, <2>1
  <2>3. Decided' = t - (b + n) - (s - n)
    BY <1>1, <1>3, <2>2 DEF Decided
  <2>4. Decided' = Decided
    BY <1>1, <1>3, <1>4, <2>3
  <2>5. SaysSoFar'
    BY <1>1, <1>2, <2>1, <2>4 DEF SaysSoFar, FirstFrames
  <2>6. QED
    BY <1>1, <2>1, <2>5 DEF DecodeInv
<1>6. CASE ~ Fits(n)
  <2>1. Yield("failed")
    BY <1>6 DEF ReadChunk
  <2>2. b + n > MaxFrame
    BY <1>1, <1>3, <1>6, ConstantsAssumption DEF Fits
  <2>3. Len(sent) > MaxFrame
    BY <1>1, <1>3, <1>4, <2>2, ConstantsAssumption
  <2>4. QED
    BY <1>1, <1>2, <2>1, <2>3, FailsEarly
<1>7. QED
  BY <1>5, <1>6

LEMMA DecodeSourceEnds ==
  ASSUME TypeOK, BytesInOrder, DecodeInv, SourceEnds
  PROVE  DecodeInv'
<1>1. /\ ~ terminal /\ UNCHANGED <<sent, source, broken>> /\ FrameEnds(buffer) = {}
      /\ Yield("failed") /\ (source = <<>> \/ broken)
  BY DEF SourceEnds, IsOver, EventAtEnd
<1>2. /\ SaysSoFar /\ buffer \in Seq(Tokens) /\ sent \in Seq(Tokens)
  BY <1>1 DEF DecodeInv, TypeOK
<1>3. CASE broken
  BY <1>1, <1>2, <1>3, FailsEarly
<1>4. CASE source = <<>>
  <2>1. PICK k \in Nat : k = Decided
    BY <1>1, <1>2, BufferIsPart
  <2>2. IsPart(buffer, sent, k) /\ k + Len(buffer) = Len(sent) /\ Len(buffer) \in Nat
    BY <1>1, <1>2, <1>4, <2>1, BufferIsPart
  <2>3. ASSUME NEW e \in FrameEnds(sent) PROVE e <= k
    <3>1. e \in 1 .. Len(sent)
      BY <1>2 DEF FrameEnds
    <3>2. SUFFICES ASSUME e > k PROVE FALSE
      BY <3>1
    <3>3. e - k \in 1 .. Len(buffer) /\ k + (e - k) = e
      BY <2>2, <3>1, <3>2
    <3>4. e - k \in FrameEnds(buffer)
      BY <1>2, <2>2, <3>3, SameEnds
    <3>5. QED
      BY <1>1, <3>4
  <2>4. /\ Speaking(sent) \in SUBSET Int /\ IsFiniteSet(Speaking(sent))
        /\ Len(Said(sent)) = Cardinality(Speaking(sent))
    BY <1>2, SaidIsSequence
  <2>5. \A e \in Speaking(sent) : e <= k
    BY <2>3 DEF Speaking
  <2>6. Place(Speaking(sent), k) = Cardinality(Speaking(sent))
    BY <2>4, <2>5, PlaceIsBounded
  <2>7. FirstFrames(events, sent) /\ Len(events) = Len(Said(sent))
    BY <1>2, <2>1, <2>4, <2>6 DEF SaysSoFar
  <2>8. Meaning(sent) = Append(events, "failed")
    BY <1>2, <2>7, MeaningAtEnd
  <2>9. (events = Meaning(sent))'
    BY <1>1, <2>8 DEF Yield
  <2>10. QED
    BY <1>1, <2>9 DEF DecodeInv, Yield
<1>5. QED
  BY <1>1, <1>3, <1>4

LEMMA DecodeStep == TypeOK /\ BytesInOrder /\ DecodeInv /\ [Next]_vars => DecodeInv'
<1> SUFFICES ASSUME TypeOK, BytesInOrder, DecodeInv, [Next]_vars PROVE DecodeInv'
  OBVIOUS
<1>1. CASE TakeFrame
  BY <1>1, DecodeTakeFrame
<1>2. ASSUME NEW n \in 1 .. MaxChunk, ReadChunk(n) PROVE DecodeInv'
  BY <1>2, DecodeReadChunk
<1>3. CASE SourceEnds
  BY <1>3, DecodeSourceEnds
<1>4. CASE Break
  <2>1. ~ terminal /\ UNCHANGED <<sent, source, buffer, terminal, events>>
    BY <1>4 DEF Break
  <2>2. SaysSoFar'
    BY <2>1 DEF DecodeInv, SaysSoFar, Decided, FirstFrames
  <2>3. QED
    BY <2>1, <2>2 DEF DecodeInv
<1>5. CASE UNCHANGED vars
  <2>1. /\ sent' = sent /\ source' = source /\ broken' = broken /\ buffer' = buffer
        /\ terminal' = terminal /\ events' = events
    BY <1>5 DEF vars
  <2>2. SaysSoFar => SaysSoFar'
    BY <2>1 DEF SaysSoFar, Decided, FirstFrames
  <2>3. FailedEarly => FailedEarly'
    BY <2>1 DEF FailedEarly
  <2>4. (events = Meaning(sent)) => (events = Meaning(sent))'
    BY <2>1
  <2>5. QED
    BY <2>1, <2>2, <2>3, <2>4 DEF DecodeInv
<1>6. QED
  BY <1>1, <1>2, <1>3, <1>4, <1>5 DEF Next

LEMMA AlwaysDecoded == Spec => [](TypeOK /\ DecodeInv)
BY DecodeInit, DecodeStep, BytesStayInOrder, TypeCorrect, PTL DEF Spec

(* What the stream has yielded is what the bytes mean as a whole, however they  *)
(* are cut into chunks and however often the decoder is polled; only a broken   *)
(* transport or bytes beyond the limit may fail it early.                       *)
THEOREM NothingIsInvented == Spec => []NothingInvented
<1>1. TypeOK /\ DecodeInv => NothingInvented
  <2> SUFFICES ASSUME TypeOK, DecodeInv PROVE NothingInvented
    OBVIOUS
  <2>1. sent \in Seq(Tokens) /\ events \in Seq(Events)
    BY DEF TypeOK
  <2>2. CASE ~ terminal
    <3>1. FirstFrames(events, sent)
      BY <2>2 DEF DecodeInv, SaysSoFar
    <3>2. IsPrefix(events, Meaning(sent))
      BY <2>1, <3>1, MeaningGoesOn DEF IsStrictPrefix
    <3>3. QED
      BY <3>2 DEF NothingInvented
  <2>3. CASE events = Meaning(sent)
    <3>1. IsPrefix(events, events)
      BY <2>1 DEF IsPrefix
    <3>2. QED
      BY <2>3, <3>1 DEF NothingInvented
  <2>4. CASE terminal /\ FailedEarly
    BY <2>4 DEF FailedEarly, NothingInvented
  <2>5. QED
    BY <2>2, <2>3, <2>4 DEF DecodeInv
<1>2. QED
  BY <1>1, AlwaysDecoded, PTL

(* Bytes within the limit, from a transport that does not break, are decoded to *)
(* the end: no frame is lost and none is read twice where a chunk ends.         *)
THEOREM NothingIsMissed == Spec => []NothingMissed
<1>1. TypeOK /\ DecodeInv => NothingMissed
  <2> SUFFICES ASSUME TypeOK, DecodeInv, terminal, ~ broken, Len(sent) <= MaxFrame
               PROVE  events = Meaning(sent)
    BY DEF NothingMissed
  <2>1. Len(sent) \in Nat /\ MaxFrame \in Nat
    BY ConstantsAssumption DEF TypeOK
  <2>2. ~ FailedEarly
    BY <2>1 DEF FailedEarly
  <2>3. QED
    BY <2>2 DEF DecodeInv
<1>2. QED
  BY <1>1, AlwaysDecoded, PTL
=============================================================================
