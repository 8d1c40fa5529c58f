------------------------ MODULE LocalGateway_proofs ------------------------
(***************************************************************************)
(* Theorems about LocalGateway for any number of requests, routes and      *)
(* accounts: of what is on record when a request goes on, and when a       *)
(* route is closed.                                                        *)
(***************************************************************************)
EXTENDS LocalGateway, WellFoundedInduction, TLAPS

(* A set of routes has a first one. *)
LEMMA FirstIsFirst ==
  ASSUME NEW routes \in SUBSET Route, routes # {}
  PROVE  /\ First(routes) \in routes
         /\ \A s \in routes : First(routes) <= s
<1>1. routes \subseteq Nat
  BY ConstantsAssumption
<1>2. PICK r \in routes : \A s \in routes : <<s, r>> \notin OpToRel(<, Nat)
  BY <1>1, WFMin, NatLessThanWellFounded
<1>3. \A s \in routes : r <= s
  <2>1. OpToRel(<, Nat) = {ss \in Nat \X Nat : ss[1] < ss[2]}
    BY Zenon DEF OpToRel
  <2>2. \A s \in routes : ~ (s < r)
    BY <1>1, <1>2, <2>1
  <2>3. QED
    BY <1>1, <2>2
<1>4. QED
  BY <1>3 DEF First

LEMMA FirstOfOne ==
  ASSUME NEW r \in Route
  PROVE  First({r}) = r
BY FirstIsFirst

LEMMA RoutesAreNumbers == Route \subseteq Nat
BY ConstantsAssumption

-----------------------------------------------------------------------------
(* The inductive invariant *)

Cur(s) == First(s.eligible)

(* What the record of the current route says when its verdict is about to be    *)
(* written. It says committed only if the end could not be recorded.            *)
SettledOnRecord(s, left) ==
  LET outcome == s.record[Cur(s)]
  IN  /\ s.verdict.kind = "success" => outcome = "succeeded"
      /\ s.verdict.kind # "success" /\ s.answer = "none" => outcome = "failed"
      /\ s.verdict.kind # "success" /\ s.answer = "streaming" =>
           outcome \in {"partial_failed", "committed"}
      /\ outcome = "committed" => left < MaxFaults

(* What a request has called, in each of its phases. *)
CalledInOrder(s) ==
  /\ s.phase = "idle" => s.called = {}
  /\ s.phase = "routed" =>
       \A r \in s.called : s.record[r] = "failed" /\ \A e \in s.eligible : r < e
  /\ s.phase \in {"streaming", "settling"} =>
       \A r \in s.called : r = Cur(s) \/ (r < Cur(s) /\ s.record[r] = "failed")
  /\ \A r \in s.called : s.record[r] # "nothing"

Sound(s, left) ==
  /\ CalledInOrder(s)
  /\ s.phase # "idle" => s.eligible # {}
  /\ s.phase = "routed" => s.answer = "none" /\ s.verdict.kind = "success"
  /\ s.phase = "streaming" =>
       /\ s.answer = "streaming" /\ s.verdict.kind = "success"
       /\ s.eligible = {Cur(s)} /\ s.record[Cur(s)] = "committed"
  /\ s.phase = "settling" =>
       /\ SettledOnRecord(s, left)
       /\ s.answer \in {"none", "streaming"}
       /\ s.answer = "streaming" => s.eligible = {Cur(s)}

RequestsAreSound == \A q \in Request : Sound(req[q], faults)

-----------------------------------------------------------------------------
(* What the helpers make of a request *)

LEMMA OverIsSound ==
  ASSUME NEW answer \in Answers, NEW left
  PROVE  Over(answer) \in RequestState /\ Sound(Over(answer), left)
BY DEF Over, RequestState, Phases, Outcome, Verdict, Success, RetryTime, Sound, CalledInOrder

LEMMA RoutedIsSound ==
  ASSUME NEW routes \in SUBSET Route, routes # {}, NEW left
  PROVE  LET s == [Over("none") EXCEPT !.phase = "routed", !.eligible = routes]
         IN  s \in RequestState /\ Sound(s, left)
BY DEF Over, RequestState, Phases, Outcome, Answers, Verdict, Success, RetryTime, Sound,
       CalledInOrder

(* The next candidate comes after every route that was called; for that the     *)
(* current one, if it was called, has failed.                                   *)
LEMMA GoOnIsSound ==
  ASSUME NEW s \in RequestState, NEW left, Sound(s, left),
         \/ s.phase = "routed"
         \/ s.phase = "settling" /\ s.verdict.kind # "success"
  PROVE  GoOn(s) \in RequestState /\ Sound(GoOn(s), left)
<1> DEFINE others == LeavesOthers(s)
           t == [s EXCEPT !.phase = "routed", !.eligible = others, !.verdict = Success]
<1>1. CASE others = {}
  <2>1. "broken" \in Answers /\ "error" \in Answers
    BY DEF Answers
  <2>2. QED
    BY <1>1, <2>1, OverIsSound DEF GoOn
<1>2. CASE others # {}
  <2>1. s.eligible \in SUBSET Route /\ s.eligible # {}
    BY DEF RequestState, Sound
  <2>2. Cur(s) \in s.eligible /\ \A e \in others : Cur(s) < e
    BY <2>1, FirstIsFirst, RoutesAreNumbers DEF LeavesOthers, Cur
  <2>3. t \in RequestState
    BY <2>1 DEF RequestState, Phases, Verdict, Success, RetryTime, LeavesOthers
  <2>4. \A r \in s.called : s.record[r] = "failed" /\ \A e \in others : r < e
    <3>1. CASE s.phase = "routed"
      BY <3>1, <2>1 DEF Sound, CalledInOrder, LeavesOthers
    <3>2. CASE s.phase = "settling" /\ s.verdict.kind # "success"
      <4>1. s.answer = "none"
        BY <3>2, <1>2, <2>1 DEF Sound, LeavesOthers, Cur
      <4>2. s.record[Cur(s)] = "failed"
        BY <3>2, <4>1 DEF Sound, SettledOnRecord
      <4>3. \A r \in s.called : r = Cur(s) \/ (r < Cur(s) /\ s.record[r] = "failed")
        BY <3>2 DEF Sound, CalledInOrder
      <4>4. s.called \subseteq Nat /\ s.eligible \subseteq Nat
        BY RoutesAreNumbers DEF RequestState
      <4>5. QED
        BY <4>2, <4>3, <4>4, <2>2 DEF LeavesOthers
    <3>3. QED
      BY <3>1, <3>2
  <2>5. /\ t.phase = "routed" /\ t.eligible = others /\ t.verdict = Success
        /\ t.called = s.called /\ t.record = s.record /\ t.answer = s.answer
    BY DEF RequestState
  <2>6. s.answer = "none"
    BY <1>2, <2>1 DEF Sound, LeavesOthers, Cur
  <2>7. Sound(t, left)
    BY <1>2, <2>4, <2>5, <2>6 DEF Sound, CalledInOrder, Success
  <2>8. QED
    BY <1>2, <2>3, <2>7 DEF GoOn
<1>3. QED
  BY <1>1, <1>2

LEMMA RecordedFields ==
  ASSUME NEW s \in RequestState, s.eligible # {}, NEW outcome \in Outcome
  PROVE  LET t == Recorded(s, outcome)
         IN  /\ t \in RequestState
             /\ t.phase = s.phase /\ t.eligible = s.eligible /\ t.verdict = s.verdict
             /\ t.answer = s.answer /\ t.called = s.called \union {Cur(s)}
             /\ t.record[Cur(s)] = outcome
             /\ \A r \in Route : r # Cur(s) => t.record[r] = s.record[r]
<1>1. Cur(s) \in Route
  BY FirstIsFirst DEF RequestState, Cur
<1>2. QED
  BY <1>1 DEF Recorded, RequestState, Cur

LEMMA VerdictTypes ==
  ASSUME NEW v \in PreCommitVerdicts \union PostCommitVerdicts
  PROVE  v \in Verdict /\ v.kind # "success"
<1>1. Cooldown \in RetryTime /\ Never \in RetryTime
  BY ConstantsAssumption DEF RetryTime
<1>2. ASSUME NEW failure \in PreCommitFailures \union PostCommitFailures
      PROVE  failure.retryIn \in RetryTime
  <2>1. \A category : Sanitized(category).retryIn \in RetryTime
    BY <1>1 DEF Sanitized
  <2>2. Unanswered.retryIn \in RetryTime
    BY <1>1 DEF Unanswered
  <2>3. \A status, words : Classify(status, words).retryIn \in RetryTime
    BY <2>1 DEF Classify
  <2>4. \A words : StreamError(words).retryIn \in RetryTime
    BY <2>1 DEF StreamError
  <2>5. BadFrame.retryIn \in RetryTime
    BY <2>1 DEF BadFrame
  <2>6. CASE failure \in PreCommitFailures
    BY <2>2, <2>3, <2>6 DEF PreCommitFailures
  <2>7. CASE failure \in PostCommitFailures
    BY <2>2, <2>4, <2>5, <2>7 DEF PostCommitFailures
  <2>8. QED
    BY <2>6, <2>7
<1>3. QED
  BY <1>2 DEF PreCommitVerdicts, PostCommitVerdicts, VerdictOf, Verdict

-----------------------------------------------------------------------------
(* What each step makes of its request *)

(* The request that a step is about is sound afterwards. *)
StaysSound(q) ==
  \E s \in RequestState :
    /\ req' = [req EXCEPT ![q] = s]
    /\ Sound(s, faults')

LEMMA ArriveSound ==
  ASSUME TypeOK, NEW q \in Request, Arrive(q)
  PROVE  StaysSound(q)
<1>1. CASE Refused(q)
  BY <1>1, OverIsSound DEF Refused, StaysSound, Answers
<1>2. ASSUME NEW routes \in SUBSET Route, routes # {}, Routed(q, routes)
      PROVE  StaysSound(q)
  BY <1>2, RoutedIsSound DEF Routed, StaysSound
<1>3. Closed \in SUBSET Route /\ Due \in SUBSET Route /\ Retryable \in SUBSET Route
  BY DEF Closed, Due, Retryable
<1>4. Retryable # {} => {First(Retryable)} \in SUBSET Route
  BY <1>3, FirstIsFirst
<1>5. CASE Refuse(q) \/ ConfigurationFails(q) \/ NoCandidate(q)
  BY <1>1, <1>5 DEF Refuse, ConfigurationFails, NoCandidate
<1>6. CASE CandidatesOfSqlite(q) \/ CandidatesOfPrimary(q) \/ CandidatesOfSnapshot(q)
  <2>1. PICK routes \in SUBSET Route : routes # {} /\ Routed(q, routes)
    <3>1. CASE CandidatesOfSqlite(q)
      BY <1>3, <3>1 DEF CandidatesOfSqlite
    <3>2. CASE CandidatesOfPrimary(q)
      BY <3>2 DEF CandidatesOfPrimary
    <3>3. CASE CandidatesOfSnapshot(q)
      BY <1>3, <3>3 DEF CandidatesOfSnapshot
    <3>4. QED
      BY <1>6, <3>1, <3>2, <3>3
  <2>2. QED
    BY <1>2, <2>1
<1>7. CASE ProbeOfSnapshot(q)
  BY <1>2, <1>4, <1>7 DEF ProbeOfSnapshot
<1>8. QED
  BY <1>5, <1>6, <1>7 DEF Arrive

(* A call of the current route, in the state that it leaves. *)
LEMMA CalledIsSound ==
  ASSUME NEW s \in RequestState, NEW left, Sound(s, left), s.phase = "routed",
         NEW outcome \in Outcome \ {"nothing"}, NEW t \in RequestState,
         t.phase \in {"streaming", "settling"},
         t.called = s.called \union {Cur(s)},
         t.record = Recorded(s, outcome).record,
         Cur(t) = Cur(s)
  PROVE  CalledInOrder(t)
<1>1. s.eligible \in SUBSET Route /\ s.eligible # {} /\ s.called \subseteq Route
  BY DEF RequestState, Sound
<1>2. Cur(s) \in s.eligible
  BY <1>1, FirstIsFirst DEF Cur
<1>3. /\ t.record[Cur(s)] = outcome
      /\ \A r \in Route : r # Cur(s) => t.record[r] = s.record[r]
  BY <1>1, RecordedFields
<1>4. \A r \in s.called : s.record[r] = "failed" /\ r < Cur(s)
  BY <1>2 DEF Sound, CalledInOrder
<1>5. Cur(s) \in Nat /\ s.called \subseteq Nat
  BY <1>1, <1>2, RoutesAreNumbers
<1>6. \A r \in s.called : r # Cur(s)
  BY <1>4, <1>5
<1>7. QED
  BY <1>1, <1>3, <1>4, <1>6 DEF CalledInOrder, Outcome

LEMMA ExecuteFailsSound ==
  ASSUME TypeOK, RequestsAreSound, NEW q \in Request, ExecuteFails(q)
  PROVE  StaysSound(q)
<1> DEFINE s == req[q]
<1>1. s \in RequestState /\ Sound(s, faults) /\ s.phase = "routed" /\ s.eligible # {}
  BY DEF TypeOK, RequestsAreSound, ExecuteFails, Sound
<1>2. PICK v \in PreCommitVerdicts :
        req' = [req EXCEPT ![q] =
                  [Recorded(s, "failed") EXCEPT !.phase = "settling", !.verdict = v]]
  BY DEF ExecuteFails, TypeOK
<1> DEFINE t == [Recorded(s, "failed") EXCEPT !.phase = "settling", !.verdict = v]
<1>3. v \in Verdict /\ v.kind # "success"
  BY VerdictTypes
<1> HIDE DEF s
<1>4. "failed" \in Outcome \ {"nothing"}
  BY DEF Outcome
<1>u. PICK u \in RequestState :
        /\ u = Recorded(s, "failed")
        /\ u.eligible = s.eligible /\ u.answer = s.answer
        /\ u.called = s.called \union {Cur(s)} /\ u.record[Cur(s)] = "failed"
  BY <1>1, <1>4, RecordedFields
<1>5. /\ t \in RequestState
      /\ t.phase = "settling" /\ t.verdict = v /\ t.eligible = s.eligible
      /\ t.answer = s.answer /\ t.called = s.called \union {Cur(s)}
      /\ t.record = Recorded(s, "failed").record /\ t.record[Cur(s)] = "failed"
  BY <1>u, <1>3 DEF RequestState, Phases
<1>6. Cur(t) = Cur(s)
  BY <1>5 DEF Cur
<1> HIDE DEF t
<1>7. CalledInOrder(t)
  BY <1>1, <1>4, <1>5, <1>6, CalledIsSound
<1>8. Sound(t, faults)
  BY <1>1, <1>3, <1>5, <1>6, <1>7 DEF Sound, SettledOnRecord
<1>9. QED
  BY <1>2, <1>5, <1>8 DEF StaysSound, ExecuteFails, t

LEMMA CompletesSound ==
  ASSUME TypeOK, RequestsAreSound, NEW q \in Request, Completes(q)
  PROVE  StaysSound(q)
<1> DEFINE s == req[q]
<1>1. s \in RequestState /\ Sound(s, faults) /\ s.phase = "routed" /\ s.eligible # {}
  BY DEF TypeOK, RequestsAreSound, Completes, Sound
<1>2. req' = [req EXCEPT ![q] =
                [Recorded(s, "succeeded") EXCEPT !.phase = "settling",
                                                 !.eligible = {Cur(s)}]]
  BY DEF Completes, TypeOK, Current, Cur
<1> DEFINE t == [Recorded(s, "succeeded") EXCEPT !.phase = "settling", !.eligible = {Cur(s)}]
<1> HIDE DEF s
<1>3. Cur(s) \in Route
  BY <1>1, FirstIsFirst DEF RequestState, Cur
<1>4. "succeeded" \in Outcome \ {"nothing"}
  BY DEF Outcome
<1>u. PICK u \in RequestState :
        /\ u = Recorded(s, "succeeded")
        /\ u.verdict = s.verdict /\ u.answer = s.answer
        /\ u.called = s.called \union {Cur(s)} /\ u.record[Cur(s)] = "succeeded"
  BY <1>1, <1>4, RecordedFields
<1>5. /\ t \in RequestState
      /\ t.phase = "settling" /\ t.verdict = s.verdict /\ t.eligible = {Cur(s)}
      /\ t.answer = s.answer /\ t.called = s.called \union {Cur(s)}
      /\ t.record = Recorded(s, "succeeded").record /\ t.record[Cur(s)] = "succeeded"
  BY <1>u, <1>3 DEF RequestState, Phases
<1>6. Cur(t) = Cur(s)
  BY <1>3, <1>5, FirstOfOne DEF Cur
<1> HIDE DEF t
<1>7. CalledInOrder(t)
  BY <1>1, <1>4, <1>5, <1>6, CalledIsSound
<1>8. Sound(t, faults)
  BY <1>1, <1>5, <1>6, <1>7 DEF Sound, SettledOnRecord
<1>9. QED
  BY <1>2, <1>5, <1>8 DEF StaysSound, Completes, t

LEMMA CommitsSound ==
  ASSUME TypeOK, RequestsAreSound, NEW q \in Request, Commits(q)
  PROVE  StaysSound(q)
<1> DEFINE s == req[q]
           t == Committed(s)
<1>1. s \in RequestState /\ Sound(s, faults) /\ s.phase = "routed" /\ s.eligible # {}
  BY DEF TypeOK, RequestsAreSound, Commits, Sound
<1>2. req' = [req EXCEPT ![q] = t]
  BY DEF Commits, TypeOK
<1> HIDE DEF s
<1>3. Cur(s) \in Route
  BY <1>1, FirstIsFirst DEF RequestState, Cur
<1>4. "committed" \in Outcome \ {"nothing"}
  BY DEF Outcome
<1>u. PICK u \in RequestState :
        /\ u = Recorded(s, "committed")
        /\ u.verdict = s.verdict
        /\ u.called = s.called \union {Cur(s)} /\ u.record[Cur(s)] = "committed"
  BY <1>1, <1>4, RecordedFields
<1>5. /\ t \in RequestState
      /\ t.phase = "streaming" /\ t.verdict = s.verdict /\ t.eligible = {Cur(s)}
      /\ t.answer = "streaming" /\ t.called = s.called \union {Cur(s)}
      /\ t.record = Recorded(s, "committed").record /\ t.record[Cur(s)] = "committed"
  BY <1>u, <1>3 DEF RequestState, Phases, Answers, Committed, Cur
<1>6. Cur(t) = Cur(s)
  BY <1>3, <1>5, FirstOfOne DEF Cur
<1> HIDE DEF t
<1>7. CalledInOrder(t)
  BY <1>1, <1>4, <1>5, <1>6, CalledIsSound
<1>8. Sound(t, faults)
  BY <1>1, <1>5, <1>6, <1>7 DEF Sound
<1>9. QED
  BY <1>2, <1>5, <1>8 DEF StaysSound, Commits

(* The end of a stream, recorded or not: the current route stays the current    *)
(* one, and the only one.                                                       *)
LEMMA EndIsSound ==
  ASSUME NEW s \in RequestState, NEW before, NEW left, Sound(s, before),
         s.phase = "streaming",
         NEW t \in RequestState, t.phase = "settling",
         t.eligible = s.eligible, t.answer = s.answer,
         t.called \subseteq s.called \union {Cur(s)},
         \A r \in Route : r # Cur(s) => t.record[r] = s.record[r],
         SettledOnRecord(t, left)
  PROVE  Sound(t, left)
<1>1. Cur(t) = Cur(s)
  BY DEF Cur
<1>2. s.called \subseteq Route /\ t.called \subseteq Route
  BY DEF RequestState
<1>3. s.answer = "streaming" /\ s.eligible = {Cur(s)}
  BY DEF Sound
<1>4. t.record[Cur(t)] # "nothing"
  BY <1>1, <1>3 DEF SettledOnRecord
<1>5. CalledInOrder(t)
  BY <1>1, <1>2, <1>4 DEF Sound, CalledInOrder
<1>6. QED
  BY <1>1, <1>3, <1>5 DEF Sound

LEMMA StreamEndsSound ==
  ASSUME TypeOK, RequestsAreSound, NEW q \in Request, StreamEnds(q)
  PROVE  StaysSound(q)
<1> DEFINE s == req[q]
<1>1. s \in RequestState /\ Sound(s, faults) /\ s.phase = "streaming" /\ s.eligible # {}
  BY DEF TypeOK, RequestsAreSound, StreamEnds, Sound
<1>2. \/ req' = [req EXCEPT ![q] = [Recorded(s, "succeeded") EXCEPT !.phase = "settling"]]
      \/ \E v \in PostCommitVerdicts :
           req' = [req EXCEPT ![q] = [Recorded(s, "partial_failed") EXCEPT
                                        !.phase = "settling", !.verdict = v]]
  BY DEF StreamEnds, TypeOK
<1> HIDE DEF s
<1>3. ASSUME NEW outcome \in {"succeeded", "partial_failed"}, NEW v \in Verdict,
             outcome = "succeeded" <=> v.kind = "success"
      PROVE  LET t == [Recorded(s, outcome) EXCEPT !.phase = "settling", !.verdict = v]
             IN  t \in RequestState /\ Sound(t, faults)
  <2>1. outcome \in Outcome
    BY DEF Outcome
  <2>2. PICK u \in RequestState :
          /\ u = Recorded(s, outcome)
          /\ u.eligible = s.eligible /\ u.answer = s.answer
          /\ u.called = s.called \union {Cur(s)} /\ u.record[Cur(s)] = outcome
          /\ \A r \in Route : r # Cur(s) => u.record[r] = s.record[r]
    BY <1>1, <2>1, RecordedFields
  <2> DEFINE t == [u EXCEPT !.phase = "settling", !.verdict = v]
  <2>3. /\ t \in RequestState /\ t.phase = "settling" /\ t.verdict = v
        /\ t.eligible = s.eligible /\ t.answer = s.answer
        /\ t.called = s.called \union {Cur(s)} /\ t.record[Cur(s)] = outcome
        /\ \A r \in Route : r # Cur(s) => t.record[r] = s.record[r]
    BY <2>2 DEF RequestState, Phases
  <2> HIDE DEF t
  <2>4. SettledOnRecord(t, faults)
    BY <1>1, <1>3, <2>3 DEF SettledOnRecord, Cur, Sound
  <2>5. Sound(t, faults)
    BY <1>1, <2>3, <2>4, EndIsSound
  <2>6. QED
    BY <2>2, <2>3, <2>5 DEF t
<1>4. CASE req' = [req EXCEPT ![q] = [Recorded(s, "succeeded") EXCEPT !.phase = "settling"]]
  <2>1. PICK u \in RequestState : u = Recorded(s, "succeeded") /\ u.verdict = s.verdict
    <3>1. "succeeded" \in Outcome
      BY DEF Outcome
    <3>2. QED
      BY <1>1, <3>1, RecordedFields
  <2>2. s.verdict \in Verdict /\ s.verdict.kind = "success"
    BY <1>1 DEF RequestState, Sound
  <2>3. [u EXCEPT !.phase = "settling"] =
          [u EXCEPT !.phase = "settling", !.verdict = s.verdict]
    BY <2>1 DEF RequestState
  <2>4. LET t == [u EXCEPT !.phase = "settling", !.verdict = s.verdict]
        IN  t \in RequestState /\ Sound(t, faults)
    BY <1>3, <2>1, <2>2
  <2>5. QED
    BY <1>4, <2>1, <2>3, <2>4 DEF StaysSound, StreamEnds
<1>5. ASSUME NEW v \in PostCommitVerdicts,
             req' = [req EXCEPT ![q] = [Recorded(s, "partial_failed") EXCEPT
                                          !.phase = "settling", !.verdict = v]]
      PROVE  StaysSound(q)
  BY <1>3, <1>5, VerdictTypes DEF StaysSound, StreamEnds
<1>6. QED
  BY <1>2, <1>4, <1>5

LEMMA StreamEndUnrecordedSound ==
  ASSUME TypeOK, RequestsAreSound, NEW q \in Request, StreamEndUnrecorded(q)
  PROVE  StaysSound(q)
<1> DEFINE s == req[q]
<1>1. s \in RequestState /\ Sound(s, faults) /\ s.phase = "streaming" /\ s.eligible # {}
  BY DEF TypeOK, RequestsAreSound, StreamEndUnrecorded, Sound
<1>2. faults' < MaxFaults
  BY ConstantsAssumption DEF StreamEndUnrecorded, TypeOK
<1>3. \/ req' = [req EXCEPT ![q] = Over("whole")]
      \/ \E v \in PostCommitVerdicts :
           req' = [req EXCEPT ![q] = [s EXCEPT !.phase = "settling", !.verdict = v]]
  BY DEF StreamEndUnrecorded, SucceedUnrecorded, TypeOK
<1> HIDE DEF s
<1>4. CASE req' = [req EXCEPT ![q] = Over("whole")]
  BY <1>4, OverIsSound DEF StaysSound, Answers
<1>5. ASSUME NEW v \in PostCommitVerdicts,
             req' = [req EXCEPT ![q] = [s EXCEPT !.phase = "settling", !.verdict = v]]
      PROVE  StaysSound(q)
  <2> DEFINE t == [s EXCEPT !.phase = "settling", !.verdict = v]
  <2>1. v \in Verdict /\ v.kind # "success"
    BY VerdictTypes
  <2>2. /\ t \in RequestState /\ t.phase = "settling" /\ t.verdict = v
        /\ t.eligible = s.eligible /\ t.answer = s.answer
        /\ t.called = s.called /\ t.record = s.record
    BY <1>1, <2>1 DEF RequestState, Phases
  <2> HIDE DEF t
  <2>3. SettledOnRecord(t, faults')
    BY <1>1, <1>2, <2>1, <2>2 DEF SettledOnRecord, Cur, Sound
  <2>4. Sound(t, faults')
    BY <1>1, <2>2, <2>3, EndIsSound
  <2>5. QED
    BY <1>5, <2>2, <2>4 DEF StaysSound, t
<1>6. QED
  BY <1>3, <1>4, <1>5

LEMMA SecretFailsSound ==
  ASSUME TypeOK, RequestsAreSound, NEW q \in Request, SecretFails(q)
  PROVE  StaysSound(q)
<1>1. req' = [req EXCEPT ![q] = GoOn(req[q])]
  BY DEF SecretFails, TypeOK
<1>2. req[q] \in RequestState /\ Sound(req[q], faults') /\ req[q].phase = "routed"
  BY DEF SecretFails, TypeOK, RequestsAreSound, Sound
<1>3. QED
  BY <1>1, <1>2, GoOnIsSound DEF StaysSound

(* What follows a verdict. *)
LEMMA SettledIsSound ==
  ASSUME NEW s \in RequestState, NEW left, Sound(s, left), s.phase = "settling"
  PROVE  Settled(s) \in RequestState /\ Sound(Settled(s), left)
BY OverIsSound, GoOnIsSound DEF Settled, Answers

LEMMA SettleSound ==
  ASSUME TypeOK, RequestsAreSound, NEW q \in Request, Settle(q)
  PROVE  StaysSound(q)
<1>1. req' = [req EXCEPT ![q] = Settled(req[q])] /\ faults' = faults
  BY DEF Settle, TypeOK
<1>2. req[q] \in RequestState /\ Sound(req[q], faults) /\ req[q].phase = "settling"
  BY DEF Settle, TypeOK, RequestsAreSound
<1>3. QED
  BY <1>1, <1>2, SettledIsSound DEF StaysSound

(* With fewer faults left, more has already gone wrong. *)
LEMMA SoundAfterFault ==
  ASSUME NEW s, NEW left \in Nat, NEW less \in Nat, less <= left, Sound(s, left)
  PROVE  Sound(s, less)
BY ConstantsAssumption DEF Sound, SettledOnRecord

LEMMA FaultsDecrease ==
  ASSUME TypeOK, Next
  PROVE  faults' \in 0 .. MaxFaults /\ faults' <= faults
<1>1. ASSUME NEW q \in Request, Arrive(q) PROVE faults' \in {faults, faults - 1} /\ faults' >= 0
  BY <1>1, ConstantsAssumption
     DEF Arrive, Refuse, ConfigurationFails, NoCandidate, CandidatesOfSqlite,
         CandidatesOfPrimary, CandidatesOfSnapshot, ProbeOfSnapshot, TypeOK
<1>2. ASSUME NEW q \in Request, Progress(q) PROVE faults' = faults
  BY <1>2 DEF Progress, ExecuteFails, Completes, Commits, StreamEnds, Settle
<1>3. ASSUME NEW q \in Request, Fault(q) PROVE faults > 0 /\ faults' = faults - 1
  BY <1>3 DEF Fault, SecretFails, RecordFails, StreamEndUnrecorded, MarkFails, Leave
<1>4. CASE Tick
  BY <1>4, ConstantsAssumption DEF Tick, TypeOK
<1>5. QED
  BY <1>1, <1>2, <1>3, <1>4, ConstantsAssumption DEF Next, TypeOK

LEMMA FaultSound ==
  ASSUME TypeOK, RequestsAreSound, NEW q \in Request, Fault(q), Next
  PROVE  StaysSound(q)
<1>1. CASE SecretFails(q)
  BY <1>1, SecretFailsSound
<1>2. CASE RecordFails(q)
  BY <1>2, OverIsSound DEF RecordFails, Unrecorded, StaysSound, Answers
<1>3. CASE StreamEndUnrecorded(q)
  BY <1>3, StreamEndUnrecordedSound
<1>4. CASE MarkFails(q)
  <2>1. req' = [req EXCEPT ![q] = IF req[q].answer = "streaming" THEN Settled(req[q])
                                  ELSE Over("error")]
    BY <1>4 DEF MarkFails, TypeOK
  <2>2. req[q] \in RequestState /\ req[q].phase = "settling" /\ Sound(req[q], faults')
    <3>1. faults \in Nat /\ faults' \in Nat /\ faults' <= faults
      BY FaultsDecrease, ConstantsAssumption DEF TypeOK
    <3>2. QED
      BY <1>4, <3>1, SoundAfterFault DEF MarkFails, TypeOK, RequestsAreSound
  <2>3. QED
    BY <2>1, <2>2, SettledIsSound, OverIsSound DEF StaysSound, Answers
<1>5. CASE Leave(q)
  BY <1>5, OverIsSound DEF Leave, StaysSound, Answers
<1>6. QED
  BY <1>1, <1>2, <1>3, <1>4, <1>5 DEF Fault

LEMMA ProgressSound ==
  ASSUME TypeOK, RequestsAreSound, NEW q \in Request, Progress(q)
  PROVE  StaysSound(q)
BY ExecuteFailsSound, CompletesSound, CommitsSound, StreamEndsSound, SettleSound DEF Progress

-----------------------------------------------------------------------------
(* All requests *)

LEMMA PassedType ==
  ASSUME NEW t \in RetryTime
  PROVE  Passed(t) \in RetryTime
BY ConstantsAssumption DEF Passed, RetryTime

LEMMA TickKeepsRequests ==
  ASSUME TypeOK, RequestsAreSound, Tick
  PROVE  req' \in [Request -> RequestState] /\ RequestsAreSound'
<1>1. ASSUME NEW q \in Request
      PROVE  /\ req'[q] \in RequestState /\ Sound(req'[q], faults)
             /\ req'[q].called = req[q].called
  <2> DEFINE s == req[q]
             t == [s EXCEPT !.verdict.retryIn = Passed(@)]
  <2>1. s \in RequestState /\ Sound(s, faults)
    BY DEF TypeOK, RequestsAreSound
  <2>2. req'[q] = t
    BY DEF Tick
  <2> HIDE DEF s
  <2>3. s.verdict \in Verdict /\ Passed(s.verdict.retryIn) \in RetryTime
    BY <2>1, PassedType DEF RequestState, Verdict
  <2>4. /\ t \in RequestState
        /\ t.phase = s.phase /\ t.eligible = s.eligible /\ t.called = s.called
        /\ t.record = s.record /\ t.answer = s.answer /\ t.verdict.kind = s.verdict.kind
    BY <2>1, <2>3 DEF RequestState, Verdict
  <2> HIDE DEF t
  <2>5. Sound(t, faults)
    BY <2>1, <2>4 DEF Sound, CalledInOrder, SettledOnRecord, Cur
  <2>6. QED
    BY <2>2, <2>4, <2>5 DEF s
<1>2. QED
  BY <1>1 DEF Tick, RequestsAreSound

LEMMA RequestsStep ==
  ASSUME TypeOK, RequestsAreSound, [Next]_vars
  PROVE  req' \in [Request -> RequestState] /\ RequestsAreSound'
<1>1. CASE UNCHANGED vars
  BY <1>1 DEF vars, TypeOK, RequestsAreSound
<1>2. CASE Tick
  BY <1>2, TickKeepsRequests
<1>3. ASSUME NEW q \in Request, Arrive(q) \/ Progress(q) \/ Fault(q)
      PROVE  req' \in [Request -> RequestState] /\ RequestsAreSound'
  <2>1. Next
    BY <1>3 DEF Next
  <2>2. StaysSound(q)
    BY <1>3, <2>1, ArriveSound, ProgressSound, FaultSound
  <2>3. PICK s \in RequestState : req' = [req EXCEPT ![q] = s] /\ Sound(s, faults')
    BY <2>2 DEF StaysSound
  <2>4. faults \in Nat /\ faults' \in Nat /\ faults' <= faults
    BY <2>1, FaultsDecrease, ConstantsAssumption DEF TypeOK
  <2>5. \A p \in Request : Sound(req[p], faults')
    BY <2>4, SoundAfterFault DEF RequestsAreSound
  <2>6. \A p \in Request : req'[p] = IF p = q THEN s ELSE req[p]
    BY <2>3 DEF TypeOK
  <2>7. QED
    BY <2>3, <2>5, <2>6 DEF TypeOK, RequestsAreSound
<1>4. QED
  BY <1>1, <1>2, <1>3 DEF Next

-----------------------------------------------------------------------------
(* Types *)

LEMMA MarkTypes ==
  ASSUME TypeOK, NEW r \in Route, NEW v \in Verdict, Mark(r, v)
  PROVE  /\ routeState' \in [Route -> RouteStates]
         /\ retryIn' \in [Route -> RetryTime]
         /\ blocked' \subseteq Account
BY ConstantsAssumption DEF Mark, Marked, TypeOK, RouteStates, Verdict

(* The route of a request that is in flight. *)
LEMMA CurrentType ==
  ASSUME TypeOK, RequestsAreSound, NEW q \in Request, req[q].phase # "idle"
  PROVE  Current(q) \in req[q].eligible /\ Current(q) \in Route /\ Current(q) = Cur(req[q])
<1>1. req[q].eligible \in SUBSET Route /\ req[q].eligible # {}
  BY DEF TypeOK, RequestState, RequestsAreSound, Sound
<1>2. QED
  BY <1>1, FirstIsFirst DEF Current, Cur

LEMMA CircuitTypes ==
  ASSUME TypeOK, RequestsAreSound, [Next]_vars
  PROVE  /\ store' = store
         /\ routeState' \in [Route -> RouteStates]
         /\ retryIn' \in [Route -> RetryTime]
         /\ blocked' \subseteq Account
<1> USE DEF circuit
<1>1. CASE UNCHANGED vars
  BY <1>1 DEF vars, TypeOK
<1>2. CASE Tick
  BY <1>2, PassedType DEF Tick, TypeOK
<1>3. ASSUME NEW q \in Request, Arrive(q)
      PROVE  /\ UNCHANGED <<store, retryIn, blocked>>
             /\ routeState' \in [Route -> RouteStates]
  BY <1>3 DEF Arrive, Refuse, ConfigurationFails, NoCandidate, CandidatesOfSqlite,
              CandidatesOfPrimary, CandidatesOfSnapshot, ProbeOfSnapshot, TypeOK, RouteStates
<1>4. ASSUME NEW q \in Request, Settle(q)
      PROVE  /\ store' = store
             /\ routeState' \in [Route -> RouteStates]
             /\ retryIn' \in [Route -> RetryTime]
             /\ blocked' \subseteq Account
  <2>1. Current(q) \in Route /\ req[q].verdict \in Verdict
    BY <1>4, CurrentType DEF Settle, TypeOK, RequestState
  <2>2. QED
    BY <1>4, <2>1, MarkTypes DEF Settle, TypeOK
<1>5. ASSUME NEW q \in Request, Progress(q) \/ Fault(q), ~ Settle(q)
      PROVE  UNCHANGED <<store, circuit>>
  BY <1>5 DEF Progress, ExecuteFails, Completes, Commits, StreamEnds, Fault, SecretFails,
              RecordFails, StreamEndUnrecorded, MarkFails, Leave
<1>6. QED
  BY <1>1, <1>2, <1>3, <1>4, <1>5 DEF Next, TypeOK

LEMMA InitSound == Init => TypeOK /\ RequestsAreSound
<1> SUFFICES ASSUME Init PROVE TypeOK /\ RequestsAreSound
  OBVIOUS
<1>1. "none" \in Answers
  BY DEF Answers
<1>2. routeState \in [Route -> RouteStates] /\ retryIn \in [Route -> RetryTime]
  <2>1. Captured \subseteq RouteStates /\ {0, Cooldown, Never} \subseteq RetryTime
    BY ConstantsAssumption DEF RouteStates, RetryTime
  <2>2. (IF store = "sqlite" THEN Captured \ {"half_open"} ELSE Captured) \subseteq RouteStates
    BY <2>1
  <2>3. QED
    BY <2>1, <2>2 DEF Init
<1>3. \A q \in Request : req[q].phase = "idle"
  BY DEF Init, Over
<1>4. QED
  BY <1>1, <1>2, <1>3, OverIsSound, ConstantsAssumption DEF Init, TypeOK, RequestsAreSound

LEMMA StepSound == TypeOK /\ RequestsAreSound /\ [Next]_vars => TypeOK' /\ RequestsAreSound'
<1> SUFFICES ASSUME TypeOK, RequestsAreSound, [Next]_vars PROVE TypeOK' /\ RequestsAreSound'
  OBVIOUS
<1>1. faults' \in 0 .. MaxFaults
  BY FaultsDecrease DEF vars, TypeOK
<1>2. QED
  <2>1. RequestsAreSound' /\ \A q \in Request : req'[q].phase # "idle" => req'[q].eligible # {}
    BY RequestsStep DEF RequestsAreSound, Sound
  <2>2. QED
    BY <1>1, <2>1, RequestsStep, CircuitTypes DEF TypeOK

(* The store, the circuit and the requests are well typed, and each request is  *)
(* as its phase says.                                                           *)
THEOREM TypeCorrect == Spec => [](TypeOK /\ RequestsAreSound)
BY InitSound, StepSound, PTL DEF Spec

-----------------------------------------------------------------------------
(* A request calls another provider only after an attempt that is on record as  *)
(* failed before commitment: routes are called in order, a stream that was      *)
(* committed has no other route left, and a failure after it adds none.         *)
THEOREM OnlyFailuresAreEverFollowed == Spec => []OnlyFailuresAreFollowed
<1>1. TypeOK /\ RequestsAreSound => OnlyFailuresAreFollowed
  <2> SUFFICES ASSUME TypeOK, RequestsAreSound,
                      NEW q \in Request, NEW r \in req[q].called, NEW s \in req[q].called,
                      r < s
               PROVE  req[q].record[r] = "failed"
    BY DEF OnlyFailuresAreFollowed
  <2>1. CalledInOrder(req[q]) /\ req[q].phase \in Phases
    BY DEF RequestsAreSound, Sound, TypeOK, RequestState
  <2>2. CASE req[q].phase \in {"idle", "routed"}
    BY <2>1, <2>2 DEF CalledInOrder
  <2>3. CASE req[q].phase \in {"streaming", "settling"}
    <3>1. Cur(req[q]) \in Nat /\ r \in Nat /\ s \in Nat
      BY <2>3, CurrentType, RoutesAreNumbers DEF TypeOK, RequestState
    <3>2. /\ r = Cur(req[q]) \/ (r < Cur(req[q]) /\ req[q].record[r] = "failed")
          /\ s = Cur(req[q]) \/ s < Cur(req[q])
      BY <2>1, <2>3 DEF CalledInOrder
    <3>3. QED
      BY <3>1, <3>2
  <2>4. QED
    BY <2>1, <2>2, <2>3 DEF Phases
<1>2. QED
  BY <1>1, TypeCorrect, PTL

(* A route is closed only by a request whose success on it is on record.        *)
THEOREM ClosedAlwaysOnRecord == Spec => ClosedIsOnRecord
<1> DEFINE Recovery ==
      \A r \in Route : routeState[r] # "closed" /\ routeState'[r] = "closed" =>
        \E q \in Request : Using(q, r) /\ req[q].record[r] = "succeeded"
<1>1. TypeOK /\ RequestsAreSound /\ [Next]_vars => [Recovery]_vars
  <2> SUFFICES ASSUME TypeOK, RequestsAreSound, [Next]_vars,
                      NEW r \in Route, routeState[r] # "closed", routeState'[r] = "closed"
               PROVE  \E q \in Request : Using(q, r) /\ req[q].record[r] = "succeeded"
    OBVIOUS
  <2> USE DEF circuit
  <2>1. CASE UNCHANGED vars \/ Tick
    BY <2>1 DEF vars, Tick
  <2>2. ASSUME NEW q \in Request, Arrive(q) PROVE FALSE
    BY <2>2 DEF Arrive, Refuse, ConfigurationFails, NoCandidate, CandidatesOfSqlite,
                CandidatesOfPrimary, CandidatesOfSnapshot, ProbeOfSnapshot, TypeOK
  <2>3. ASSUME NEW q \in Request, Progress(q) \/ Fault(q), ~ Settle(q) PROVE FALSE
    BY <2>3 DEF Progress, ExecuteFails, Completes, Commits, StreamEnds, Fault, SecretFails,
                RecordFails, StreamEndUnrecorded, MarkFails, Leave
  <2>4. ASSUME NEW q \in Request, Settle(q)
        PROVE  Using(q, r) /\ req[q].record[r] = "succeeded"
    <3>1. req[q].phase = "settling" /\ Current(q) \in Route /\ Current(q) = Cur(req[q])
      BY <2>4, CurrentType DEF Settle
    <3>2. r = Current(q) /\ req[q].verdict.kind = "success"
      BY <2>4, <3>1 DEF Settle, Mark, Marked, TypeOK
    <3>3. SettledOnRecord(req[q], faults)
      BY <3>1 DEF RequestsAreSound, Sound
    <3>4. QED
      BY <3>1, <3>2, <3>3 DEF SettledOnRecord, Using
  <2>5. QED
    BY <2>1, <2>2, <2>3, <2>4 DEF Next
<1>2. QED
  BY <1>1, TypeCorrect, PTL DEF Spec, ClosedIsOnRecord

(* What a client is shown of the end of a call is what is on record, as far as  *)
(* nothing failed or left: a completion only of a success, and a success on     *)
(* record as a completion.                                                      *)
THEOREM AnswersAreOnRecord == Spec => AnswerIsOnRecord
<1> DEFINE Told(q) ==
             LET outcome == req[q].record[Current(q)]
                 answer  == req'[q].answer
             IN  /\ answer = "whole" => outcome \in {"succeeded", "committed"}
                 /\ answer = "broken" => outcome \in {"partial_failed", "committed"}
                 /\ outcome = "succeeded" => answer = "whole" \/ faults' < MaxFaults
                 /\ outcome = "committed" => faults' < MaxFaults
           Ending(q) == req[q].phase # "idle" /\ req'[q].phase = "idle"
<1>1. TypeOK /\ RequestsAreSound /\ [Next]_vars => [\A q \in Request : Ending(q) => Told(q)]_vars
  <2> SUFFICES ASSUME TypeOK, RequestsAreSound, [Next]_vars, NEW q \in Request, Ending(q)
               PROVE  Told(q)
    OBVIOUS
  <2>1. /\ req[q] \in RequestState /\ Sound(req[q], faults) /\ Current(q) = Cur(req[q])
        /\ Cur(req[q]) \in Route
    BY CurrentType DEF TypeOK, RequestsAreSound
  <2>2. CASE UNCHANGED vars \/ Tick
    BY <2>1, <2>2 DEF vars, Tick, RequestState
  <2>3. ASSUME NEW p \in Request, p # q, Arrive(p) \/ Progress(p) \/ Fault(p) PROVE FALSE
    <3>1. StaysSound(p)
      BY <2>3, ArriveSound, ProgressSound, FaultSound DEF Next
    <3>2. req'[q] = req[q]
      BY <2>3, <3>1 DEF StaysSound, TypeOK
    <3>3. QED
      BY <3>2
  <2>4. CASE Arrive(q)
    BY <2>4 DEF Arrive, Refuse, ConfigurationFails, NoCandidate, CandidatesOfSqlite,
                CandidatesOfPrimary, CandidatesOfSnapshot, ProbeOfSnapshot
  <2>5. CASE ExecuteFails(q) \/ Completes(q) \/ Commits(q) \/ StreamEnds(q)
    BY <2>5 DEF ExecuteFails, Completes, Commits, StreamEnds, Committed, Recorded, TypeOK,
                RequestState
  <2>6. CASE Settle(q) \/ MarkFails(q)
    <3>1. /\ req[q].phase = "settling" /\ SettledOnRecord(req[q], faults)
          /\ req[q].answer \in {"none", "streaming"}
      BY <2>1, <2>6 DEF Settle, MarkFails, Sound
    <3>2. \/ req'[q] = Settled(req[q]) /\ faults' \in {faults, faults - 1}
          \/ req'[q] = Over("error") /\ faults' < MaxFaults
      BY <2>6, ConstantsAssumption DEF Settle, MarkFails, TypeOK
    <3>3. CASE req'[q] = Over("error") /\ faults' < MaxFaults
      BY <3>3 DEF Over
    <3>4. CASE req'[q] = Settled(req[q]) /\ faults' \in {faults, faults - 1}
      <4>1. CASE req[q].verdict.kind = "success"
        <5>1. req'[q].answer = "whole"
          BY <3>4, <4>1 DEF Settled, Over
        <5>2. QED
          BY <2>1, <3>1, <4>1, <5>1 DEF SettledOnRecord
      <4>2. CASE req[q].verdict.kind # "success"
        <5>1. req'[q] = GoOn(req[q])
          BY <3>4, <4>2 DEF Settled
        <5>2. req'[q].answer = IF req[q].answer = "streaming" THEN "broken" ELSE "error"
          BY <2>1, <5>1 DEF GoOn, Over, RequestState
        <5>3. faults < MaxFaults => faults' < MaxFaults
          BY <3>4, ConstantsAssumption DEF TypeOK
        <5>4. QED
          BY <2>1, <3>1, <4>2, <5>2, <5>3 DEF SettledOnRecord
      <4>3. QED
        BY <4>1, <4>2
    <3>5. QED
      BY <3>2, <3>3, <3>4
  <2>7. CASE Fault(q) /\ ~ MarkFails(q)
    <3>1. faults' < MaxFaults
      BY <2>7, ConstantsAssumption
         DEF Fault, SecretFails, RecordFails, StreamEndUnrecorded, Leave, TypeOK
    <3>2. CASE SecretFails(q)
      <4>1. req[q].answer = "none" /\ req'[q] = GoOn(req[q])
        BY <2>1, <3>2 DEF SecretFails, Sound, TypeOK
      <4>2. req'[q].answer = "error"
        BY <2>1, <4>1 DEF GoOn, Over, RequestState
      <4>3. QED
        BY <3>1, <4>2
    <3>3. CASE RecordFails(q) \/ Leave(q)
      BY <3>1, <3>3 DEF RecordFails, Leave, Unrecorded, Over, TypeOK
    <3>4. CASE StreamEndUnrecorded(q)
      <4>1. req[q].record[Current(q)] = "committed"
        BY <2>1, <3>4 DEF StreamEndUnrecorded, Sound
      <4>2. QED
        BY <3>1, <4>1
    <3>5. QED
      BY <2>7, <3>2, <3>3, <3>4 DEF Fault
  <2>8. QED
    BY <2>2, <2>3, <2>4, <2>5, <2>6, <2>7 DEF Next, Progress, Fault
<1>2. QED
  BY <1>1, TypeCorrect, PTL DEF Spec, AnswerIsOnRecord

-----------------------------------------------------------------------------
(* Half-open routes *)

(* A request that makes progress without a verdict stays on its route. *)
LEMMA ProgressStays ==
  ASSUME TypeOK, RequestsAreSound, NEW q \in Request,
         ExecuteFails(q) \/ Completes(q) \/ Commits(q) \/ StreamEnds(q)
  PROVE  /\ UNCHANGED <<store, circuit>>
         /\ req'[q].phase # "idle" /\ Current(q)' = Current(q)
         /\ req'[q].eligible \subseteq req[q].eligible
<1>1. /\ req[q] \in RequestState /\ req[q].phase # "idle"
      /\ Current(q) = First(req[q].eligible) /\ Current(q) \in Route
      /\ Current(q) \in req[q].eligible
  BY CurrentType DEF ExecuteFails, Completes, Commits, StreamEnds, TypeOK, Current
<1>2. /\ req'[q].phase # "idle"
      /\ req'[q].eligible \in {req[q].eligible, {Current(q)}}
  <2>1. \A outcome : /\ Recorded(req[q], outcome).phase = req[q].phase
                     /\ Recorded(req[q], outcome).eligible = req[q].eligible
    BY <1>1 DEF Recorded, RequestState
  <2>2. \A outcome : DOMAIN Recorded(req[q], outcome) = DOMAIN req[q]
    BY DEF Recorded
  <2>3. CASE ExecuteFails(q)
    <3>1. PICK v \in PreCommitVerdicts :
            req'[q] = [Recorded(req[q], "failed") EXCEPT !.phase = "settling", !.verdict = v]
      BY <2>3 DEF ExecuteFails, TypeOK
    <3>2. QED
      BY <1>1, <2>1, <2>2, <3>1 DEF RequestState
  <2>4. CASE Completes(q)
    BY <1>1, <2>1, <2>2, <2>4 DEF Completes, TypeOK, RequestState
  <2>5. CASE Commits(q)
    BY <1>1, <2>1, <2>2, <2>5 DEF Commits, Committed, TypeOK, RequestState
  <2>6. CASE StreamEnds(q)
    <3>1. CASE req'[q] = [Recorded(req[q], "succeeded") EXCEPT !.phase = "settling"]
      BY <1>1, <2>1, <2>2, <3>1 DEF RequestState
    <3>2. ASSUME NEW v \in PostCommitVerdicts,
                 req'[q] = [Recorded(req[q], "partial_failed") EXCEPT
                              !.phase = "settling", !.verdict = v]
          PROVE  req'[q].phase # "idle" /\ req'[q].eligible = req[q].eligible
      BY <1>1, <2>1, <2>2, <3>2 DEF RequestState
    <3>3. QED
      BY <2>6, <3>1, <3>2 DEF StreamEnds, TypeOK
  <2>7. QED
    BY <2>3, <2>4, <2>5, <2>6
<1>3. Current(q)' = Current(q)
  BY <1>1, <1>2, FirstOfOne DEF Current
<1>4. QED
  BY <1>1, <1>2, <1>3 DEF ExecuteFails, Completes, Commits, StreamEnds

LEMMA OthersStay ==
  ASSUME TypeOK, RequestsAreSound, NEW q \in Request,
         Arrive(q) \/ Progress(q) \/ Fault(q), NEW p \in Request, p # q,
         NEW r \in Route, Using(p, r)
  PROVE  Using(p, r)'
<1>1. StaysSound(q)
  BY ArriveSound, ProgressSound, FaultSound DEF Next
<1>2. req'[p] = req[p]
  BY <1>1 DEF StaysSound, TypeOK
<1>3. QED
  BY <1>2 DEF Using, Current

LEMMA HalfOpenStep ==
  TypeOK /\ RequestsAreSound /\ HalfOpenIsInUse /\ [Next]_vars => HalfOpenIsInUse'
<1> SUFFICES ASSUME TypeOK, RequestsAreSound, HalfOpenIsInUse, [Next]_vars,
                    faults' = MaxFaults, store' # "fallback",
                    NEW r \in Route, routeState'[r] = "half_open", AccountOf[r] \notin blocked'
             PROVE  \E q \in Request : Using(q, r)'
  BY DEF HalfOpenIsInUse
<1> USE DEF circuit
<1>1. faults = MaxFaults /\ store # "fallback"
  <2>1. CASE UNCHANGED vars
    BY <2>1 DEF vars
  <2>2. CASE Next
    BY <2>2, FaultsDecrease, CircuitTypes, ConstantsAssumption DEF TypeOK
  <2>3. QED
    BY <2>1, <2>2
<1>2. ASSUME routeState[r] = "half_open", AccountOf[r] \notin blocked
      PROVE  \E q \in Request : Using(q, r)
  BY <1>1, <1>2 DEF HalfOpenIsInUse
<1>3. CASE UNCHANGED vars
  BY <1>2, <1>3 DEF vars, Using, Current
<1>4. CASE Tick
  <2>1. \A q \in Request : req'[q].phase = req[q].phase /\ req'[q].eligible = req[q].eligible
    BY <1>4 DEF Tick, TypeOK, RequestState
  <2>2. QED
    BY <1>2, <1>4, <2>1 DEF Tick, Using, Current
<1>5. ASSUME NEW q \in Request, Arrive(q) PROVE \E p \in Request : Using(p, r)'
  <2>1. req[q].phase = "idle" /\ blocked' = blocked
    BY <1>5 DEF Arrive, Refuse, ConfigurationFails, NoCandidate, CandidatesOfSqlite,
                CandidatesOfPrimary, CandidatesOfSnapshot, ProbeOfSnapshot
  <2>2. CASE routeState[r] = "half_open"
    BY <1>2, <1>5, <2>1, <2>2, OthersStay DEF Using
  <2>3. CASE routeState[r] # "half_open"
    <3>1. ProbeOfSnapshot(q)
      BY <1>5, <2>3
         DEF Arrive, Refuse, ConfigurationFails, NoCandidate, CandidatesOfSqlite,
             CandidatesOfPrimary, CandidatesOfSnapshot
    <3>2. First(Retryable) = r
      BY <2>3, <3>1 DEF ProbeOfSnapshot, TypeOK
    <3>3. req'[q].phase = "routed" /\ req'[q].eligible = {r}
      BY <3>1, <3>2 DEF ProbeOfSnapshot, Routed, Over, TypeOK
    <3>4. QED
      BY <3>3, FirstOfOne DEF Using, Current
  <2>4. QED
    BY <2>2, <2>3
<1>6. ASSUME NEW q \in Request, Settle(q) PROVE \E p \in Request : Using(p, r)'
  <2>1. Mark(Current(q), req[q].verdict)
    BY <1>1, <1>6 DEF Settle
  <2>2. Current(q) \in Route /\ req[q].phase # "idle"
    BY <1>6, CurrentType DEF Settle
  <2>3. AccountOf[r] \notin blocked /\ r # Current(q) /\ routeState[r] = "half_open"
    BY <2>1, <2>2 DEF Mark, Marked, TypeOK
  <2>4. PICK p \in Request : Using(p, r)
    BY <1>2, <2>3
  <2>5. p # q
    BY <2>3, <2>4 DEF Using
  <2>6. QED
    BY <1>6, <2>4, <2>5, OthersStay DEF Progress
<1>7. ASSUME NEW q \in Request,
             ExecuteFails(q) \/ Completes(q) \/ Commits(q) \/ StreamEnds(q)
      PROVE  \E p \in Request : Using(p, r)'
  <2>1. PICK p \in Request : Using(p, r)
    BY <1>2, <1>7, ProgressStays
  <2>2. CASE p = q
    BY <1>7, <2>1, <2>2, ProgressStays DEF Using
  <2>3. CASE p # q
    BY <1>7, <2>1, <2>3, OthersStay DEF Progress
  <2>4. QED
    BY <2>2, <2>3
<1>8. ASSUME NEW q \in Request, Fault(q) PROVE FALSE
  BY <1>1, <1>8, ConstantsAssumption
     DEF Fault, SecretFails, RecordFails, StreamEndUnrecorded, MarkFails, Leave
<1>9. QED
  BY <1>3, <1>4, <1>5, <1>6, <1>7, <1>8 DEF Next, Progress

(* If no route was captured half_open, and as long as nothing fails and no      *)
(* client leaves, a route of a store of its own is half_open only while a       *)
(* request is on it, or its account is blocked.                                 *)
THEOREM HalfOpenAlwaysInUse ==
  ASSUME "half_open" \notin Captured
  PROVE  Spec => []HalfOpenIsInUse
<1>1. Init => HalfOpenIsInUse
  BY DEF Init, HalfOpenIsInUse
<1>2. QED
  BY <1>1, HalfOpenStep, TypeCorrect, PTL DEF Spec

-----------------------------------------------------------------------------
(* The circuit that the stores promise *)

(* A request that is not in flight is offered nothing. *)
IdleHasNothing == \A q \in Request : req[q].phase = "idle" => req[q].eligible = {}

LEMMA OverHasNothing ==
  \A answer : Over(answer).phase = "idle" /\ Over(answer).eligible = {}
BY DEF Over

LEMMA GoOnHasLess ==
  ASSUME NEW s \in RequestState
  PROVE  /\ GoOn(s).eligible \subseteq s.eligible
         /\ GoOn(s).phase = "idle" => GoOn(s).eligible = {}
<1>1. CASE LeavesOthers(s) = {}
  BY <1>1, OverHasNothing DEF GoOn
<1>2. CASE LeavesOthers(s) # {}
  <2>1. GoOn(s).eligible = LeavesOthers(s) /\ GoOn(s).phase = "routed"
    BY <1>2 DEF GoOn, RequestState
  <2>2. QED
    BY <2>1 DEF LeavesOthers
<1>3. QED
  BY <1>1, <1>2

(* A request in flight goes on with routes that it has, or is over. *)
LEMMA FlightHasLess ==
  ASSUME TypeOK, RequestsAreSound, NEW q \in Request, Progress(q) \/ Fault(q)
  PROVE  /\ req'[q].eligible \subseteq req[q].eligible
         /\ req'[q].phase = "idle" => req'[q].eligible = {}
<1> DEFINE s == req[q]
<1>1. s \in RequestState
  BY DEF TypeOK
<1>2. CASE \/ req'[q] = GoOn(s)
           \/ \E answer : req'[q] = Over(answer)
  BY <1>1, <1>2, GoOnHasLess, OverHasNothing
<1>3. CASE ExecuteFails(q) \/ Completes(q) \/ Commits(q) \/ StreamEnds(q)
  BY <1>3, ProgressStays
<1>4. Settled(s) = GoOn(s) \/ \E answer : Settled(s) = Over(answer)
  BY DEF Settled
<1>5. CASE Settle(q)
  BY <1>2, <1>4, <1>5 DEF Settle, TypeOK
<1>6. CASE SecretFails(q) \/ RecordFails(q) \/ MarkFails(q) \/ Leave(q)
  BY <1>2, <1>4, <1>6 DEF SecretFails, RecordFails, Unrecorded, MarkFails, Leave, TypeOK
<1>7. CASE StreamEndUnrecorded(q)
  <2>1. CASE req'[q] = SucceedUnrecorded(s)
    BY <1>2, <2>1 DEF SucceedUnrecorded
  <2>2. CASE req'[q].phase = "settling" /\ req'[q].eligible = s.eligible
    BY <2>2
  <2>3. QED
    BY <1>1, <1>7, <2>1, <2>2 DEF StreamEndUnrecorded, TypeOK, RequestState
<1>8. QED
  BY <1>3, <1>5, <1>6, <1>7 DEF Progress, Fault

(* A request that arrives is refused, or is given routes of the circuit, or of  *)
(* the primary behind a SnapshotFallback.                                       *)
LEMMA ArrivalHasUsable ==
  ASSUME TypeOK, NEW q \in Request, Arrive(q)
  PROVE  /\ req'[q].phase = "idle" => req'[q].eligible = {}
         /\ \/ req'[q].eligible \subseteq Promised!Usable
            \/ store = "fallback" /\ req'[q].eligible \subseteq Route
<1>1. ASSUME NEW routes, Routed(q, routes)
      PROVE  req'[q].phase = "routed" /\ req'[q].eligible = routes
  BY <1>1 DEF Routed, Over, TypeOK
<1>2. /\ Closed \subseteq Promised!Usable
      /\ Due \subseteq Promised!Usable
      /\ Retryable \subseteq Promised!Usable
  BY DEF Closed, Due, Retryable, Usable, Promised!Usable
<1>3. CASE Refuse(q) \/ ConfigurationFails(q) \/ NoCandidate(q)
  BY <1>3, OverHasNothing DEF Refuse, ConfigurationFails, NoCandidate, Refused, TypeOK
<1>4. CASE CandidatesOfSqlite(q)
  BY <1>1, <1>2, <1>4 DEF CandidatesOfSqlite
<1>5. CASE CandidatesOfPrimary(q)
  BY <1>1, <1>5 DEF CandidatesOfPrimary
<1>6. CASE CandidatesOfSnapshot(q)
  BY <1>1, <1>2, <1>6 DEF CandidatesOfSnapshot
<1>7. CASE ProbeOfSnapshot(q)
  <2>1. First(Retryable) \in Retryable
    BY <1>7, FirstIsFirst DEF ProbeOfSnapshot, Retryable
  <2>2. QED
    BY <1>1, <1>2, <1>7, <2>1 DEF ProbeOfSnapshot
<1>8. QED
  BY <1>3, <1>4, <1>5, <1>6, <1>7 DEF Arrive

LEMMA IdleStep ==
  TypeOK /\ RequestsAreSound /\ IdleHasNothing /\ [Next]_vars => IdleHasNothing'
<1> SUFFICES ASSUME TypeOK, RequestsAreSound, IdleHasNothing, [Next]_vars
             PROVE  IdleHasNothing'
  OBVIOUS
<1>1. CASE UNCHANGED vars
  BY <1>1 DEF vars, IdleHasNothing
<1>2. CASE Tick
  <2>1. \A q \in Request : req'[q].phase = req[q].phase /\ req'[q].eligible = req[q].eligible
    BY <1>2 DEF Tick, TypeOK, RequestState
  <2>2. QED
    BY <2>1 DEF IdleHasNothing
<1>3. ASSUME NEW q \in Request, Arrive(q) \/ Progress(q) \/ Fault(q)
      PROVE  IdleHasNothing'
  <2>1. StaysSound(q)
    BY <1>3, ArriveSound, ProgressSound, FaultSound DEF Next
  <2>2. \A p \in Request : p # q => req'[p] = req[p]
    BY <2>1 DEF StaysSound, TypeOK
  <2>3. req'[q].phase = "idle" => req'[q].eligible = {}
    BY <1>3, ArrivalHasUsable, FlightHasLess
  <2>4. QED
    BY <2>2, <2>3 DEF IdleHasNothing
<1>4. QED
  BY <1>1, <1>2, <1>3 DEF Next

(* What a step of one request leaves it of its offer. *)
LEMMA OfferOfOne ==
  ASSUME TypeOK, NEW q \in Request, StaysSound(q)
  PROVE  [p \in Request |-> req[p].eligible]'
           = [[p \in Request |-> req[p].eligible] EXCEPT ![q] = req'[q].eligible]
<1>1. /\ req' \in [Request -> RequestState]
      /\ \A p \in Request : p # q => req'[p] = req[p]
  BY DEF StaysSound, TypeOK
<1>2. QED
  BY <1>1

LEMMA ProbeRefines ==
  ASSUME TypeOK, IdleHasNothing, NEW q \in Request, ProbeOfSnapshot(q)
  PROVE  \E r \in Route : Promised!Probe(q, r)
<1>1. PICK r \in Retryable : r = First(Retryable)
  BY FirstIsFirst DEF ProbeOfSnapshot, Retryable
<1>2. r \in Route /\ Usable(r) /\ routeState[r] = "open" /\ retryIn[r] = 0
  BY <1>1 DEF Retryable
<1>3. req[q].eligible = {} /\ Promised!Choice(q) = Promised!Usable
  BY DEF ProbeOfSnapshot, IdleHasNothing, Promised!Choice
<1>4. r \in Promised!Usable
  BY <1>2 DEF Usable, Promised!Usable
<1>5. /\ routeState' = [routeState EXCEPT ![r] = "half_open"]
      /\ UNCHANGED <<store, retryIn, blocked>>
      /\ req'[q].eligible = {r}
  BY <1>1 DEF ProbeOfSnapshot, Routed, Over, TypeOK
<1>6. Promised!Keeps(q, Promised!Choice(q))
  BY <1>3, <1>4, <1>5, OfferOfOne, ArriveSound DEF Arrive, Promised!Keeps
<1>7. {s \in Route : routeState'[s] = "half_open"}
        = {s \in Route : routeState[s] = "half_open"} \union {r}
  BY <1>2, <1>5 DEF TypeOK
<1>8. Promised!Probe(q, r)
  BY <1>2, <1>3, <1>4, <1>5, <1>6, <1>7 DEF Promised!Probe
<1>9. QED
  BY <1>2, <1>8

(* A verdict that reaches the circuit is one on a route that was offered. *)
LEMMA SettleRefines ==
  ASSUME TypeOK, RequestsAreSound, NEW q \in Request, Settle(q),
         Mark(Current(q), req[q].verdict)
  PROVE  \E r \in Route : Promised!Judge(q, r)
<1>1. PICK r \in Route : r = Current(q) /\ r \in req[q].eligible
  BY CurrentType DEF Settle
<1> DEFINE v == req[q].verdict
<1>2. Promised!Keeps(q, [p \in Request |-> req[p].eligible][q])
  <2>1. StaysSound(q) /\ req'[q].eligible \subseteq req[q].eligible
    BY ProgressSound, FlightHasLess DEF Progress, Next
  <2>2. QED
    BY <2>1, OfferOfOne DEF Promised!Keeps
<1>3. store' = store
  BY DEF Settle
<1>4. CASE v.kind = "account"
  <2>1. /\ blocked' = blocked \union {AccountOf[r]}
        /\ UNCHANGED <<routeState, retryIn>>
    BY <1>1, <1>4 DEF Mark
  <2>2. Promised!Judge(q, r)
    BY <1>1, <1>2, <1>3, <2>1 DEF Promised!Judge, Promised!Keeps
  <2>3. QED
    BY <1>1, <2>2
<1>5. CASE v.kind # "account"
  <2> DEFINE verdict == Marked(r, v)
  <2>1. /\ routeState' = [routeState EXCEPT ![r] = verdict]
        /\ retryIn' = [retryIn EXCEPT ![r] = v.retryIn]
        /\ blocked' = blocked
    BY <1>1, <1>5 DEF Mark
  <2>2. verdict \in {"closed", "open"}
    BY DEF Marked
  <2> HIDE DEF verdict
  <2>3. LET due == {s \in Route : retryIn[s] = 0}
        IN  {s \in Route : retryIn'[s] = 0} \in {due \ {r}, due \union {r}}
    <3>1. CASE v.retryIn = 0
      BY <1>1, <2>1, <3>1 DEF TypeOK
    <3>2. CASE v.retryIn # 0
      BY <1>1, <2>1, <3>2 DEF TypeOK
    <3>3. QED
      BY <3>1, <3>2
  <2>4. {s \in Route : routeState'[s] = "half_open"}
          = {s \in Route : routeState[s] = "half_open"} \ {r}
    BY <1>1, <2>1, <2>2 DEF TypeOK
  <2>5. Promised!Judge(q, r)
    BY <1>1, <1>2, <1>3, <2>1, <2>2, <2>3, <2>4 DEF Promised!Judge, Promised!Keeps
  <2>6. QED
    BY <1>1, <2>5
<1>6. QED
  BY <1>4, <1>5

LEMMA RefinesStep ==
  TypeOK /\ RequestsAreSound /\ IdleHasNothing /\ [Next]_vars => [Promised!Next]_(Promised!vars)
<1> SUFFICES ASSUME TypeOK, RequestsAreSound, IdleHasNothing, [Next]_vars
             PROVE  [Promised!Next]_(Promised!vars)
  OBVIOUS
<1>1. CASE UNCHANGED vars
  BY <1>1 DEF vars, circuit, Promised!vars, Promised!circuit
<1>2. CASE Tick
  <2>1. \A q \in Request : req'[q].eligible = req[q].eligible
    BY <1>2 DEF Tick, TypeOK, RequestState
  <2>2. {r \in Route : retryIn[r] = 0} \subseteq {r \in Route : retryIn'[r] = 0}
    BY <1>2 DEF Tick, Passed
  <2>3. Promised!Time
    BY <1>2, <2>1, <2>2 DEF Tick, Promised!Time
  <2>4. QED
    BY <2>3 DEF Promised!Next
<1>3. ASSUME NEW q \in Request, Arrive(q), ~ ProbeOfSnapshot(q)
      PROVE  Promised!Next
  <2>1. UNCHANGED <<store, circuit>> /\ req[q].phase = "idle"
    BY <1>3 DEF Arrive, Refuse, ConfigurationFails, NoCandidate, CandidatesOfSqlite,
                CandidatesOfPrimary, CandidatesOfSnapshot
  <2>2. req[q].eligible = {} /\ Promised!Choice(q) = Promised!Usable
    BY <2>1 DEF IdleHasNothing, Promised!Choice
  <2>3. \/ Promised!Keeps(q, Promised!Choice(q))
        \/ Promised!Keeps(q, IF store = "fallback" THEN Route ELSE {})
    BY <1>3, <2>2, OfferOfOne, ArriveSound, ArrivalHasUsable DEF Promised!Keeps
  <2>4. Promised!Offer(q)
    BY <2>1, <2>3 DEF Promised!Offer, Promised!Keeps, Promised!circuit, circuit
  <2>5. QED
    BY <2>4 DEF Promised!Next
<1>4. ASSUME NEW q \in Request, Progress(q) \/ Fault(q), UNCHANGED <<store, circuit>>
      PROVE  [Promised!Next]_(Promised!vars)
  <2>1. StaysSound(q)
    BY <1>4, ProgressSound, FaultSound DEF Next
  <2>2. req'[q].eligible \subseteq req[q].eligible
    BY <1>4, FlightHasLess
  <2>3. CASE req[q].eligible # {}
    <3>1. Promised!Keeps(q, Promised!Choice(q))
      BY <2>1, <2>2, <2>3, OfferOfOne DEF Promised!Choice, Promised!Keeps
    <3>2. Promised!Offer(q)
      BY <1>4, <3>1 DEF Promised!Offer, Promised!circuit, circuit
    <3>3. QED
      BY <3>2 DEF Promised!Next
  <2>4. CASE req[q].eligible = {}
    <3>1. req[q].phase # "idle"
      BY <1>4 DEF Progress, ExecuteFails, Completes, Commits, StreamEnds, Settle, Fault,
                  SecretFails, RecordFails, StreamEndUnrecorded, MarkFails, Leave
    <3>2. QED
      BY <2>4, <3>1 DEF RequestsAreSound, Sound
  <2>5. QED
    BY <2>3, <2>4
<1>5. ASSUME NEW q \in Request, ProbeOfSnapshot(q)
      PROVE  Promised!Next
  BY <1>5, ProbeRefines DEF Promised!Next
<1>6. ASSUME NEW q \in Request, Settle(q), Mark(Current(q), req[q].verdict)
      PROVE  Promised!Next
  BY <1>6, SettleRefines DEF Promised!Next
<1>7. ASSUME NEW q \in Request, Progress(q) \/ Fault(q), ~ Settle(q)
      PROVE  UNCHANGED <<store, circuit>>
  BY <1>7 DEF Progress, ExecuteFails, Completes, Commits, StreamEnds, Fault, SecretFails,
              RecordFails, StreamEndUnrecorded, MarkFails, Leave
<1>8. ASSUME NEW q \in Request, Settle(q), ~ Mark(Current(q), req[q].verdict)
      PROVE  UNCHANGED <<store, circuit>>
  BY <1>8 DEF Settle
<1>9. QED
  BY <1>1, <1>2, <1>3, <1>4, <1>5, <1>6, <1>7, <1>8 DEF Next, Progress

(* Each of the stores implements the circuit: a request goes only to routes     *)
(* that were closed or due when it asked, or that another store gave it; a      *)
(* route becomes half_open only when it is due, unblocked and not half_open     *)
(* already; and only a request that was offered a route gives a verdict on it.  *)
THEOREM CircuitRefined == Spec => ImplementsCircuit
<1>1. Init => Promised!Init
  <2> SUFFICES ASSUME Init PROVE Promised!Init
    OBVIOUS
  <2>1. routeState \in [Route -> Promised!States]
    BY InitSound DEF TypeOK, RouteStates, Promised!States
  <2>2. [q \in Request |-> req[q].eligible] = [q \in Request |-> {}]
    BY OverHasNothing DEF Init
  <2>3. [q \in Request |-> IF store = "fallback" THEN Route ELSE {}]
          \in [Request -> SUBSET Route]
    OBVIOUS
  <2>4. QED
    BY <2>1, <2>2, <2>3 DEF Init, Promised!Init
<1>2. Init => IdleHasNothing
  BY OverHasNothing DEF Init, IdleHasNothing
<1>3. Spec => []IdleHasNothing
  BY <1>2, IdleStep, TypeCorrect, PTL DEF Spec
<1>4. QED
  BY <1>1, <1>3, RefinesStep, TypeCorrect, PTL DEF Spec, ImplementsCircuit, Promised!Spec
=============================================================================
