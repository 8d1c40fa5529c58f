-------------------------- MODULE ProviderFailures --------------------------
(***************************************************************************)
(* What a failed attempt says of its account and its route: the categories *)
(* of slg-domain, the classification of an error response by the executor, *)
(* that of an error event inside a stream by the decoder, and the failures *)
(* that carry no answer of the provider at all.                            *)
(***************************************************************************)
EXTENDS Naturals, Sequences

CONSTANTS
  Cooldown,  \* seconds from a failure to the retry_at it is given
  Never      \* no retry_at

Category == {"quota_exhausted", "credit_exhausted", "spend_limit_exceeded",
             "rate_limited", "concurrency_limited", "authentication_failed",
             "model_unavailable", "provider_unavailable", "unknown"}

BlocksAccount == {"quota_exhausted", "credit_exhausted", "spend_limit_exceeded",
                  "authentication_failed"}

OpensRoute == {"rate_limited", "concurrency_limited", "model_unavailable",
               "provider_unavailable", "unknown"}

(* The categories that pass by themselves. *)
Temporary == {"rate_limited", "concurrency_limited", "provider_unavailable", "unknown"}

(* Status codes as far as classify tells them apart. *)
Status == {"unauthorized", "forbidden", "not_found", "too_many_requests",
           "server_error", "other"}

(* What is looked for in error.code. *)
Word == {"insufficient_quota", "quota_exceeded", "credit", "rate", "model", "auth", "key"}

RetryTime == Nat \union {Never}
Failure   == [category : Category, retryIn : RetryTime]

(* Rules are tried in order; the last one always applies. *)
FirstRule(rules) ==
  LET first == CHOOSE i \in 1 .. Len(rules) :
                 /\ rules[i].holds
                 /\ \A j \in 1 .. i - 1 : ~rules[j].holds
  IN  rules[first].category

Rule(holds, category) == [holds |-> holds, category |-> category]

Sanitized(category) ==
  [category |-> category, retryIn |-> IF category \in Temporary THEN Cooldown ELSE Never]

(* An error response before commitment; words are those its error.code contains. *)
Classify(status, words) ==
  Sanitized(FirstRule(
    << Rule(status \in {"unauthorized", "forbidden"}, "authentication_failed"),
       Rule(words \intersect {"insufficient_quota", "quota_exceeded"} # {}, "quota_exhausted"),
       Rule("credit" \in words, "credit_exhausted"),
       Rule(status = "too_many_requests", "rate_limited"),
       Rule(status = "not_found" \/ "model" \in words, "model_unavailable"),
       Rule(status = "server_error", "provider_unavailable"),
       Rule(TRUE, "unknown") >>))

(* An error event of a stream. *)
StreamError(words) ==
  Sanitized(FirstRule(
    << Rule(words \intersect {"insufficient_quota", "quota_exceeded"} # {}, "quota_exhausted"),
       Rule("credit" \in words, "credit_exhausted"),
       Rule("rate" \in words, "rate_limited"),
       Rule("model" \in words, "model_unavailable"),
       Rule(words \intersect {"auth", "key"} # {}, "authentication_failed"),
       Rule(TRUE, "provider_unavailable") >>))

(* A frame that cannot be decoded, or a transport that breaks off. *)
BadFrame == Sanitized("provider_unavailable")

(* No response at all; or the end of a stream without a terminal event, which   *)
(* the port allows and the decoder of this repository never yields.             *)
Unanswered == [category |-> "provider_unavailable", retryIn |-> Never]

PreCommitFailures  == {Classify(s, w) : s \in Status, w \in SUBSET Word} \union {Unanswered}
PostCommitFailures == {StreamError(w) : w \in SUBSET Word} \union {BadFrame, Unanswered}
=============================================================================
