------------------------------ MODULE LLMClient ------------------------------
(***************************************************************************)
(* OpenAICompatibleLLM.complete of ai_company/llm_free.py: up to           *)
(* max_retries requests, with a wait after each one that failed.           *)
(*                                                                         *)
(* Abstracted: the payload, the text of the answer, and how long a request *)
(* takes: its timeout bounds connecting and each read, so the code has no  *)
(* bound for the whole of it.  What a request ends with is one of          *)
(*   "text"      a completion                                              *)
(*   "limited"   429, with a retry-after                                   *)
(*   "failed"    an error status, a timeout, no connection, an answer that *)
(*               is no JSON or has no choices                              *)
(*   "odd"       an answer that raises something complete() does not catch *)
(*               (a retry-after that is negative or no number, JSON of     *)
(*               another shape).                                           *)
(***************************************************************************)
EXTENDS Integers, Sequences, FiniteSets

CONSTANTS MaxRetries,
          MaxRateLimitWait,   \* MAX_RATE_LIMIT_WAIT
          RetryAfters         \* the retry-after values a server may send

LeastOf(x, y) == IF x <= y THEN x ELSE y

ASSUME ClientAssumption == /\ MaxRateLimitWait \in Nat
                           /\ MaxRetries \in Nat \ {0}
                           /\ RetryAfters \subseteq Nat

VARIABLES call,      \* "request", "limited", "failed", "returned", "raised", "escaped"
          attempt,
          waited,     \* seconds complete() has slept
          lastError,  \* what last_error says: "none", "limited", "failed"
          replies     \* not in the code: what the server answered, in order

clientVars == <<call, attempt, waited, lastError, replies>>

ClientTypeOK ==
  /\ call \in {"request", "limited", "failed", "returned", "raised", "escaped"}
  /\ attempt \in 1..MaxRetries
  /\ waited \in Nat
  /\ lastError \in {"none", "limited", "failed"}
  /\ replies \in Seq({"text", "limited", "failed", "odd"})

ClientInit ==
  /\ call = "request"
  /\ attempt = 1
  /\ waited = 0
  /\ lastError = "none"
  /\ replies = <<>>

\* The next call starts with locals of its own.
NewCall ==
  /\ call' = "request"
  /\ attempt' = 1
  /\ waited' = 0
  /\ lastError' = "none"
  /\ replies' = <<>>

Receive(kind) ==
  /\ call = "request"
  /\ replies' = Append(replies, kind)
  /\ UNCHANGED <<attempt, waited>>

Answered == Receive("text") /\ call' = "returned" /\ UNCHANGED lastError
Limited  == Receive("limited") /\ call' = "limited" /\ lastError' = "limited"
Failed   == Receive("failed") /\ call' = "failed" /\ lastError' = "failed"
Odd      == Receive("odd") /\ call' = "escaped" /\ UNCHANGED lastError

\* The loop goes round, or is over.
NextAttempt ==
  IF attempt < MaxRetries
  THEN call' = "request" /\ attempt' = attempt + 1
  ELSE call' = "raised" /\ attempt' = attempt

\* Bug: the server's retry-after is trusted.
WaitAsTold ==
  /\ call = "limited"
  /\ \E after \in RetryAfters : waited' = waited + after
  /\ NextAttempt
  /\ UNCHANGED <<lastError, replies>>

\* Bug: a refused request does not count as an attempt.
WaitUncounted ==
  /\ call = "limited"
  /\ call' = "request"
  /\ UNCHANGED <<attempt, waited, lastError, replies>>

\* 429: wait as told, or 2 * attempt seconds if there is no retry-after header,
\* but no longer than MaxRateLimitWait.  It waits after the last attempt too.
WaitForLimit ==
  /\ call = "limited"
  /\ \E after \in RetryAfters \union {2 * attempt} :
       waited' = waited + LeastOf(after, MaxRateLimitWait)
  /\ NextAttempt
  /\ UNCHANGED <<lastError, replies>>

\* min(2 ** attempt, 10): from the fourth attempt on the power exceeds 10.
BackOffSeconds == IF attempt > 3 THEN 10 ELSE <<2, 4, 8>>[attempt]

\* Any other failure: exponential back-off, after the last attempt too.
BackOff ==
  /\ call = "failed"
  /\ waited' = waited + BackOffSeconds
  /\ NextAttempt
  /\ UNCHANGED <<lastError, replies>>

ClientStep == Answered \/ Limited \/ Failed \/ Odd \/ WaitForLimit \/ BackOff
------------------------------------------------------------------------------
(* Properties. *)

\* The longest wait after a failure.
MaxWait == IF MaxRateLimitWait > 10 THEN MaxRateLimitWait ELSE 10

\* Whatever the server answers and asks for, complete() never sleeps longer than
\* the longer of its two waits for each request it has made.  (How long the
\* requests themselves take is up to the server.)
WaitsBounded == waited <= Len(replies) * MaxWait

\* complete() gives up only after max_retries failures, and the error it raises
\* names the last of them; it returns only what the last request brought.
GivesUpHonestly ==
  /\ call = "raised" =>
       /\ Len(replies) = MaxRetries
       /\ \A i \in 1..MaxRetries : replies[i] \in {"limited", "failed"}
       /\ lastError = replies[MaxRetries]
  /\ call = "returned" => replies[Len(replies)] = "text"
  /\ Len(replies) <= MaxRetries
==============================================================================
