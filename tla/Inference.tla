------------------------------ MODULE Inference ------------------------------
(***************************************************************************)
(* One call of a language model (provider.go, llm.go and the adapters of   *)
(* Groq and Ollama): what the agent is told of an HTTP answer.             *)
(*                                                                         *)
(* A provider is [name, strict], where strict says whether its model takes *)
(* the answer's schema.  An answer is [status, retry_after, dated, body]   *)
(* and what the model says; status 0 is a failed connection.  retry_after  *)
(* is the delay that the header of that name asks for in seconds, as a     *)
(* number or as a date, or 0 if there is none.                             *)
(***************************************************************************)
EXTENDS Naturals

MaxRetryDelay == 20

(* Only Groq asks for delays that count, of up to five minutes if it says  *)
(* so as a number.                                                         *)
RetryAfter(provider, answer) ==
    IF /\ provider.name = "groq"
       /\ answer.status = 429
       /\ answer.dated \/ answer.retry_after <= 300
    THEN answer.retry_after ELSE 0

(* The request is sent only if the model takes the schema; its answer is   *)
(* complete and a JSON object, or it is an error. Whether the object is an *)
(* analysis the caller finds out.                                          *)
ChatSucceeds(provider, answer) ==
    /\ provider.name = "groq" => provider.strict
    /\ answer.status = 200
    /\ answer.body \in {"analysis", "other object"}

(* The one retry: after a rate limit with a short delay.                   *)
Retryable(provider, answer) ==
    /\ provider.name = "groq" => provider.strict
    /\ RetryAfter(provider, answer) \in 1..MaxRetryDelay
=============================================================================
