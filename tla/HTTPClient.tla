----------------------------- MODULE HTTPClient -----------------------------
(***************************************************************************)
(* GovernedHTTPClient (governai/integrations/http_client.py): requests that    *)
(* run concurrently retry on their own and share one circuit breaker.  An     *)
(* attempt runs in a thread, so other requests move on while it is under way;  *)
(* what follows its outcome, up to the next await, is one step.              *)
(***************************************************************************)
EXTENDS Naturals, FiniteSets

CONSTANTS Requests,      \* the requests that may be under way at once
          RetryAttempts, \* retry_attempts
          FailMax,       \* circuit_fail_max
          ResetAfter     \* circuit_reset_seconds, in ticks of the clock

VARIABLES circuit, \* failures in a row; whether it is open, and for how long
          request, \* the attempt each request is at
          late     \* requests under way when the circuit opened, attempts since

httpVars == <<circuit, request, late>>

Closed == [failures |-> 0, open |-> FALSE, age |-> 0]
NoRequest == [pc |-> "idle", attempt |-> 0]
NoneLate == [under |-> 0, sent |-> 0]
UnderWay == {q \in Requests : request[q].pc # "idle"}

HTTPInit ==
  /\ circuit = Closed
  /\ request = [q \in Requests |-> NoRequest]
  /\ late = NoneLate

(* What an attempt may come to: a status the caller accepts, one of           *)
(* retry_status_codes, another status, an error before the request was sent    *)
(* (URLError), or a timeout or reset while the answer is awaited, which        *)
(* urllib raises as it is.                                                  *)
Accepted == {"ok"}
Retryable == {"busy", "unreachable"}
Fatal == {"refused"}
Unwrapped == {"timeout"}
Answers == Accepted \cup Retryable \cup Fatal \cup Unwrapped

Attempts == IF RetryAttempts > 1 THEN RetryAttempts ELSE 1

CircuitOpen == circuit.open /\ circuit.age < ResetAfter

RecordSuccess == circuit' = Closed /\ late' = NoneLate

RecordFailure ==
  LET failures == circuit.failures + 1
      opens == failures >= FailMax IN
    /\ circuit' = [failures |-> failures,
                   open |-> circuit.open \/ opens,
                   age |-> IF opens THEN 0 ELSE circuit.age]
    /\ late' = IF opens /\ ~circuit.open
               THEN [under |-> Cardinality(UnderWay), sent |-> 0] ELSE late

(* The circuit is looked at once, before the first attempt; a circuit whose    *)
(* time is over is closed by whoever looks.                                 *)
Admit(q) ==
  /\ request[q].pc = "idle"
  /\ ~CircuitOpen
  /\ request' = [request EXCEPT ![q] = [pc |-> "sent", attempt |-> 1]]
  /\ IF circuit.open THEN RecordSuccess
                     ELSE UNCHANGED <<circuit, late>>

Refuse(q) ==
  /\ request[q].pc = "idle"
  /\ CircuitOpen
  /\ UNCHANGED httpVars

(* Does this answer end the request, or is it tried again after a pause?       *)
(* Faulty variant: one attempt too many.                                    *)
RetriesOnceMore(q, a) == a \in Retryable /\ request[q].attempt <= Attempts
Retries(q, a) == a \in Retryable /\ request[q].attempt < Attempts

Answer(q, a) ==
  /\ request[q].pc = "sent"
  /\ request' = [request EXCEPT ![q] = IF Retries(q, a)
                                       THEN [@ EXCEPT !.pc = "backoff"]
                                       ELSE NoRequest]
  /\ CASE a \in Accepted -> RecordSuccess
       [] a \in Unwrapped -> UNCHANGED <<circuit, late>>
       [] OTHER -> RecordFailure

Resend(q) ==
  /\ request[q].pc = "backoff"
  /\ request' = [request EXCEPT ![q] = [pc |-> "sent", attempt |-> @.attempt + 1]]
  /\ late' = IF circuit.open THEN [late EXCEPT !.sent = @ + 1] ELSE late
  /\ UNCHANGED circuit

(* Only whether circuit_reset_seconds have passed matters. *)
PassTime ==
  /\ circuit.open
  /\ circuit.age < ResetAfter
  /\ circuit' = [circuit EXCEPT !.age = @ + 1]
  /\ UNCHANGED <<request, late>>
=============================================================================
