------------------------------ MODULE EsClient ------------------------------
(***************************************************************************)
(* app/integrations/elasticsearch/client.js: a request is tried a few      *)
(* times.  In every try the idle timer, the socket, the response's chunks  *)
(* and its end race for one promise, which the first of them settles; what *)
(* comes later finds it settled.  A try that failed is classified, and     *)
(* the transient failures are tried again.                                 *)
(*                                                                         *)
(* Delays and headers are left out.  A response is a number of chunks.     *)
(***************************************************************************)
EXTENDS Integers, Sequences, SequencesExt

CONSTANTS
  Retries,          \* config.retries
  MaxResponseBytes, \* the ceiling, in chunks
  MaxChunks         \* bound: chunks of a response

EsClientAssumption == {Retries, MaxResponseBytes, MaxChunks} \subseteq Nat

VARIABLES
  esRequest,  \* the request: its method, the try under way and what it came to
  esTries     \* history: what every try came to, and what the server said in it

vars == <<esRequest, esTries>>

Method == {"GET", "POST", "PUT"}

Status == {200, 401, 404, 429, 500, 503}

SocketError == {"ECONNREFUSED", "ECONNRESET", "EAI_AGAIN", "EPROTO"}

-----------------------------------------------------------------------------
(* Failures *)

RetryableCodes == {"ECONNRESET", "ETIMEDOUT", "EPIPE", "EAI_AGAIN", "ESOCKETTIMEDOUT", "TIMEOUT"}

RetryableStatus == {429, 502, 503, 504}

\* A failure has a code of the transport, or a status above 0.
Retryable(failure) == failure.code \in RetryableCodes \/ failure.status \in RetryableStatus

\* The kind that is reported.
DescribeError(failure) ==
  CASE failure.status = 401 -> "authentication_failed"
    [] failure.status = 403 -> "permission_denied"
    [] failure.status = 404 -> "unsupported_endpoint"
    [] failure.status = 429 -> "throttled"
    [] failure.status >= 500 -> "server_error"
    [] failure.status \in 1 .. 499 \ {401, 403, 404, 429} -> "request_failed"
    [] failure.code = "ECONNREFUSED" -> "connection_refused"
    [] failure.code \in {"ENOTFOUND", "EAI_AGAIN"} -> "host_not_found"
    [] failure.code \in {"ECONNRESET", "EPIPE"} -> "connection_reset"
    [] failure.code \in {"TIMEOUT", "ETIMEDOUT", "ESOCKETTIMEDOUT"} -> "timeout"
    [] failure.code = "RESPONSE_TOO_LARGE" -> "response_too_large"
    [] failure.code = "INVALID_JSON" -> "invalid_response"
    [] failure.code = "EPROTO" -> "tls_error"

Code(code) == [code |-> code, status |-> 0]

-----------------------------------------------------------------------------
(* A request *)

Try(n) == [pc |-> "waiting", try |-> n, status |-> 0, size |-> 0]

\* Only GET and POST leave the agent.
Request ==
  /\ esRequest.pc = "idle"
  /\ \E method \in Method :
       esRequest' = IF method \in {"GET", "POST"} THEN Try(1)
                    ELSE [pc |-> "rejected", kind |-> "forbidden_method"]
  /\ UNCHANGED esTries

\* Mutation: one try more than there are retries.
FailsOnceMore(failure) ==
  IF Retryable(failure) /\ esRequest.try <= Retries + 1 THEN Try(esRequest.try + 1)
  ELSE [pc |-> "rejected", kind |-> DescribeError(failure)]

\* The promise is rejected: another try, or the caller is told.
Fails(failure) ==
  IF Retryable(failure) /\ esRequest.try <= Retries THEN Try(esRequest.try + 1)
  ELSE [pc |-> "rejected", kind |-> DescribeError(failure)]

Settle(failure) ==
  /\ esRequest' = Fails(failure)
  /\ esTries' = Append(esTries, [failure |-> failure, status |-> esRequest.status])

\* The socket fails before there is a response.
ReqError(code) ==
  /\ esRequest.pc = "waiting"
  /\ Settle(Code(code))

\* req.destroy(err): 'error', or 'aborted' if a response was under way, come first.
TimesOut ==
  /\ esRequest.pc \in {"waiting", "responding"}
  /\ \E code \in {"TIMEOUT"} \cup IF esRequest.pc = "responding" THEN {"ECONNRESET"} ELSE {} :
       Settle(Code(code))

Response(status) ==
  /\ esRequest.pc = "waiting"
  /\ esRequest' = [esRequest EXCEPT !.pc = "responding", !.status = status]
  /\ UNCHANGED esTries

\* Mutation: the ceiling is noticed one chunk late.
TooLargeLate(size) == size > MaxResponseBytes + 1

TooLarge(size) == size > MaxResponseBytes

\* A chunk over the ceiling destroys the response, which emits 'aborted' at once in
\* some versions of Node: then that is what the promise is rejected with.
Data ==
  /\ esRequest.pc = "responding"
  /\ esRequest.size < MaxChunks
  /\ IF TooLarge(esRequest.size + 1)
     THEN \E code \in {"RESPONSE_TOO_LARGE", "ECONNRESET"} : Settle(Code(code))
     ELSE /\ esRequest' = [esRequest EXCEPT !.size = @ + 1]
          /\ UNCHANGED esTries

Aborted ==
  /\ esRequest.pc = "responding"
  /\ Settle(Code("ECONNRESET"))

\* A whole response: an error status, a body that is no JSON, or the answer.
End ==
  /\ esRequest.pc = "responding"
  /\ IF esRequest.status \notin 200 .. 299
     THEN Settle([code |-> "Error", status |-> esRequest.status])
     ELSE \/ Settle(Code("INVALID_JSON"))
          \/ /\ esRequest' = [pc |-> "resolved", size |-> esRequest.size]
             /\ esTries' = Append(esTries, [failure |-> Code("none"), status |-> esRequest.status])

Init ==
  /\ esRequest = [pc |-> "idle"]
  /\ esTries = << >>

Next ==
  \/ Request
  \/ \E code \in SocketError : ReqError(code)
  \/ TimesOut
  \/ \E status \in Status : Response(status)
  \/ Data
  \/ Aborted
  \/ End

Spec == Init /\ [][Next]_vars

-----------------------------------------------------------------------------
(* Properties *)

\* A request is in one of its steps, and is tried no more often than allowed.
TypeOK ==
  /\ esRequest.pc \in {"idle", "waiting", "responding", "resolved", "rejected"}
  /\ Len(esTries) <= Retries + 1

\* A request ends with what its last try came to: with a whole answer of a success
\* below the ceiling, or with a failure that is final or was tried often enough.  A
\* failure that is not transient is never tried again, a refused connection above all.
EndsWithLastTry ==
  (esRequest.pc \in {"resolved", "rejected"} /\ esTries # << >>) =>
    LET last == Last(esTries)
    IN  /\ \A i \in 1 .. Len(esTries) - 1 : Retryable(esTries[i].failure)
        /\ Len(esTries) <= Retries + 1
        /\ esRequest.pc = "resolved" =>
             /\ last.failure.code = "none"
             /\ last.status \in 200 .. 299
             /\ esRequest.size <= MaxResponseBytes
        /\ esRequest.pc = "rejected" =>
             /\ esRequest.kind = DescribeError(last.failure)
             /\ Retryable(last.failure) => Len(esTries) = Retries + 1
=============================================================================
