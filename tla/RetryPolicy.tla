---------------------------- MODULE RetryPolicy ----------------------------
(***************************************************************************)
(* The decision at the heart of HttpInstrumentationService: given how one  *)
(* attempt of an outbound call failed, is the call sent again?             *)
(*                                                                         *)
(* An AxiosError is abstracted to the two fields the decision reads: its   *)
(* `code`, and the status of `error.response`, with NoStatus when the      *)
(* error carries no response at all.                                       *)
(***************************************************************************)
EXTENDS Integers

NoStatus == 0

SAFE_METHODS == {"get", "head", "options"}
UnsafeMethods == {"post", "put", "patch", "delete"}
RETRYABLE_STATUS_CODES == {502, 503, 504}

UnsafeRetryMode == {"never", "connection-errors-only", "always"}

\* HTTP_RETRY_UNSAFE_METHODS as it is read: anything but a known mode, the
\* variable being unset included, means the conservative default.
toUnsafeRetryMode(value) ==
  IF value \in UnsafeRetryMode THEN value ELSE "connection-errors-only"

\* A setting that is a number, with -1 for a text that is none: what is none or is
\* negative counts as not set.
toNumber(value, fallback) == IF value >= 0 THEN value ELSE fallback

ErrorCodes == {"ERR_CANCELED", "ECONNABORTED", "ETIMEDOUT", "ECONNRESET",
               "ECONNREFUSED", "ERR_BAD_RESPONSE", "ERR_BAD_REQUEST"}

AxiosError(Statuses) == [code : ErrorCodes, status : Statuses \cup {NoStatus}]

isTimeout(error) == error.code \in {"ECONNABORTED", "ETIMEDOUT"}

noResponse(error) == error.status = NoStatus /\ ~isTimeout(error)

\* A failure a repetition may cure: no answer in time, no answer at all, or a
\* gateway saying that the service behind it is not there.
transient(error) ==
  \/ isTimeout(error)
  \/ noResponse(error)
  \/ error.status \in RETRYABLE_STATUS_CODES

\* Mutants of shouldRetry: "never" treated like the default, a gateway status
\* retried in the default mode, the budget exceeded by one or short of one.
shouldRetryDespiteNever(method, mode, retryAttempts, error, attempt) ==
  /\ attempt <= retryAttempts
  /\ IF method \in SAFE_METHODS \/ mode = "always" THEN transient(error) ELSE noResponse(error)

shouldRetryGatewayStatus(method, mode, retryAttempts, error, attempt) ==
  /\ attempt <= retryAttempts
  /\ method \in SAFE_METHODS \/ mode # "never"
  /\ transient(error)

shouldRetryOnceMore(method, mode, retryAttempts, error, attempt) ==
  /\ attempt <= retryAttempts + 1
  /\ method \in SAFE_METHODS \/ mode = "always"
  /\ transient(error)

shouldRetryOneShort(method, mode, retryAttempts, error, attempt) ==
  /\ attempt < retryAttempts
  /\ method \in SAFE_METHODS \/ mode = "always"
  /\ transient(error)

shouldRetry(method, mode, retryAttempts, error, attempt) ==
  /\ attempt <= retryAttempts
  /\ error.code # "ERR_CANCELED"
  /\ \/ method \in SAFE_METHODS /\ transient(error)
     \/ method \notin SAFE_METHODS /\ mode = "always" /\ transient(error)
     \/ /\ method \notin SAFE_METHODS
        /\ mode = "connection-errors-only"
        /\ noResponse(error)
=============================================================================
