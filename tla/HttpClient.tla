-------------------------------- MODULE HttpClient --------------------------------
(***************************************************************************)
(* HttpClient of src/data/http.py: get_bytes, with its retries, its backoff *)
(* and the pause before every call but the first.  Times are whole numbers  *)
(* of a unit each configuration chooses.  The server is external: it        *)
(* answers 200, a status worth retrying, or another one; the transport may  *)
(* also raise (a timeout, a refused connection), which get_bytes does not   *)
(* catch.                                                                   *)
(*                                                                          *)
(* A module that builds on this one starts calls with GetBytes and reads    *)
(* the outcome in http.step and the status a DataAPIError carries in        *)
(* http.status.                                                             *)
(***************************************************************************)
EXTENDS Naturals

CONSTANTS MaxRetries,     \* max_retries
          BackoffBase,    \* backoff_base
          MinInterval     \* min_interval

ASSUME HttpAssumption == {MaxRetries, BackoffBase, MinInterval} \subseteq Nat

VARIABLES http,     \* the client, and its current call
          rested,   \* history: the time slept since the last request, or since the start
          sent      \* history: a request has been sent

httpVars == <<http, rested, sent>>

\* 200, RETRYABLE_STATUS, 400, 404, and any other.
Statuses == {"ok", "transient", "malformed", "missing", "refused"}

\* `delay` is the next wait.  "answered", "failed" (DataAPIError) and "raised" end a call.
Steps == {"idle", "send", "answered", "failed", "raised"}

\* A new client.
HttpInit ==
    /\ http = [made |-> FALSE, step |-> "idle", attempt |-> 0, delay |-> BackoffBase,
               status |-> "none"]
    /\ rested = 0
    /\ sent = FALSE

\* get_bytes(url) up to its first request.  With no attempt allowed it raises.
GetBytes ==
    /\ http' = [made |-> TRUE, attempt |-> 0, delay |-> BackoffBase, status |-> "none",
                step |-> IF MaxRetries = 0 THEN "failed" ELSE "send"]
    /\ rested' = rested + (IF http.made THEN MinInterval ELSE 0)
    /\ UNCHANGED sent

\* Faulty variant: the wait is base * attempt.
SendLinear(status) ==
    /\ http.step = "send"
    /\ sent' = TRUE
    /\ IF status = "transient" /\ http.attempt + 1 < MaxRetries
          THEN /\ http' = [http EXCEPT !.attempt = @ + 1]
               /\ rested' = BackoffBase * http.attempt
          ELSE /\ http' = [http EXCEPT !.step = IF status = "ok" THEN "answered" ELSE "failed",
                                        !.status = status]
               /\ rested' = 0

\* One request of the loop and what get_bytes makes of its status: the wait before the
\* retry number n is base * 2^n, twice the one before.
Send(status) ==
    /\ http.step = "send"
    /\ sent' = TRUE
    /\ IF status = "transient" /\ http.attempt + 1 < MaxRetries
          THEN /\ http' = [http EXCEPT !.attempt = @ + 1, !.delay = 2 * @]
               /\ rested' = http.delay
          ELSE /\ http' = [http EXCEPT !.step = IF status = "ok" THEN "answered" ELSE "failed",
                                        !.status = status]
               /\ rested' = 0

\* The transport raises.
Lose ==
    /\ http.step = "send"
    /\ sent' = TRUE
    /\ http' = [http EXCEPT !.step = "raised"]
    /\ rested' = 0

HttpNext == Lose \/ \E status \in Statuses : Send(status)

--------------------------------------------------------------------------------

HttpTypeOK ==
    /\ http \in [made : BOOLEAN, step : Steps, attempt : Nat, delay : Nat,
                 status : Statuses \cup {"none"}]
    /\ rested \in Nat
    /\ sent \in BOOLEAN

\* Whether it is a retry or the next call, a request leaves at least the polite interval
\* after the one before.
Polite == http.step = "send" /\ sent => rested >= MinInterval
================================================================================
