--------------------------- MODULE GigaChatClient ---------------------------
(***************************************************************************)
(* The provider client of one worker (class GigaChatClient): a bearer      *)
(* token cached per credential lane, a refresh when the provider rejects   *)
(* it, and HTTP requests that are retried.  A call is one complete() or    *)
(* embed(); calls of a worker follow one another and share the cache.      *)
(* What a call costs is counted in HTTP requests and in seconds slept      *)
(* between them.  How long a request takes is left open: the timeout given *)
(* to urlopen bounds each operation on the socket, not the request, and an *)
(* answer that drips in outlasts it.                                       *)
(***************************************************************************)
EXTENDS Naturals

CONSTANTS
  Lanes,           \* credential lanes with a configured key
  NoLane,          \* no call yet
  RetryAttempts,   \* GIGACHAT_RETRY_ATTEMPTS
  MaxDelay,        \* the longest delay between two attempts, in seconds
  RetryAfters      \* delays a Retry-After header may ask for

ASSUME ClientAssumption ==
  /\ NoLane \notin Lanes
  /\ RetryAttempts \in Nat \ {0}
  /\ MaxDelay \in Nat \ {0}
  /\ RetryAfters \subseteq Nat

VARIABLES
  cached,   \* the cached token of each lane, by the time it has left
  at,       \* where the current call stands, or how the last one ended
  lane,     \* the lane of the current call
  round,    \* iteration of authorized_request_json
  tries,    \* iteration of request_json
  fresh,    \* was the bearer token fetched by this call?
  served,   \* requests of this call that the provider executed
  requests, \* HTTP requests this call has sent
  slept     \* seconds this call has slept

clientVars == <<cached, at, lane, round, tries, fresh, served, requests, slept>>

Ended == {"idle", "answered", "rejected", "error"}

ClientTypeOK ==
  /\ cached \in [Lanes -> {"none", "usable", "ending"}]
  /\ at \in Ended \cup {"token", "oauth", "send"}
  /\ lane \in Lanes \cup {NoLane}
  /\ round \in 0 .. 1 /\ tries \in 0 .. RetryAttempts - 1
  /\ fresh \in BOOLEAN
  /\ served \in Nat /\ requests \in Nat /\ slept \in Nat

ClientInit ==
  /\ cached = [l \in Lanes |-> "none"]
  /\ at = "idle" /\ lane = NoLane
  /\ round = 0 /\ tries = 0 /\ fresh = FALSE
  /\ served = 0 /\ requests = 0 /\ slept = 0

-----------------------------------------------------------------------------
(* Deliberate mistakes: operations with one error a programmer could make. *)
(* No specification uses them; each shows which property catches it.       *)

\* Retry-After is obeyed as it is
Unclipped(delay) == delay

\* the rejected token stays in the cache
UnauthorizedKeepsToken ==
  /\ at = "send"
  /\ \/ round = 0 /\ round' = 1 /\ at' = "token"
     \/ round = 1 /\ at' = "rejected" /\ UNCHANGED round
  /\ requests' = requests + 1
  /\ UNCHANGED <<cached, lane, tries, fresh, served, slept>>

\* a rejected token begins the call anew, as often as it is rejected
UnauthorizedForEver ==
  /\ at = "send"
  /\ cached' = [cached EXCEPT ![lane] = "none"]
  /\ at' = "token"
  /\ round' = 0 /\ tries' = 0 /\ fresh' = FALSE
  /\ served' = 0 /\ requests' = 0 /\ slept' = 0
  /\ UNCHANGED lane

-----------------------------------------------------------------------------
(* min(2 ** attempt, 30), or Retry-After within 1 .. 30.                   *)
Clip(delay) == IF delay > MaxDelay THEN MaxDelay ELSE IF delay < 1 THEN 1 ELSE delay

Delays == {Clip(delay) : delay \in RetryAfters \cup {2 ^ tries}}

(* One more HTTP request; the provider may have executed it whatever       *)
(* became of its answer.                                                   *)
Sent(executable) ==
  /\ requests' = requests + 1
  /\ \/ UNCHANGED served
     \/ executable /\ served' = served + 1

(* request_json: 429, 5xx, URLError and TimeoutError are retried.          *)
Retry(executable) ==
  /\ tries + 1 < RetryAttempts
  /\ Sent(executable)
  /\ tries' = tries + 1
  /\ \E delay \in Delays : slept' = slept + delay

(* Any other HTTP error, a body that is no JSON, or the last attempt.      *)
GiveUp(executable) ==
  /\ Sent(executable)
  /\ at' = "error"
  /\ UNCHANGED <<tries, slept>>

Begin(l) ==
  /\ at \in Ended
  /\ at' = "token" /\ lane' = l
  /\ round' = 0 /\ tries' = 0 /\ fresh' = FALSE
  /\ served' = 0 /\ requests' = 0 /\ slept' = 0
  /\ UNCHANGED cached

(* access_token                                                            *)
UseCachedToken ==
  /\ at = "token"
  /\ cached[lane] = "usable"
  /\ at' = "send" /\ tries' = 0 /\ fresh' = FALSE
  /\ UNCHANGED <<cached, lane, round, served, requests, slept>>

RequestToken ==
  /\ at = "token"
  /\ cached[lane] # "usable"
  /\ at' = "oauth" /\ tries' = 0
  /\ UNCHANGED <<cached, lane, round, fresh, served, requests, slept>>

TokenGranted ==
  /\ at = "oauth"
  /\ cached' = [cached EXCEPT ![lane] = "usable"]
  /\ at' = "send" /\ tries' = 0 /\ fresh' = TRUE
  /\ requests' = requests + 1
  /\ UNCHANGED <<lane, round, served, slept>>

RetryOauth ==
  /\ at = "oauth"
  /\ Retry(FALSE)
  /\ UNCHANGED <<cached, at, lane, round, fresh>>

(* Also a response without a token or with one that is about to expire.    *)
OauthFails ==
  /\ at = "oauth"
  /\ GiveUp(FALSE)
  /\ UNCHANGED <<cached, lane, round, fresh>>

(* complete and embed                                                      *)
Answered ==
  /\ at = "send"
  /\ at' = "answered"
  /\ requests' = requests + 1 /\ served' = served + 1
  /\ UNCHANGED <<cached, lane, round, tries, fresh, slept>>

RetryRequest ==
  /\ at = "send"
  /\ Retry(TRUE)
  /\ UNCHANGED <<cached, at, lane, round, fresh>>

RequestFails ==
  /\ at = "send"
  /\ GiveUp(TRUE)
  /\ UNCHANGED <<cached, lane, round, fresh>>

(* authorized_request_json on a 401                                        *)
Unauthorized ==
  /\ at = "send"
  /\ \/ /\ round = 0
        /\ cached' = [cached EXCEPT ![lane] = "none"]
        /\ round' = 1 /\ at' = "token"
     \/ /\ round = 1
        /\ at' = "rejected"
        /\ UNCHANGED <<cached, round>>
  /\ requests' = requests + 1
  /\ UNCHANGED <<lane, tries, fresh, served, slept>>

(* A token has 60 seconds left, or fewer.                                  *)
TokenEnds(l) ==
  /\ cached[l] = "usable"
  /\ cached' = [cached EXCEPT ![l] = "ending"]
  /\ UNCHANGED <<at, lane, round, tries, fresh, served, requests, slept>>

CallStep ==
  \/ UseCachedToken \/ RequestToken \/ TokenGranted \/ RetryOauth \/ OauthFails
  \/ Answered \/ RetryRequest \/ RequestFails \/ Unauthorized

ClientNext == CallStep \/ \E l \in Lanes : Begin(l) \/ TokenEnds(l)

(* Every HTTP request ends some time, at the latest when its peer falls    *)
(* silent for the timeout or closes; every sleep is bounded.               *)
ClientSpec == ClientInit /\ [][ClientNext]_clientVars /\ WF_clientVars(CallStep)

-----------------------------------------------------------------------------
(* A call fails for a rejected token only if the token it fetched itself   *)
(* was rejected: a cached token that was revoked never fails a call.       *)
RevokedTokenIsSurvived == at = "rejected" => fresh

(* A call sends at most two rounds of an OAuth and a bearer request, each  *)
(* with all its attempts (20 with the defaults), and sleeps at most the    *)
(* longest delay between two attempts (480 s), whatever the provider asks  *)
(* for and however often it rejects the token.                             *)
CallWorkBounded ==
  /\ requests <= 4 * RetryAttempts
  /\ slept <= 4 * (RetryAttempts - 1) * MaxDelay

(* Every call ends, however often tokens run out or are rejected.          *)
CallEnds == at = "token" ~> at \in Ended

(* "Persist an attempt before the network call so an interrupted external  *)
(* outcome is never silently replayed and charged again": the provider     *)
(* executes at most one request of a call.                                 *)
ServedOnce == served <= 1
=============================================================================
