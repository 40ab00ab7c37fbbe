------------------------ MODULE GigaChatClientProofs ------------------------
(***************************************************************************)
(* Proofs about one worker's provider calls, for any lanes, delays and     *)
(* number of attempts.  The work of a call so far is bounded by the        *)
(* rounds, requests and attempts behind it.                                *)
(***************************************************************************)
EXTENDS GigaChatClient, Integers, TLAPS

(* The longest time request_json sleeps.                                   *)
AllDelays == (RetryAttempts - 1) * MaxDelay

(* Only a rejected token, which is an answer, leads to another round; each *)
(* round has an OAuth and a bearer request.                                *)
EarlierRequests == IF round = 0 THEN 0 ELSE 2 * RetryAttempts
EarlierDelays == IF round = 0 THEN 0 ELSE 2 * AllDelays

RequestsSoFar ==
  /\ at = "token" => requests <= EarlierRequests
  /\ at = "oauth" => requests <= EarlierRequests + tries
  /\ at = "send" => requests <= EarlierRequests + RetryAttempts + tries
  /\ at \in Ended => requests <= 4 * RetryAttempts

SleptSoFar ==
  /\ at = "token" => slept <= EarlierDelays
  /\ at = "oauth" => slept <= EarlierDelays + tries * MaxDelay
  /\ at = "send" => slept <= EarlierDelays + AllDelays + tries * MaxDelay
  /\ at \in Ended => slept <= 4 * AllDelays

(* In a call's second round its token is none of the cache's, and a token  *)
(* taken from the cache is used in the first only.                         *)
TokenOfRound ==
  /\ at \in {"token", "oauth"} /\ round = 1 => cached[lane] # "usable"
  /\ at = "send" /\ round = 1 => fresh

ClientInv ==
  /\ ClientTypeOK
  /\ at \notin Ended => lane \in Lanes
  /\ TokenOfRound
  /\ RequestsSoFar
  /\ SleptSoFar
  /\ RevokedTokenIsSurvived

-----------------------------------------------------------------------------
(* Delays are clipped.                                                     *)
LEMMA DelaysAreBounded ==
  ASSUME tries \in Nat, NEW delay \in Delays
  PROVE  delay \in Nat /\ delay <= MaxDelay
<1>1. 2 ^ tries \in Int
  OBVIOUS
<1>2. PICK d \in RetryAfters \cup {2 ^ tries} : delay = Clip(d)
  BY DEF Delays
<1>3. d \in Int
  BY <1>1, <1>2, ClientAssumption
<1> QED
  BY <1>2, <1>3, ClientAssumption DEF Clip

(* The delays before an attempt are among all the delays of a request.     *)
LEMMA AttemptFits ==
  ASSUME NEW n \in Nat, n >= 1, NEW k \in 0 .. n - 1, NEW c \in Nat
  PROVE  k * c \in Nat /\ k * c <= (n - 1) * c /\ (k + 1) * c = k * c + c
  OBVIOUS

LEMMA AllDelaysIsANumber == AllDelays \in Nat
<1>1. RetryAttempts \in Nat /\ RetryAttempts >= 1 /\ MaxDelay \in Nat
  BY ClientAssumption
<1>2. RetryAttempts - 1 \in 0 .. RetryAttempts - 1
  BY <1>1
<1> QED
  BY <1>1, <1>2, AttemptFits DEF AllDelays

(* The delays of a request before its current attempt.                     *)
LEMMA DelaysOfAttempts ==
  ASSUME tries \in 0 .. RetryAttempts - 1
  PROVE  /\ tries * MaxDelay \in Nat /\ tries * MaxDelay <= AllDelays
         /\ (tries + 1) * MaxDelay = tries * MaxDelay + MaxDelay
         /\ AllDelays' = AllDelays
<1>1. RetryAttempts \in Nat /\ RetryAttempts >= 1 /\ MaxDelay \in Nat
  BY ClientAssumption
<1> QED
  BY <1>1, AttemptFits DEF AllDelays

LEMMA Numbers ==
  ASSUME ClientTypeOK
  PROVE  /\ RetryAttempts \in Nat /\ RetryAttempts >= 1
         /\ round \in 0 .. 1 /\ tries \in 0 .. RetryAttempts - 1
         /\ requests \in Nat /\ slept \in Nat /\ served \in Nat
  BY ClientAssumption DEF ClientTypeOK

(* Where a call begins and where a request begins.                         *)
LEMMA NothingYet ==
  /\ RetryAttempts \in Nat /\ RetryAttempts >= 1
  /\ 0 \in 0 .. RetryAttempts - 1 /\ 0 \in 0 .. 1 /\ 1 \in 0 .. 1
  BY ClientAssumption

LEMMA NoDelayYet == 0 * MaxDelay = 0
  BY ClientAssumption

LEMMA ClientStarts == ClientInit => ClientInv
<1> SUFFICES ASSUME ClientInit PROVE ClientInv
  OBVIOUS
<1>1. ClientTypeOK
  BY NothingYet DEF ClientInit, ClientTypeOK, Ended
<1>2. TokenOfRound /\ RevokedTokenIsSurvived
  BY DEF ClientInit, TokenOfRound, RevokedTokenIsSurvived
<1>3. RequestsSoFar /\ SleptSoFar
  BY NothingYet, AllDelaysIsANumber DEF ClientInit, RequestsSoFar, SleptSoFar, EarlierRequests, EarlierDelays
<1> QED
  BY <1>1, <1>2, <1>3 DEF ClientInv, ClientInit, Ended

(* access_token: the cached token, or a request for another.               *)
LEMMA TokenSteps ==
  ASSUME ClientInv, UseCachedToken \/ RequestToken \/ TokenGranted
  PROVE  ClientInv'
<1> USE DEF Ended
<1>a. /\ RetryAttempts \in Nat /\ RetryAttempts >= 1 /\ 0 \in 0 .. RetryAttempts - 1
  BY NothingYet
<1>1. ClientTypeOK' /\ (at' \notin Ended => lane' \in Lanes)
  <2>1. CASE UseCachedToken
    BY <1>a, <2>1 DEF ClientInv, ClientTypeOK, UseCachedToken
  <2>2. CASE RequestToken
    BY <1>a, <2>2 DEF ClientInv, ClientTypeOK, RequestToken
  <2>3. CASE TokenGranted
    BY <1>a, <2>3 DEF ClientInv, ClientTypeOK, TokenGranted
  <2> QED
    BY <2>1, <2>2, <2>3
<1>2. TokenOfRound' /\ RevokedTokenIsSurvived'
  BY DEF ClientInv, ClientTypeOK, TokenOfRound, RevokedTokenIsSurvived,
         UseCachedToken, RequestToken, TokenGranted
<1>3. RequestsSoFar'
  BY <1>a, Numbers DEF ClientInv, RequestsSoFar, EarlierRequests, UseCachedToken, RequestToken, TokenGranted
<1>4. SleptSoFar'
  <2>1. UNCHANGED <<slept, round>> /\ tries' = 0 /\ tries' * MaxDelay = 0
    BY NoDelayYet DEF UseCachedToken, RequestToken, TokenGranted
  <2>2. slept <= EarlierDelays + AllDelays
    BY Numbers, DelaysOfAttempts, AllDelaysIsANumber DEF ClientInv, SleptSoFar, EarlierDelays, UseCachedToken, RequestToken, TokenGranted
  <2>3. (at' = "oauth" /\ at = "token") \/ at' = "send"
    BY DEF UseCachedToken, RequestToken, TokenGranted
  <2>4. EarlierDelays' = EarlierDelays /\ AllDelays' = AllDelays
    BY <2>1, Numbers, DelaysOfAttempts, AllDelaysIsANumber DEF ClientInv, EarlierDelays
  <2>5. (at' = "oauth" /\ at = "token") => slept <= EarlierDelays
    BY DEF ClientInv, SleptSoFar
  <2>6. EarlierDelays \in Nat /\ AllDelays \in Nat
    BY Numbers, DelaysOfAttempts, AllDelaysIsANumber DEF ClientInv, EarlierDelays
  <2> QED
    BY <2>1, <2>2, <2>3, <2>4, <2>5, <2>6 DEF SleptSoFar
<1> QED
  BY <1>1, <1>2, <1>3, <1>4 DEF ClientInv

(* request_json repeats a request.                                         *)
LEMMA RetrySteps ==
  ASSUME ClientInv, RetryOauth \/ RetryRequest
  PROVE  ClientInv'
<1> USE DEF Ended
<1>1. PICK delay \in Delays : slept' = slept + delay
  BY DEF RetryOauth, RetryRequest, Retry
<1>2. delay \in Nat /\ delay <= MaxDelay /\ MaxDelay \in Nat
  BY DelaysAreBounded, Numbers, ClientAssumption DEF ClientInv
<1>3. requests' = requests + 1 /\ served' \in {served, served + 1}
  BY DEF RetryOauth, RetryRequest, Retry, Sent
<1>4. tries' = tries + 1 /\ tries' \in 0 .. RetryAttempts - 1
  <2>1. tries' = tries + 1 /\ tries + 1 < RetryAttempts
    BY DEF RetryOauth, RetryRequest, Retry
  <2> QED
    BY <2>1, Numbers DEF ClientInv
<1>5. UNCHANGED <<cached, at, lane, round, fresh>> /\ at \in {"oauth", "send"}
  BY DEF RetryOauth, RetryRequest
<1>6. ClientTypeOK' /\ TokenOfRound' /\ RevokedTokenIsSurvived' /\ lane' \in Lanes
  BY <1>1, <1>2, <1>3, <1>4, <1>5
     DEF ClientInv, ClientTypeOK, TokenOfRound, RevokedTokenIsSurvived
<1>7. RequestsSoFar'
  BY <1>3, <1>4, <1>5, Numbers DEF ClientInv, RequestsSoFar, EarlierRequests
<1>8. SleptSoFar'
  <2>1. tries' * MaxDelay = tries * MaxDelay + MaxDelay
    BY <1>4, Numbers, DelaysOfAttempts DEF ClientInv
  <2>2. EarlierDelays' = EarlierDelays /\ AllDelays' = AllDelays
    BY <1>5, Numbers, DelaysOfAttempts, AllDelaysIsANumber DEF ClientInv, EarlierDelays
  <2>3. /\ EarlierDelays \in Nat /\ AllDelays \in Nat
        /\ tries * MaxDelay \in Nat /\ slept \in Nat
    BY Numbers, DelaysOfAttempts, AllDelaysIsANumber DEF ClientInv, EarlierDelays
  <2>4. slept' <= slept + MaxDelay
    BY <1>1, <1>2, <2>3
  <2>5. /\ at = "oauth" => slept <= EarlierDelays + tries * MaxDelay
        /\ at = "send" => slept <= EarlierDelays + AllDelays + tries * MaxDelay
    BY DEF ClientInv, SleptSoFar
  <2>6. slept' \in Nat
    BY <1>1, <1>2, <2>3
  <2>7. at = "oauth" => slept' <= EarlierDelays + (tries * MaxDelay + MaxDelay)
    BY <1>2, <2>3, <2>4, <2>5, <2>6
  <2>8. at = "send"
          => slept' <= EarlierDelays + AllDelays + (tries * MaxDelay + MaxDelay)
    BY <1>2, <2>3, <2>4, <2>5, <2>6
  <2> QED
    BY <1>5, <2>1, <2>2, <2>7, <2>8 DEF SleptSoFar
<1> QED
  BY <1>5, <1>6, <1>7, <1>8 DEF ClientInv

(* A call ends with an answer or an error, which cost one request more.    *)
LEMMA EndingSteps ==
  ASSUME ClientInv, OauthFails \/ Answered \/ RequestFails
  PROVE  ClientInv'
<1> USE DEF Ended
<1>1. /\ UNCHANGED <<cached, lane, round, tries, fresh, slept>>
      /\ at' \in {"answered", "error"} /\ at \in {"oauth", "send"}
      /\ served' \in {served, served + 1}
      /\ requests' = requests + 1
  BY DEF OauthFails, Answered, RequestFails, GiveUp, Sent
<1>2. ClientTypeOK' /\ TokenOfRound' /\ RevokedTokenIsSurvived'
  BY <1>1 DEF ClientInv, ClientTypeOK, TokenOfRound, RevokedTokenIsSurvived
<1>3. RequestsSoFar'
  BY <1>1, Numbers DEF ClientInv, RequestsSoFar, EarlierRequests
<1>4. SleptSoFar'
  BY <1>1, Numbers, DelaysOfAttempts, AllDelaysIsANumber DEF ClientInv, SleptSoFar, EarlierDelays
<1> QED
  BY <1>1, <1>2, <1>3, <1>4 DEF ClientInv

(* The provider rejects the token: one more round with a token of its own. *)
LEMMA RejectionStep ==
  ASSUME ClientInv, Unauthorized
  PROVE  ClientInv'
<1> USE DEF Ended
<1>1. ClientTypeOK' /\ (at' \notin Ended => lane' \in Lanes)
  BY DEF ClientInv, ClientTypeOK, Unauthorized
<1>2. TokenOfRound' /\ RevokedTokenIsSurvived'
  BY DEF ClientInv, ClientTypeOK, TokenOfRound, RevokedTokenIsSurvived, Unauthorized
<1>3. RequestsSoFar'
  BY Numbers DEF ClientInv, RequestsSoFar, EarlierRequests, Unauthorized
<1>4. SleptSoFar'
  BY Numbers, DelaysOfAttempts, AllDelaysIsANumber DEF ClientInv, SleptSoFar, EarlierDelays, Unauthorized
<1> QED
  BY <1>1, <1>2, <1>3, <1>4 DEF ClientInv

LEMMA ClientSteps == ClientInv /\ [ClientNext]_clientVars => ClientInv'
<1> SUFFICES ASSUME ClientInv, [ClientNext]_clientVars PROVE ClientInv'
  OBVIOUS
<1> USE DEF Ended
<1>1. ASSUME NEW l \in Lanes, Begin(l) PROVE ClientInv'
  <2>1. ClientTypeOK' /\ lane' \in Lanes
    BY <1>1, NothingYet DEF Begin, ClientInv, ClientTypeOK
  <2>2. TokenOfRound' /\ RevokedTokenIsSurvived'
    BY <1>1 DEF Begin, TokenOfRound, RevokedTokenIsSurvived
  <2>3. RequestsSoFar' /\ SleptSoFar'
    BY <1>1, NothingYet, AllDelaysIsANumber DEF Begin, RequestsSoFar, SleptSoFar, EarlierRequests, EarlierDelays
  <2> QED
    BY <2>1, <2>2, <2>3 DEF ClientInv
<1>2. ASSUME NEW l \in Lanes, TokenEnds(l) PROVE ClientInv'
  BY <1>2 DEF TokenEnds, ClientInv, ClientTypeOK, TokenOfRound, RequestsSoFar, SleptSoFar,
              EarlierRequests, EarlierDelays, AllDelays, RevokedTokenIsSurvived
<1>3. CASE UNCHANGED clientVars
  BY <1>3 DEF clientVars, ClientInv, ClientTypeOK, TokenOfRound, RequestsSoFar, SleptSoFar,
              EarlierRequests, EarlierDelays, AllDelays, RevokedTokenIsSurvived
<1> QED
  BY <1>1, <1>2, <1>3, TokenSteps, RetrySteps, EndingSteps, RejectionStep DEF ClientNext, CallStep

(* What a call relies on, and has done, at every place.                    *)
THEOREM ClientInvariant == ClientSpec => []ClientInv
  BY ClientStarts, ClientSteps, PTL DEF ClientSpec

(* A token that was revoked while it lay in the cache never fails a call:  *)
(* authorized_request_json drops it and fetches one of its own.            *)
THEOREM RevokedTokensAreSurvived == ClientSpec => []RevokedTokenIsSurvived
<1>1. ClientInv => RevokedTokenIsSurvived
  BY DEF ClientInv
<1> QED
  BY <1>1, ClientInvariant, PTL

(* No call sends more requests or sleeps longer than two rounds of two     *)
(* requests allow, whatever Retry-After asks for and however often tokens  *)
(* are rejected.                                                           *)
THEOREM CallWorkIsBounded == ClientSpec => []CallWorkBounded
<1>1. ClientInv => CallWorkBounded
  <2> SUFFICES ASSUME ClientInv
               PROVE  requests <= 4 * RetryAttempts /\ slept <= 4 * AllDelays
    BY ClientAssumption DEF CallWorkBounded, AllDelays
  <2>1. at \in Ended \cup {"token", "oauth", "send"}
    BY DEF ClientInv, ClientTypeOK
  <2>2. requests <= 4 * RetryAttempts
    BY <2>1, Numbers DEF ClientInv, RequestsSoFar, EarlierRequests, Ended
  <2>3. slept <= 4 * AllDelays
    BY <2>1, Numbers, DelaysOfAttempts, AllDelaysIsANumber
       DEF ClientInv, SleptSoFar, EarlierDelays, Ended
  <2> QED
    BY <2>2, <2>3
<1> QED
  BY <1>1, ClientInvariant, PTL
=============================================================================
