---------------------------- MODULE DuckvisTokens ----------------------------
(***************************************************************************)
(* The two credentials a request in duckvis mode needs (duckvis/): the     *)
(* client's token, checked with the signing keys of a JWKS cache (mod.rs,  *)
(* jwks.rs, jwt.rs), and the server's own service-account token, with      *)
(* which it asks duckvis-api for a decision (sa.rs, api.rs).               *)
(*                                                                         *)
(* A lane is one such request: a validation of a token or a call of the    *)
(* API.  Every await of the code is a place where another lane may go on:  *)
(* the cache is behind an RwLock that no fetch holds, the service-account  *)
(* token behind a mutex that a mint does hold.  Time is counted in ticks;  *)
(* a key version is published with the one before it still in the set.     *)
(***************************************************************************)
EXTENDS Integers, FiniteSets

CONSTANTS
    Lanes, NoLane,
    FORCED_REFRESH_FLOOR, MaxAge,   \* of the JWKS cache, in ticks
    REFRESH_MARGIN, Ttl,            \* of the service-account token, in ticks
    MaxVersion,     \* bound: key versions published
    MaxEpoch,       \* bound: times the API forgets the tokens it issued
    MaxFailures,    \* bound: failed answers of the API
    LastTick        \* bound: ticks

ASSUME TokenAssumption ==
    /\ {FORCED_REFRESH_FLOOR, MaxAge, REFRESH_MARGIN, Ttl} \subseteq Nat \ {0}
    /\ {MaxVersion, MaxEpoch} \subseteq Nat \ {0} /\ {MaxFailures, LastTick} \subseteq Nat
    /\ NoLane \notin Lanes

VARIABLES
    clock,
    published,      \* (duckvis-api) the current key version
    epoch,          \* (duckvis-api) tokens issued in an earlier epoch are refused
    failures,
    jwks,           \* JwksCache: keys, etag, fetched_at, last_forced_refresh
    sa_token,       \* Option<SaToken>, with what the API knows of it
    sa_lock,        \* who holds its mutex
    lane            \* request -> where it is

tkVars == <<clock, published, epoch, failures, jwks, sa_token, sa_lock, lane>>
world == <<clock, published, epoch>>

NoTime == -1
NoToken == [epoch |-> 0, expires_at |-> NoTime, real |-> NoTime, took |-> 0]
Invalid == 0
NewLane ==
    [at |-> "idle", forced |-> FALSE, kid |-> Invalid, since |-> 0,
     etag |-> 0, answer |-> 0, allowed |-> NoTime, applied |-> NoTime, reason |-> "none",
     token |-> NoToken, asked |-> NoTime, refused |-> 0, after |-> {},
     alive |-> TRUE, slow |-> FALSE]

\* (external) the key set of a version.
Keys(v) == {k \in 1..MaxVersion : k \in {v - 1, v}}

TkInit ==
    /\ clock = 0 /\ published = 1 /\ epoch = 1 /\ failures = 0
    /\ jwks = [keys |-> {}, etag |-> 0, fetched_at |-> NoTime, last_forced_refresh |-> NoTime]
    /\ sa_token = NoToken /\ sa_lock = NoLane
    /\ lane = [l \in Lanes |-> NewLane]

MoveTo(l, where) == lane' = [lane EXCEPT ![l].at = where]
\* What remains of a request that is over: when its forced refresh was applied.
End(l, how) == lane' = [lane EXCEPT ![l] = [NewLane EXCEPT !.at = how, !.applied = lane[l].applied,
                           !.alive = lane[l].alive, !.slow = lane[l].slow]]
Failure == failures < MaxFailures /\ failures' = failures + 1

(***************************************************************************)
(* validate_token.                                                         *)
(***************************************************************************)
is_stale == jwks.fetched_at = NoTime \/ clock - jwks.fetched_at >= MaxAge
can_force_refresh ==
    jwks.last_forced_refresh = NoTime \/ clock - jwks.last_forced_refresh >= FORCED_REFRESH_FLOOR

\* verify_and_decode: a token that fails a check of its own (signature, claims, the
\* window of its times at the clock reading the validation started with) is Invalid.
verify_and_decode(l) == lane[l].kid \in jwks.keys

validate_token(l) ==
    /\ lane[l].at = "idle"
    /\ \E kid \in 1..published \cup {Invalid} :
         lane' = [lane EXCEPT ![l] = [NewLane EXCEPT
                    !.at = IF is_stale THEN "refresh" ELSE "verify",
                    !.kid = kid, !.since = published]]
    /\ UNCHANGED <<world, failures, jwks, sa_token, sa_lock>>

\* refresh: the etag is read, ...
read_etag(l) ==
    /\ lane[l].at = "refresh"
    /\ lane' = [lane EXCEPT ![l].at = "fetch", ![l].etag = jwks.etag]
    /\ UNCHANGED <<world, failures, jwks, sa_token, sa_lock>>

AfterRefresh(l) == IF lane[l].forced THEN "retry" ELSE "verify"

\* ... the API answers for it, or does not (best effort: the cache stays), ...
fetch(l) ==
    /\ lane[l].at = "fetch"
    /\ \/ /\ lane' = [lane EXCEPT ![l].at = "apply", ![l].answer = published]
          /\ UNCHANGED failures
       \/ /\ Failure
          /\ lane' = [lane EXCEPT ![l].at = AfterRefresh(l),
                                  ![l].reason = IF lane[l].forced THEN "failed" ELSE @]
    /\ UNCHANGED <<world, jwks, sa_token, sa_lock>>

NotModified(l) == lane[l].answer = lane[l].etag

\* (ghost) An answer older than the cache's takes back what a forced refresh in
\* progress is about to look for.
Overwritten(l, m) ==
    /\ ~NotModified(l) /\ lane[l].answer < jwks.etag
    /\ m # l /\ lane[m].forced /\ lane[m].at \in {"fetch", "apply", "retry"}

Concluded(l) == [m \in Lanes |->
    IF m = l THEN [lane[l] EXCEPT !.at = AfterRefresh(l), !.etag = 0, !.answer = 0,
                                  !.applied = IF lane[l].forced THEN clock ELSE @]
    ELSE IF Overwritten(l, m) THEN [lane[m] EXCEPT !.reason = "overwritten"] ELSE lane[m]]

\* (mutant: a forced refresh leaves no mark)
ApplyUnmarked(l) ==
    /\ lane[l].at = "apply"
    /\ jwks' = [jwks EXCEPT
                  !.keys = IF NotModified(l) THEN @ ELSE Keys(lane[l].answer),
                  !.etag = lane[l].answer, !.fetched_at = clock]
    /\ lane' = Concluded(l)
    /\ UNCHANGED <<world, failures, sa_token, sa_lock>>

\* ... and the answer is applied, whatever the cache holds by now.
apply(l) ==
    /\ lane[l].at = "apply"
    /\ jwks' = [jwks EXCEPT
                  !.keys = IF NotModified(l) THEN @ ELSE Keys(lane[l].answer),
                  !.etag = IF NotModified(l) THEN @ ELSE lane[l].answer,
                  !.fetched_at = clock,
                  !.last_forced_refresh = IF lane[l].forced THEN clock ELSE @]
    /\ lane' = Concluded(l)
    /\ UNCHANGED <<world, failures, sa_token, sa_lock>>

\* The first attempt.
Verify(l) ==
    /\ lane[l].at = "verify"
    /\ IF verify_and_decode(l) THEN End(l, "accepted") ELSE MoveTo(l, "limit")
    /\ UNCHANGED <<world, failures, jwks, sa_token, sa_lock>>

Forced(l) == [lane EXCEPT ![l].at = "refresh", ![l].forced = TRUE, ![l].allowed = clock,
                          ![l].after = {m \in Lanes : lane[m].applied # NoTime}]

\* (mutant: the retry is given up when the cache is fresh)
LimitWhenFresh(l) ==
    /\ lane[l].at = "limit"
    /\ lane' = IF can_force_refresh /\ is_stale
               THEN Forced(l)
               ELSE [lane EXCEPT ![l].at = "refused",
                                 ![l].reason = IF can_force_refresh THEN @ ELSE "limited"]
    /\ UNCHANGED <<world, failures, jwks, sa_token, sa_lock>>

\* The refusal may be an unknown kid: one forced refresh, if it is allowed.
Limit(l) ==
    /\ lane[l].at = "limit"
    /\ lane' = IF can_force_refresh
               THEN Forced(l)
               ELSE [lane EXCEPT ![l].at = "refused", ![l].reason = "limited"]
    /\ UNCHANGED <<world, failures, jwks, sa_token, sa_lock>>

Retry(l) ==
    /\ lane[l].at = "retry"
    /\ IF verify_and_decode(l) THEN End(l, "accepted") ELSE MoveTo(l, "refused")
    /\ UNCHANGED <<world, failures, jwks, sa_token, sa_lock>>

(***************************************************************************)
(* post_json_with_retry, for check_project and resolve_attachment.         *)
(***************************************************************************)
\* (mutant: fresh up to its expiry)
FreshToTheEnd == sa_token.expires_at > clock
is_fresh == sa_token.expires_at - clock > REFRESH_MARGIN

Call(l) ==
    /\ lane[l].at = "idle"
    /\ MoveTo(l, "get_token")
    /\ UNCHANGED <<world, failures, jwks, sa_token, sa_lock>>

\* A fresh token is handed out; otherwise the mutex is held for a mint.
get_token(l) ==
    /\ lane[l].at = "get_token" /\ sa_lock = NoLane
    /\ IF is_fresh
       THEN /\ lane' = [lane EXCEPT ![l].at = "send", ![l].token = sa_token,
                                    ![l].alive = sa_token.real > clock,
                                    ![l].slow = sa_token.took > REFRESH_MARGIN]
            /\ UNCHANGED sa_lock
       ELSE /\ lane' = [lane EXCEPT ![l].at = "mint", ![l].asked = clock]
            /\ sa_lock' = l
    /\ UNCHANGED <<world, failures, jwks, sa_token>>

\* The API issues a token, or the mint fails and with it the call.
mint(l) ==
    /\ lane[l].at \in {"mint", "remint"}
    /\ \/ /\ lane' = [lane EXCEPT ![l].token = [NoToken EXCEPT !.epoch = epoch,
                                                               !.real = clock + Ttl],
                                  ![l].asked = clock,
                                  ![l].at = IF @ = "mint" THEN "minted" ELSE "reminted"]
          /\ UNCHANGED <<failures, sa_lock>>
       \/ Failure /\ End(l, "unavailable") /\ sa_lock' = NoLane
    /\ UNCHANGED <<world, jwks, sa_token>>

\* Its lifetime counts from the moment the answer is read.
minted(l) ==
    /\ lane[l].at \in {"minted", "reminted"}
    /\ sa_token' = [lane[l].token EXCEPT !.expires_at = clock + Ttl, !.took = clock - lane[l].asked]
    /\ sa_lock' = NoLane
    /\ lane' = [lane EXCEPT ![l].token = sa_token',
                            ![l].at = IF @ = "minted" THEN "send" ELSE "resend"]
    /\ UNCHANGED <<world, failures, jwks>>

Accepted(token) == token.epoch = epoch /\ clock < token.real

\* The request and its answer.  A 401 is answered by one forced mint.
send_json(l) ==
    /\ lane[l].at = "send"
    /\ \/ Accepted(lane[l].token) /\ End(l, "decided") /\ UNCHANGED failures
       \/ /\ ~Accepted(lane[l].token)
          /\ lane' = [lane EXCEPT ![l].at = "force", ![l].refused = epoch]
          /\ UNCHANGED failures
       \/ Failure /\ End(l, "unavailable")
    /\ UNCHANGED <<world, jwks, sa_token, sa_lock>>

\* (mutant: the cached token serves when it looks fresh)
ForceUnlessFresh(l) ==
    /\ lane[l].at = "force" /\ sa_lock = NoLane
    /\ IF is_fresh
       THEN /\ lane' = [lane EXCEPT ![l].at = "resend", ![l].token = sa_token]
            /\ UNCHANGED <<sa_lock, sa_token>>
       ELSE /\ sa_token' = NoToken /\ sa_lock' = l
            /\ lane' = [lane EXCEPT ![l].at = "remint", ![l].asked = clock]
    /\ UNCHANGED <<world, failures, jwks>>

\* force_refresh: the cached token is dropped, whoever minted it.
force_refresh(l) ==
    /\ lane[l].at = "force" /\ sa_lock = NoLane
    /\ sa_token' = NoToken /\ sa_lock' = l
    /\ lane' = [lane EXCEPT ![l].at = "remint", ![l].asked = clock]
    /\ UNCHANGED <<world, failures, jwks>>

resend_json(l) ==
    /\ lane[l].at = "resend"
    /\ \/ Accepted(lane[l].token) /\ End(l, "decided") /\ UNCHANGED failures
       \/ ~Accepted(lane[l].token) /\ MoveTo(l, "refused_twice") /\ UNCHANGED failures
       \/ Failure /\ End(l, "unavailable")
    /\ UNCHANGED <<world, jwks, sa_token, sa_lock>>

(***************************************************************************)
(* (external) duckvis-api and time.                                        *)
(***************************************************************************)
Rotate ==
    /\ published < MaxVersion /\ published' = published + 1
    /\ UNCHANGED <<clock, epoch, failures, jwks, sa_token, sa_lock, lane>>

Forget ==
    /\ epoch < MaxEpoch /\ epoch' = epoch + 1
    /\ UNCHANGED <<clock, published, failures, jwks, sa_token, sa_lock, lane>>

Elapse ==
    /\ clock < LastTick /\ clock' = clock + 1
    /\ UNCHANGED <<published, epoch, failures, jwks, sa_token, sa_lock, lane>>

Validate(l) == validate_token(l) \/ read_etag(l) \/ fetch(l) \/ apply(l)
                 \/ Verify(l) \/ Limit(l) \/ Retry(l)
Authorize(l) == Call(l) \/ get_token(l) \/ mint(l) \/ minted(l) \/ send_json(l)
                  \/ force_refresh(l) \/ resend_json(l)

TkNext == (\E l \in Lanes : Validate(l) \/ Authorize(l)) \/ Rotate \/ Forget \/ Elapse

TkSpec == TkInit /\ [][TkNext]_tkVars

(***************************************************************************)
(* Properties.                                                             *)
(***************************************************************************)
\* Type invariant.
Ends == {"accepted", "refused", "decided", "unavailable", "refused_twice"}
TkTypeOK ==
    /\ clock \in 0..LastTick /\ published \in 1..MaxVersion /\ epoch \in 1..MaxEpoch
    /\ failures \in 0..MaxFailures
    /\ jwks.keys \subseteq 1..MaxVersion /\ jwks.etag \in 0..MaxVersion
    /\ sa_lock \in Lanes \cup {NoLane}
    /\ \A l \in Lanes : lane[l].at \in Ends \cup
         {"idle", "refresh", "fetch", "apply", "verify", "limit", "retry", "get_token", "mint",
          "minted", "send", "force", "remint", "reminted", "resend"}

\* A good token whose key was published all along is refused only when the forced
\* refresh was not allowed, failed, or was undone by an older answer that arrived
\* later; never because its key is newer than the cache.
RefusedForAReason ==
    \A l \in Lanes :
        /\ lane[l].at = "refused"
        /\ lane[l].kid \in Keys(lane[l].since) \cap Keys(published)
        => lane[l].reason # "none"

\* Forced refreshes are a floor apart, counted from the answer of the one to the
\* next that is allowed.  (Refreshes whose answers are not in yet, and those that
\* failed, do not hold up another: FORCED_REFRESH_FLOOR bounds no more than this.)
ForcedSpaced ==
    \A l \in Lanes : \A m \in lane[l].after :
        lane[l].allowed - lane[m].applied >= FORCED_REFRESH_FLOOR

\* A call of the API fails for its credentials only when the API refuses a token
\* that was minted after it had refused the first: it has forgotten its tokens
\* once more since, or the new one has outlived its lifetime.
RefusedTwiceForAReason ==
    \A l \in Lanes : lane[l].at = "refused_twice"
        => lane[l].token.epoch >= lane[l].refused /\ ~Accepted(lane[l].token)

\* The cache hands out no token that the API holds to be expired, although the
\* lifetime is counted from the answer: the margin covers the mint's own latency.
HandedOutAlive ==
    \A l \in Lanes : lane[l].alive \/ lane[l].slow
=============================================================================
