---------------------------- MODULE HttpPipeline ----------------------------
(***************************************************************************)
(* What a request passes before and after its handler, by what Routes says *)
(* of its route, with Valkey as the memory of both ends:                   *)
(*   RateLimitGuard   a counter per tier, caller and window                *)
(*   IdempotencyInterceptor   GET -> handler -> SET, not waited for        *)
(* The guards for token and permission stand between the two and keep      *)
(* nothing (AccessRoles); the requests here are let in by them. All callers*)
(* have one address and one user agent.                                    *)
(*                                                                         *)
(* Time passes in halves of a rate limit's window; the 24 hours a response *)
(* is kept are longer than any request.                                    *)
(***************************************************************************)
EXTENDS Naturals, FiniteSets, Routes

CONSTANTS
    Served,       \* routes that are called
    Callers,      \* users
    Clients,      \* requests that can be in flight at the same time
    Limit,        \* of every tier: the code has 3 to 100
    MaxFailures   \* bound on calls to Valkey that fail

(* What is assumed of the constants.                                       *)
PipelineAssumption == Served \subseteq Routes /\ Limit \in Nat \ {0} /\ MaxFailures \in Nat

VARIABLES
    half,         \* which half of the window it is
    bucket,       \* of every key: requests counted in this window
    passed,       \* history: of every key, requests let through in the last half and in this one
    cache,        \* responses by their key, with the caller they were for
    storing,      \* SETs that are under way
    handled,      \* history: of every key, handlers that have run since it expired
    overlapped,   \* history: keys of requests that were in flight at the same time
    failures,
    request       \* of every client: the step it is before, and what it carries

limits == <<half, bucket, passed>>
responses == <<cache, storing, handled, overlapped>>
vars == <<limits, responses, failures, request>>

Tiers == {r.tier : r \in Served} \ {"skip"}
Buckets == Tiers \X (Callers \cup {"ip"})
Idle == [step |-> "idle"]

(* The guard runs before the one that fills req.user, so that the address  *)
(* it is; but for the refresh cookie, of which every caller has one.       *)
Bucket(route, caller) == <<route.tier, IF route.tier = "AUTH_REFRESH" THEN caller ELSE "ip">>

(* idem:{userId}:{method}:{url}:{key}; a public route has no req.user. One *)
(* Idempotency-Key is used.                                                *)
RedisKey(route, caller) == <<IF route.needs = "nothing" THEN "ip" ELSE caller, route.name>>

RedisKeys == {RedisKey(r, u) : r \in {x \in Served : x.idempotent}, u \in Callers}
Responses == {[key |-> k, for |-> u] : k \in RedisKeys, u \in Callers}

Requests ==
    {Idle} \cup [step : {"lookup", "handle"}, caller : Callers, route : Served]
    \cup [step : {"respond"}, caller : Callers, route : Served, for : Callers]

TypeOK ==
    /\ half \in {1, 2} /\ failures \in 0..MaxFailures
    /\ bucket \in [Buckets -> 0..Limit + 1] /\ passed \in [Buckets -> (0..2 * Limit + MaxFailures) \X (0..2 * Limit + MaxFailures)]
    /\ cache \subseteq Responses /\ storing \subseteq Responses
    /\ handled \in [RedisKeys -> 0..2] /\ overlapped \subseteq RedisKeys
    /\ request \in [Clients -> Requests]

Init ==
    /\ half = 1 /\ failures = 0
    /\ bucket = [b \in Buckets |-> 0] /\ passed = [b \in Buckets |-> <<0, 0>>]
    /\ cache = {} /\ storing = {} /\ overlapped = {}
    /\ handled = [k \in RedisKeys |-> 0]
    /\ request = [c \in Clients |-> Idle]

-----------------------------------------------------------------------------
At(c, step) == request[c].step = step
GoTo(c, r) == request' = [request EXCEPT ![c] = r]
Then(c, step) == GoTo(c, [request[c] EXCEPT !.step = step])
Return(c) == GoTo(c, Idle)
Key(r) == RedisKey(r.route, r.caller)
Keyed(c) == At(c, "lookup") \/ At(c, "handle")
ValkeyFails == failures < MaxFailures /\ failures' = failures + 1

-----------------------------------------------------------------------------
(* RateLimitGuard. A request without an Idempotency-Key is done with here: *)
(* what its handler does is the matter of other modules.                   *)

Overlap(c, key) ==
    \/ \E d \in Clients \ {c} : Keyed(d) /\ Key(request[d]) = key
    \/ \E s \in storing : s.key = key

Pass(c, u, route, keyed) ==
    IF keyed
    THEN /\ GoTo(c, [step |-> "lookup", caller |-> u, route |-> route])
         /\ overlapped' = overlapped \cup {k \in {RedisKey(route, u)} : Overlap(c, k)}
    ELSE UNCHANGED <<request, overlapped>>

Arrives(c, route, keyed) == request[c] = Idle /\ (keyed => route.idempotent)

PassGuard(c, u, route, keyed) ==
    /\ passed' = [passed EXCEPT ![Bucket(route, u)][2] = @ + 1]
    /\ Pass(c, u, route, keyed)

SkipRateLimit(c, u, route, keyed) ==
    /\ Arrives(c, route, keyed) /\ route.tier = "skip"
    /\ Pass(c, u, route, keyed)
    /\ UNCHANGED <<limits, cache, storing, handled, failures>>

Counted(b) == IF bucket[b] <= Limit THEN bucket[b] + 1 ELSE bucket[b]

(* Mutant: the request is counted after it has been compared.              *)
CompareFirst(c, u, route, keyed) ==
    /\ Arrives(c, route, keyed) /\ route.tier # "skip"
    /\ LET b == Bucket(route, u)
       IN  /\ bucket' = [bucket EXCEPT ![b] = Counted(b)]
           /\ IF bucket[b] < Limit + 1 THEN PassGuard(c, u, route, keyed)
              ELSE UNCHANGED <<passed, request, overlapped>>
    /\ UNCHANGED <<half, cache, storing, handled, failures>>

(* consumeRateLimit: INCR and EXPIRE in one MULTI, then count <= limit;    *)
(* more than that is a 429. The count is of no interest beyond Limit + 1.  *)
ConsumeRateLimit(c, u, route, keyed) ==
    /\ Arrives(c, route, keyed) /\ route.tier # "skip"
    /\ LET b == Bucket(route, u)
       IN  /\ bucket' = [bucket EXCEPT ![b] = Counted(b)]
           /\ IF Counted(b) <= Limit THEN PassGuard(c, u, route, keyed)
              ELSE UNCHANGED <<passed, request, overlapped>>
    /\ UNCHANGED <<half, cache, storing, handled, failures>>

(* "If Valkey is unavailable, fail open."                                  *)
FailOpen(c, u, route, keyed) ==
    /\ Arrives(c, route, keyed) /\ route.tier # "skip"
    /\ ValkeyFails
    /\ PassGuard(c, u, route, keyed)
    /\ UNCHANGED <<half, bucket, cache, storing, handled>>

(* Half a window passes; a new window has keys of its own.                 *)
Tick ==
    /\ half' = 3 - half
    /\ bucket' = IF half = 2 THEN [b \in Buckets |-> 0] ELSE bucket
    /\ passed' = [b \in Buckets |-> <<passed[b][2], 0>>]
    /\ UNCHANGED <<responses, failures, request>>

-----------------------------------------------------------------------------
(* IdempotencyInterceptor.                                                 *)

GetCached(c) ==
    /\ At(c, "lookup")
    /\ LET hits == {r \in cache : r.key = Key(request[c])}
       IN  IF hits = {} THEN Then(c, "handle")
           ELSE \E r \in hits : GoTo(c, [step |-> "respond", caller |-> request[c].caller,
                                         route |-> request[c].route, for |-> r.for])
    /\ UNCHANGED <<limits, responses, failures>>

(* The GET rejects, and the request with it.                               *)
GetFails(c) ==
    /\ At(c, "lookup")
    /\ ValkeyFails
    /\ Return(c)
    /\ UNCHANGED <<limits, responses>>

(* Mutant: the response is not kept.                                       *)
HandleOnly(c) ==
    /\ At(c, "handle")
    /\ LET key == Key(request[c])
       IN  /\ handled' = [handled EXCEPT ![key] = IF @ < 2 THEN @ + 1 ELSE @]
           /\ UNCHANGED storing
    /\ GoTo(c, [step |-> "respond", caller |-> request[c].caller,
                route |-> request[c].route, for |-> request[c].caller])
    /\ UNCHANGED <<limits, cache, overlapped, failures>>

(* The handler succeeds; the response goes to Valkey and, at once, back.   *)
Handle(c) ==
    /\ At(c, "handle")
    /\ LET key == Key(request[c])
       IN  /\ handled' = [handled EXCEPT ![key] = IF @ < 2 THEN @ + 1 ELSE @]
           /\ storing' = storing \cup {[key |-> key, for |-> request[c].caller]}
    /\ GoTo(c, [step |-> "respond", caller |-> request[c].caller,
                route |-> request[c].route, for |-> request[c].caller])
    /\ UNCHANGED <<limits, cache, overlapped, failures>>

(* It throws, and nothing is kept.                                         *)
HandlerThrows(c) ==
    /\ At(c, "handle")
    /\ Return(c)
    /\ UNCHANGED <<limits, responses, failures>>

Respond(c) ==
    /\ At(c, "respond")
    /\ Return(c)
    /\ UNCHANGED <<limits, responses, failures>>

Store(r) ==
    /\ cache' = {x \in cache : x.key # r.key} \cup {r}
    /\ storing' = storing \ {r}
    /\ UNCHANGED <<limits, handled, overlapped, failures, request>>

(* "Cache failure must NOT fail the request."                              *)
StoreFails(r) ==
    /\ ValkeyFails
    /\ storing' = storing \ {r}
    /\ UNCHANGED <<limits, cache, handled, overlapped, request>>

(* 24 hours later.                                                         *)
Expire(r) ==
    /\ \A c \in Clients : Keyed(c) => Key(request[c]) # r.key
    /\ \A s \in storing : s.key # r.key
    /\ cache' = cache \ {r}
    /\ handled' = [handled EXCEPT ![r.key] = 0]
    /\ overlapped' = overlapped \ {r.key}
    /\ UNCHANGED <<limits, storing, failures, request>>

-----------------------------------------------------------------------------
Next ==
    \/ Tick
    \/ \E c \in Clients :
          \/ \E u \in Callers, route \in Served, keyed \in BOOLEAN :
                \/ SkipRateLimit(c, u, route, keyed) \/ ConsumeRateLimit(c, u, route, keyed)
                \/ FailOpen(c, u, route, keyed)
          \/ GetCached(c) \/ GetFails(c) \/ Handle(c) \/ HandlerThrows(c) \/ Respond(c)
    \/ \E r \in storing : Store(r) \/ StoreFails(r)
    \/ \E r \in cache : Expire(r)

Spec == Init /\ [][Next]_vars

-----------------------------------------------------------------------------
(* While Valkey answers, any interval of the length of a window sees twice *)
(* the limit of requests of a key pass, and no more.                       *)
AtMostTwiceTheLimit ==
    failures = 0 => \A b \in Buckets : passed[b][1] + passed[b][2] <= 2 * Limit

(* "making the operation safe to retry": requests with one key that come   *)
(* one after the other, the SET of the first included, run the handler     *)
(* successfully once while Valkey answers.                                 *)
RetriesAreSafe ==
    failures = 0 => \A k \in RedisKeys \ overlapped : handled[k] <= 1

(* Refuted. "Sliding window": what passes in an interval as long as the    *)
(* window is the limit at most. Two windows meet in it.                    *)
SlidingWindow ==
    failures = 0 => \A b \in Buckets : passed[b][1] + passed[b][2] <= Limit

(* Refuted. Retries are safe when they come before the first has answered. *)
OverlappingRetriesAreSafe == failures = 0 => \A k \in RedisKeys : handled[k] <= 1
=============================================================================
