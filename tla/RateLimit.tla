----------------------------- MODULE RateLimit -----------------------------
(***************************************************************************)
(* The HTTP endpoints' rate limits (server/src/rate-limit.ts, index.ts):    *)
(* token buckets that are filled up only when they are visited and pruned   *)
(* when they have not been for a while, and the requests that draw on them. *)
(* /compute-volumes draws twice: on its address when it arrives and, once   *)
(* the body has told whose it is, on that player.  Shown to be a TokenBudget *)
(* for every key.                                                           *)
(***************************************************************************)
EXTENDS Integers

CONSTANTS
  Ips, Names,
  Capacity, Refill,   \* limiter -> LIMITS: bucket size, tokens per unit of time
  IdleAfter,          \* a bucket untouched for longer is pruned
  MaxClock,           \* bound on the clock
  MaxPosts,           \* bound on the requests whose body is still to come
  NoBucket

Limiters == {"turn", "ip", "player"}
Nobody   == "no name"               \* a request that names no player

Keys == [limiter : {"turn", "ip"}, ip : Ips, name : {Nobody}]
          \cup [limiter : {"player"}, ip : Ips, name : Names \cup {Nobody}]

Cap  == [k \in Keys |-> Capacity[k.limiter]]
Rate == [k \in Keys |-> Refill[k.limiter]]

\* A bucket is left alone long enough to have filled up before it is pruned.
ASSUME RateAssumption ==
  /\ Nobody \notin Names
  /\ Capacity \in [Limiters -> Nat] /\ Refill \in [Limiters -> Nat]
  /\ IdleAfter \in Nat
  /\ \A l \in Limiters : Capacity[l] <= IdleAfter * Refill[l]
  /\ MaxClock \in Nat /\ MaxPosts \in Nat
  /\ NoBucket \notin [tokens : Int, last : Int]

VARIABLES
  clock,
  buckets,    \* key -> tokens and lastRefillMs, or NoBucket
  answer,     \* the last tryConsume: whose, and what it said
  posts,      \* ip -> /compute-volumes requests past the first limit
  unreported  \* RejectionCounters: the reasons whose total has grown since the last report
rateVars == <<clock, buckets, answer, posts, unreported>>

Reasons == {"turn_creds_ip", "compute_volumes_ip", "compute_volumes_player", "body_too_large"}

RateInit ==
  /\ clock = 0
  /\ buckets = [k \in Keys |-> NoBucket]
  /\ answer = <<>>
  /\ posts = [ip \in Ips |-> 0]
  /\ unreported = {}

-----------------------------------------------------------------------------
(* TokenBucket.                                                             *)

UpTo(n, cap) == IF n > cap THEN cap ELSE n

\* What a key has at its next visit.
Filled(k) ==
  IF buckets[k] = NoBucket THEN Cap[k]
  ELSE UpTo(buckets[k].tokens + (clock - buckets[k].last) * Rate[k], Cap[k])

\* Wrong variant of Visit: a refused request starts the refill over.
VisitForfeiting(k) ==
  /\ answer' = <<k, Filled(k) >= 1>>
  /\ buckets' = [buckets EXCEPT
       ![k] = [tokens |-> IF Filled(k) >= 1 THEN Filled(k) - 1 ELSE 0,
               last |-> IF Filled(k) >= 1 THEN clock ELSE clock + 1]]

\* tryConsume
Visit(k) ==
  /\ answer' = <<k, Filled(k) >= 1>>
  /\ buckets' = [buckets EXCEPT
       ![k] = [tokens |-> IF Filled(k) >= 1 THEN Filled(k) - 1 ELSE Filled(k),
               last |-> clock]]

\* pruneIdle, of each limiter.
Prune ==
  /\ buckets' = [k \in Keys |->
       IF buckets[k] # NoBucket /\ clock - buckets[k].last > IdleAfter THEN NoBucket
       ELSE buckets[k]]
  /\ UNCHANGED <<clock, answer, posts, unreported>>

-----------------------------------------------------------------------------
(* The endpoints.                                                           *)

Count(reason) == unreported' = unreported \cup {reason}

CountUnless(granted, reason) == IF granted THEN UNCHANGED unreported ELSE Count(reason)

Key(limiter, ip, name) == [limiter |-> limiter, ip |-> ip, name |-> name]

TurnCredentials(ip) ==
  LET k == Key("turn", ip, Nobody)
  IN /\ Visit(k)
     /\ CountUnless(Filled(k) >= 1, "turn_creds_ip")
     /\ UNCHANGED <<clock, posts>>

PostArrives(ip) ==
  LET k == Key("ip", ip, Nobody)
  IN /\ Visit(k)
     /\ CountUnless(Filled(k) >= 1, "compute_volumes_ip")
     /\ Filled(k) >= 1 => posts[ip] < MaxPosts
     /\ posts' = IF Filled(k) >= 1 THEN [posts EXCEPT ![ip] = @ + 1] ELSE posts
     /\ UNCHANGED clock

\* The body is over BODY_BYTES: the request is destroyed.
PostTooLarge(ip) ==
  /\ posts[ip] > 0
  /\ posts' = [posts EXCEPT ![ip] = @ - 1]
  /\ Count("body_too_large")
  /\ UNCHANGED <<clock, buckets, answer>>

\* It is no JSON, or the requester went away.
PostUnreadable(ip) ==
  /\ posts[ip] > 0
  /\ posts' = [posts EXCEPT ![ip] = @ - 1]
  /\ UNCHANGED <<clock, buckets, answer, unreported>>

\* The body is in.  playerKey: without a name, the address on its own.
PostEnds(ip, name) ==
  LET k == Key("player", ip, name)
  IN /\ posts[ip] > 0
     /\ posts' = [posts EXCEPT ![ip] = @ - 1]
     /\ Visit(k)
     /\ CountUnless(Filled(k) >= 1, "compute_volumes_player")
     /\ UNCHANGED clock

\* drainDeltas, once a minute.
ReportRefusals ==
  /\ unreported' = {}
  /\ UNCHANGED <<clock, buckets, answer, posts>>

TimePasses ==
  /\ clock < MaxClock
  /\ clock' = clock + 1
  /\ UNCHANGED <<buckets, answer, posts, unreported>>

RateNext ==
  \/ \E ip \in Ips :
       \/ TurnCredentials(ip) \/ PostArrives(ip) \/ PostTooLarge(ip) \/ PostUnreadable(ip)
       \/ \E name \in Names \cup {Nobody} : PostEnds(ip, name)
  \/ Prune \/ ReportRefusals \/ TimePasses

RateSpec == RateInit /\ [][RateNext]_rateVars

-----------------------------------------------------------------------------
\* Filling up on a visit and forgetting idle buckets are not to be noticed: in
\* what it grants and refuses every limiter is a budget per key, which no
\* housemate's requests draw on and pruning neither tops up nor takes from.
Budget == INSTANCE TokenBudget WITH level <- [k \in Keys |-> Filled(k)]
IsABudget == Budget!BudgetSpec
=============================================================================
