------------------------------ MODULE IceCache ------------------------------
(***************************************************************************)
(* TURN credentials, from Cloudflare to a peer connection: the server's     *)
(* cache in front of the Cloudflare API (server/src/turn.ts), reached       *)
(* through /turn-credentials, and the client's cache in front of that       *)
(* (core/config.ts).  Both fetch across an await: a handler of the server   *)
(* holds on to the cache it read before, while others replace it.           *)
(***************************************************************************)
EXTENDS Integers

CONSTANTS
  Requests,      \* identities of the requests at the server; Own is this client's
  Own,
  Life,          \* TURN_REQUEST_TTL_SEC
  Lead,          \* CACHE_REFRESH_LEAD_MS
  Grace,         \* CACHE_STALE_GRACE_MS
  ClientLife,    \* ICE_CACHE_TTL_MS
  MaxTransit,    \* bound: how long an answer, of the API or the server, is on its way
  MaxHour,       \* bound on the clock
  NoCreds

ASSUME IceAssumption ==
  /\ Own \in Requests
  /\ Life \in Nat /\ Lead \in Nat /\ Grace \in Nat /\ ClientLife \in Nat
  /\ MaxTransit \in Nat /\ MaxHour \in Nat
  /\ ClientLife + 2 * MaxTransit < Lead /\ Lead < Life
  /\ NoCreds \notin [expires : Int, minted : Int]

VARIABLES
  hour,        \* Date.now(), of all three
  cached,      \* the server's cache: expiry by the server's reckoning, and when
               \* Cloudflare issued the credentials; or NoCreds
  request,     \* request -> stage, the cache it read, what it answers, since when
  iceCache     \* the client's: [creds, until, graced], or NoCreds
iceVars == <<hour, cached, request, iceCache>>

Idle == [stage |-> "idle", had |-> NoCreds, got |-> NoCreds, graced |-> FALSE, at |-> 0]

IceInit ==
  /\ hour = 0
  /\ cached = NoCreds
  /\ request = [r \in Requests |-> Idle]
  /\ iceCache = NoCreds

-----------------------------------------------------------------------------
Answer(r, creds, graced) ==
  request' = [request EXCEPT ![r] = [stage |-> "answered", had |-> NoCreds, got |-> creds,
                                     graced |-> graced, at |-> hour]]

\* Wrong variant of LongLived: credentials are served to their last moment.
NotExpired(creds) == creds # NoCreds /\ creds.expires > hour
LongLived(creds) == creds # NoCreds /\ creds.expires - hour > Lead

\* getIceServers: with nothing cached, and no request of this client's already
\* on its way for the caller to share.
ClientMayAsk == iceCache # NoCreds => hour >= iceCache.until

\* generateCloudflareIceServers up to the fetch.
Arrive(r) ==
  /\ request[r].stage = "idle"
  /\ r = Own => ClientMayAsk
  /\ IF LongLived(cached)
       THEN Answer(r, cached, FALSE)
       ELSE request' = [request EXCEPT ![r] = [Idle EXCEPT !.stage = "fetching", !.had = cached]]
  /\ UNCHANGED <<hour, cached, iceCache>>

\* The endpoint's rate limit, or a server with no TURN at all: no credentials.
Refused(r) ==
  /\ request[r].stage = "idle"
  /\ r = Own => ClientMayAsk
  /\ Answer(r, NoCreds, FALSE)
  /\ UNCHANGED <<hour, cached, iceCache>>

\* The API issues credentials; its answer is on its way.
Issue(r) ==
  /\ request[r].stage = "fetching"
  /\ request' = [request EXCEPT ![r].stage = "issued", ![r].at = hour]
  /\ UNCHANGED <<hour, cached, iceCache>>

\* Their life is counted from the moment the answer is in.
FetchSucceeds(r) ==
  LET creds == [expires |-> hour + Life, minted |-> request[r].at]
  IN /\ request[r].stage = "issued"
     /\ cached' = creds
     /\ Answer(r, creds, FALSE)
     /\ UNCHANGED <<hour, iceCache>>

\* What this handler read before the fetch, for an hour past its expiry.
FetchFails(r) ==
  LET had == request[r].had
  IN /\ request[r].stage \in {"fetching", "issued"}
     /\ Answer(r, IF had # NoCreds /\ hour - had.expires < Grace THEN had ELSE NoCreds, TRUE)
     /\ UNCHANGED <<hour, cached, iceCache>>

-----------------------------------------------------------------------------
(* fetchIceServers, at the client.                                          *)

\* Credentials are kept for a minute; an empty list is not kept at all.
Received ==
  /\ request[Own].stage = "answered"
  /\ request' = [request EXCEPT ![Own] = Idle]
  /\ IF request[Own].got = NoCreds THEN UNCHANGED iceCache
     ELSE iceCache' = [creds |-> request[Own].got, until |-> hour + ClientLife,
                       graced |-> request[Own].graced]
  /\ UNCHANGED <<hour, cached>>

\* The fetch failed at the client: STUN only, nothing kept.
Lost ==
  /\ request[Own].stage # "idle"
  /\ request' = [request EXCEPT ![Own] = Idle]
  /\ UNCHANGED <<hour, cached, iceCache>>

Others(r) ==
  /\ r # Own /\ request[r].stage = "answered"
  /\ request' = [request EXCEPT ![r] = Idle]
  /\ UNCHANGED <<hour, cached, iceCache>>

\* Neither fetch has a timeout: the API may take as long as it likes to issue
\* credentials, and only the answers are known to take little.
HourPasses ==
  /\ hour < MaxHour
  /\ \A r \in Requests : request[r].stage \in {"issued", "answered"} => hour - request[r].at < MaxTransit
  /\ hour' = hour + 1
  /\ UNCHANGED <<cached, request, iceCache>>

IceNext ==
  \/ \E r \in Requests :
       Arrive(r) \/ Refused(r) \/ Issue(r) \/ FetchSucceeds(r) \/ FetchFails(r) \/ Others(r)
  \/ Received \/ Lost \/ HourPasses

IceSpec == IceInit /\ [][IceNext]_iceVars

-----------------------------------------------------------------------------
\* The minute the client keeps credentials for comes out of the five the server
\* keeps in hand, and so does the time the answers are on their way: what a peer
\* connection is built with from the cache has life left, unless it was served
\* in Cloudflare's absence, and then for a bounded time.  No answer leaves a
\* client with an empty list cached for the peers that follow.
CachedCredentialsLive ==
  iceCache # NoCreds /\ hour < iceCache.until =>
    LET creds == iceCache.creds
    IN /\ creds # NoCreds
       /\ ~iceCache.graced => creds.minted + Life - hour > Lead - ClientLife - 2 * MaxTransit
       /\ iceCache.graced  => hour - creds.expires < Grace + ClientLife + MaxTransit
=============================================================================
