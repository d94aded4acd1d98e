--------------------------- MODULE ClientAddress ---------------------------
(***************************************************************************)
(* Which address a request is counted under (clientIp and what it rests on, *)
(* server/src/rate-limit.ts): the operator's proxies are told apart by      *)
(* network, a header is believed as far as they vouch for it, and an IPv6   *)
(* host counts as its /64.  An address is a number of Width[v] bits, a      *)
(* network its leading bits.                                                *)
(*                                                                         *)
(* A behaviour is one request whose X-Forwarded-For grows on the left, where *)
(* whoever sent it to the first proxy may have written anything.             *)
(***************************************************************************)
EXTENDS Integers, Sequences, FiniteSetsExt

CONSTANTS
  Width,        \* family, 4 or 6 -> bits in an address
  HostBits,     \* of an IPv6 address, those below its /64
  Private,      \* PRIVATE_NETS
  Settings,     \* values of TRUSTED_PROXIES and TRUST_PROXY to look at
  MaxEntries    \* bound on the header

Addresses == UNION {[v : {f}, n : 0..(2^Width[f] - 1)] : f \in {4, 6}}
Networks  == UNION {[v : {f}, n : 0..(2^Width[f] - 1), prefix : 0..Width[f]] : f \in {4, 6}}

Unusable == [v |-> 0, n |-> 0]      \* header text that is no address
Absent   == [v |-> 0, n |-> 1]      \* no header, no TRUSTED_PROXIES, no peer address
Off      == [v |-> 0, n |-> 2]      \* "off"

\* TRUSTED_PROXIES is a list of networks and unusable tokens, absent or "off";
\* TRUST_PROXY is a count, zero when it says "off" and one when it is absent.
ASSUME AddressAssumption ==
  /\ \A f \in {4, 6} : Width[f] \in Nat
  /\ HostBits \in 0..Width[6]
  /\ Private \subseteq Networks
  /\ \A s \in Settings : s.hops \in 0..8 /\
       (s.listed \in {{Absent}, {Off}} \/ s.listed \subseteq Networks \cup {Unusable})
  /\ MaxEntries \in Nat

VARIABLES
  setting,    \* the operator's
  header      \* the request: peer, xff, realIp
addressVars == <<setting, header>>

-----------------------------------------------------------------------------
\* ipInNet: the leading bits agree; families never match across each other.
InNet(ip, net) ==
  /\ ip.v = net.v
  /\ LET host == 2^(Width[net.v] - net.prefix) IN ip.n \div host = net.n \div host

InAnyNet(ip, nets) == \E net \in nets : InNet(ip, net)

\* bucketKeyForIp
BucketKey(ip) == IF ip.v = 6 THEN [ip EXCEPT !.n = @ \div 2^HostBits] ELSE ip

\* socketKey: a peer with no address counts as "unknown".
SocketKey == IF header.peer = Absent THEN Absent ELSE BucketKey(header.peer)

\* parseTrustedProxies: entries that are unusable, or cover every address, are
\* left out.
UsableNets(listed) == {net \in listed : net \in Networks /\ net.prefix > 0}

\* resolveProxyTrust
Trust ==
  IF setting.listed = {Off} THEN [nets |-> {}, hops |-> 0]
  ELSE IF UsableNets(setting.listed) # {} THEN [nets |-> UsableNets(setting.listed), hops |-> 1]
  ELSE [nets |-> {}, hops |-> setting.hops]

-----------------------------------------------------------------------------
xff == header.xff

\* Where the walk from the right stops: at an entry that is no proxy's.
Stops == {i \in DOMAIN xff : xff[i] = Unusable \/ ~InAnyNet(xff[i], Trust.nets)}

\* Wrong variant of ByProxyList: the walk starts at the left.
ByProxyListFromTheLeft ==
  IF header.peer = Absent \/ ~InAnyNet(header.peer, Trust.nets) THEN SocketKey
  ELSE IF xff = <<>> THEN
    IF header.realIp \in {Absent, Unusable} THEN SocketKey ELSE BucketKey(header.realIp)
  ELSE IF Stops = {} \/ xff[Min(Stops)] = Unusable THEN SocketKey
  ELSE BucketKey(xff[Min(Stops)])

\* clientIpByProxyList
ByProxyList ==
  IF header.peer = Absent \/ ~InAnyNet(header.peer, Trust.nets) THEN SocketKey
  ELSE IF xff = <<>> THEN
    IF header.realIp \in {Absent, Unusable} THEN SocketKey ELSE BucketKey(header.realIp)
  ELSE IF Stops = {} \/ xff[Max(Stops)] = Unusable THEN SocketKey
  ELSE BucketKey(xff[Max(Stops)])

\* The entry the outermost of `hops` proxies wrote, or the rightmost.
Counted ==
  IF xff = <<>> THEN Unusable
  ELSE xff[IF Len(xff) >= Trust.hops THEN Len(xff) - Trust.hops + 1 ELSE Len(xff)]

\* X-Real-IP is looked at one hop out only.
RealIp == IF Trust.hops = 1 /\ header.realIp # Absent THEN header.realIp ELSE Unusable

\* clientIpByHopCount
ByHopCount ==
  IF Trust.hops = 0 \/ header.peer = Absent \/ ~InAnyNet(header.peer, Private) THEN SocketKey
  ELSE IF /\ RealIp # Unusable /\ Counted # Unusable
          /\ BucketKey(RealIp) # BucketKey(Counted) THEN SocketKey
  ELSE IF RealIp # Unusable THEN BucketKey(RealIp)
  ELSE IF Counted # Unusable THEN BucketKey(Counted)
  ELSE SocketKey

ClientIp == IF Trust.nets # {} THEN ByProxyList ELSE ByHopCount

-----------------------------------------------------------------------------
AddressInit ==
  /\ setting \in Settings
  /\ header \in [peer : Addresses \cup {Absent}, xff : {<<>>},
                 realIp : Addresses \cup {Unusable, Absent}]

\* An entry further left.
Pad ==
  /\ Len(xff) < MaxEntries
  /\ \E e \in Addresses \cup {Unusable} : header' = [header EXCEPT !.xff = <<e>> \o xff]
  /\ UNCHANGED setting

-----------------------------------------------------------------------------
\* Once the header holds what our own proxies wrote - an entry that is not one of
\* the listed proxies, or as many entries as hops are counted - nothing written
\* further left changes the address a request is counted under.
PaddingMovesNothing ==
  [][IF Trust.nets # {} THEN Stops # {} => ClientIp' = ClientIp
     ELSE Len(xff) >= Trust.hops /\ xff # <<>> => ClientIp' = ClientIp]_addressVars
=============================================================================
