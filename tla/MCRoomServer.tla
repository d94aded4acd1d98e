---------------------------- MODULE MCRoomServer ----------------------------
(* Small instances of RoomServer; every connection comes from one address.   *)
EXTENDS RoomServer

CONSTANTS home

MCAddresses == {home}
MCIpOf      == [s \in Sockets |-> home]

\* The server without the shared RESET, which MCRegistry is about: an opt-in that
\* is never given changes nothing and lets nothing be relayed.
ServerNext ==
  \/ Tick
  \/ Transport
  \/ \E s \in Sockets : Join(s) \/ Coords(s) \/ Close(s)

ServerSpec == Init /\ [][ServerNext]_vars /\ RoomFairness
=============================================================================
