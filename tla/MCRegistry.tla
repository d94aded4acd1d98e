----------------------------- MODULE MCRegistry -----------------------------
(* The registry asked two questions of different sizes, one a behaviour (`view`): *)
(* who sits where, for all the sockets and rooms but no opt-in and no clock; and   *)
(* the shared RESET, for all sockets but `spare`, in one room, under a clock.       *)
EXTENDS MCRoomServer, TLC

CONSTANTS spare, lobby
VARIABLE view

\* The names are alike, and so are the sockets: `spare` may be taken to be the last
\* that connects.
Alike == Permutations(Sockets \ {spare}) \cup Permutations(Names)

RegistryInit == Init /\ view \in {"seats", "shared reset"}

\* The steps of Next that leave the opt-in out.
SeatsNext ==
  \/ Transport /\ (ready'[spare] # "new" => \A s \in Sockets : ready'[s] # "new")
  \/ \E s \in Sockets :
       \/ \E seat \in Seat : RepeatJoin(s, seat, NoTeam, FALSE) \/ TakeSeat(s, seat, NoTeam, FALSE)
       \/ Close(s)

\* The steps of Next in the lobby.
ResetNext ==
  \/ Tick
  \/ Transport /\ ready'[spare] = "new"
  \/ \E s \in Sockets \ {spare} :
       \/ \E seat \in {x \in Seat : x.room = lobby}, on \in ConsentChoices :
            RepeatJoin(s, seat, NoTeam, on) \/ TakeSeat(s, seat, NoTeam, on)
       \/ Reset(s) \/ Close(s)

RegistryNext ==
  /\ \/ view = "seats" /\ SeatsNext
     \/ view = "shared reset" /\ ResetNext
  /\ UNCHANGED view

RegistrySpec == RegistryInit /\ [][RegistryNext]_<<vars, view>>
=============================================================================
