-------------------------------- MODULE Rooms --------------------------------
(***************************************************************************)
(* What the lobby promises: a room opens with the user who opened it,      *)
(* others come in while there is space and go out one at a time, and the   *)
(* room ends for everybody at once.  Nobody is in two rooms.               *)
(* Lobby is shown to implement it.                                         *)
(***************************************************************************)
EXTENDS Naturals, FiniteSets

CONSTANTS Person, RoomName, Capacities

VARIABLE room   \* what each room is: its host, its capacity and its members

NoRoomThere == [host |-> {}, capacity |-> 0, members |-> {}]

IsOut(p) == \A r \in RoomName : p \notin room[r].members

Open(p, r) == /\ room[r] = NoRoomThere
              /\ IsOut(p)
              /\ \E c \in Capacities :
                   room' = [room EXCEPT ![r] = [host |-> {p}, capacity |-> c,
                                                members |-> {p}]]

Join(p, r) == /\ room[r] # NoRoomThere
              /\ IsOut(p)
              /\ Cardinality(room[r].members) < room[r].capacity
              /\ room' = [room EXCEPT ![r].members = @ \cup {p}]

Leave(p, r) == /\ p \in room[r].members \ room[r].host
               /\ room' = [room EXCEPT ![r].members = @ \ {p}]

\* The host closes the room or starts its game.
Disband(r) == /\ room[r] # NoRoomThere
              /\ room' = [room EXCEPT ![r] = NoRoomThere]

Init == room = [r \in RoomName |-> NoRoomThere]

Next == \E r \in RoomName : \/ Disband(r)
                            \/ \E p \in Person : Open(p, r) \/ Join(p, r) \/ Leave(p, r)

Spec == Init /\ [][Next]_room

=============================================================================
