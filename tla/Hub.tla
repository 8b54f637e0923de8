-------------------------------- MODULE Hub --------------------------------
(***************************************************************************)
(* The WebSocket hub (src/websocket.go): the rooms, the connections in     *)
(* them and what is broadcast to them.                                     *)
(*                                                                         *)
(* Join and Leave are steps under the hub's lock.  Broadcast takes the     *)
(* room's map under the lock and ranges over it without: the map is an     *)
(* object that Join and Leave go on changing, and the runtime ends the     *)
(* process if it sees the range and a change at a time.  A range produces  *)
(* entries that are removed before it gets there not at all, and entries   *)
(* that are added meanwhile perhaps.                                       *)
(***************************************************************************)
EXTENDS Naturals

CONSTANTS Rooms,
          Conns,
          Broadcasts, \* the calls of Broadcast
          MaxMoves,   \* bound: calls of Join and Leave
          None

VARIABLES
    connections, \* h.connections: the map of each room, or None
    maps,        \* the maps, each named by the call that has made it
    moves,       \* how many calls of Join and Leave there have been
    casts,       \* every Broadcast: [at, room, conns, due, conn, done, reached]
    joined,      \* history: who is in which room
    stayed,      \* history: who has been in the room throughout each Broadcast
    came         \* history: who has been there at some time during it

vars == <<connections, maps, moves, casts, joined, stayed, came>>

NoCast == [at |-> "start", room |-> None, conns |-> None, due |-> {}, conn |-> None, done |-> {}, reached |-> {}]

Init ==
    /\ connections = [m \in Rooms |-> None]
    /\ maps = [n \in 1..MaxMoves |-> {}]
    /\ moves = 0
    /\ casts = [b \in Broadcasts |-> NoCast]
    /\ joined = [m \in Rooms |-> {}]
    /\ stayed = [b \in Broadcasts |-> {}]
    /\ came = [b \in Broadcasts |-> {}]

Running == \A b \in Broadcasts : casts[b].at # "crashed"
Moves == Running /\ moves < MaxMoves /\ moves' = moves + 1

Sends(b, room) == casts[b].room = room /\ casts[b].at \in {"taken", "ranging", "writing"}

-----------------------------------------------------------------------------

Join(room, c) ==
    /\ Moves
    /\ LET n == IF connections[room] = None THEN moves' ELSE connections[room]
       IN /\ connections' = [connections EXCEPT ![room] = n]
          /\ maps' = [maps EXCEPT ![n] = @ \cup {c}]
    /\ joined' = [joined EXCEPT ![room] = @ \cup {c}]
    /\ came' = [b \in Broadcasts |-> IF Sends(b, room) THEN came[b] \cup {c} ELSE came[b]]
    /\ UNCHANGED <<casts, stayed>>

\* Mutant: the room is deleted whoever is left in it.
EmptiesAlways(room, c) == TRUE

Empties(room, c) == maps[connections[room]] \subseteq {c}

\* A range does not produce a removed entry that it has not come to, and may
\* produce it again if it is added again.
Leave(room, c) ==
    /\ Moves
    /\ LET n == connections[room]
       IN IF n = None THEN UNCHANGED <<connections, maps, casts>>
          ELSE /\ maps' = [maps EXCEPT ![n] = @ \ {c}]
               /\ connections' = [connections EXCEPT ![room] = IF Empties(room, c) THEN None ELSE @]
               /\ casts' = [b \in Broadcasts |-> IF casts[b].conns # n THEN casts[b]
                                                 ELSE [casts[b] EXCEPT !.due = @ \ {c}, !.done = @ \ {c}]]
    /\ joined' = [joined EXCEPT ![room] = @ \ {c}]
    /\ stayed' = [b \in Broadcasts |-> IF Sends(b, room) THEN stayed[b] \ {c} ELSE stayed[b]]
    /\ came' = came

\* The room's map, if there is one, is taken under the lock.
Broadcast(b, room) ==
    /\ Running /\ casts[b].at = "start"
    /\ casts' = [casts EXCEPT ![b].at = "taken", ![b].room = room, ![b].conns = connections[room]]
    /\ stayed' = [stayed EXCEPT ![b] = joined[room]]
    /\ came' = [came EXCEPT ![b] = joined[room]]
    /\ UNCHANGED <<connections, maps, moves, joined>>

Entries(b) == IF casts[b].conns = None THEN {} ELSE maps[casts[b].conns]

\* json.Marshal, which may fail; then the range begins.
Marshal(b) ==
    /\ Running /\ casts[b].at = "taken"
    /\ \/ casts' = [casts EXCEPT ![b].at = "error"]
       \/ casts' = [casts EXCEPT ![b].at = "ranging", ![b].due = Entries(b)]
    /\ UNCHANGED <<connections, maps, moves, joined, stayed, came>>

\* The next entry.
Range(b) ==
    /\ Running /\ casts[b].at = "ranging"
    /\ \E c \in Entries(b) \ casts[b].done :
         casts' = [casts EXCEPT ![b].at = "writing", ![b].conn = c]
    /\ UNCHANGED <<connections, maps, moves, joined, stayed, came>>

\* conn.Write, whose error is dropped.
Write(b) ==
    /\ Running /\ casts[b].at = "writing"
    /\ casts' = [casts EXCEPT ![b].at = "ranging", ![b].conn = None, ![b].due = @ \ {casts[b].conn},
                              ![b].done = @ \cup {casts[b].conn}, ![b].reached = @ \cup {casts[b].conn}]
    /\ UNCHANGED <<connections, maps, moves, joined, stayed, came>>

\* No entry is left of those the range must produce.
Done(b) ==
    /\ Running /\ casts[b].at = "ranging" /\ casts[b].due = {}
    /\ casts' = [casts EXCEPT ![b].at = "done"]
    /\ UNCHANGED <<connections, maps, moves, joined, stayed, came>>

\* "concurrent map iteration and map write", or read and write: Join or Leave
\* changes the map while the range goes to its next entry.
Collide(b, room) ==
    /\ Moves
    /\ casts[b].at = "ranging" /\ casts[b].conns # None /\ casts[b].conns = connections[room]
    /\ casts' = [casts EXCEPT ![b].at = "crashed"]
    /\ UNCHANGED <<connections, maps, joined, stayed, came>>

Next ==
    \/ \E room \in Rooms, c \in Conns : Join(room, c) \/ Leave(room, c)
    \/ \E b \in Broadcasts : \/ \E room \in Rooms : Broadcast(b, room) \/ Collide(b, room)
                             \/ Marshal(b) \/ Range(b) \/ Write(b) \/ Done(b)

Spec == Init /\ [][Next]_vars

-----------------------------------------------------------------------------
(* Properties.                                                             *)

\* Every variable has its type; a room has a map or none.
TypeOK ==
    /\ connections \in [Rooms -> 1..MaxMoves \cup {None}]
    /\ maps \in [1..MaxMoves -> SUBSET Conns]
    /\ moves \in 0..MaxMoves
    /\ \A b \in Broadcasts :
         /\ casts[b].at \in {"start", "taken", "ranging", "writing", "done", "error", "crashed"}
         /\ casts[b].reached \subseteq Conns
    /\ joined \in [Rooms -> SUBSET Conns]

\* A Broadcast that returns has written to every connection that was in the
\* room throughout, whoever has joined or left meanwhile and whether the room
\* has been emptied and made anew, and to none that was not there at some
\* time during it, if the process has survived that (websocket.go:71).
BroadcastReachesTheRoom ==
    \A b \in Broadcasts :
        /\ casts[b].at = "done" => stayed[b] \subseteq casts[b].reached
        /\ casts[b].reached \subseteq came[b]
=============================================================================
