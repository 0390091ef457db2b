------------------------------ MODULE Presence ------------------------------
(***************************************************************************)
(* What the server promises about who is online: a character is played by  *)
(* at most one session, a session plays at most one character, and a       *)
(* character changes hands only by first going offline.  This is the view  *)
(* message_send has of the server (session_map::write).                    *)
(***************************************************************************)
CONSTANTS Sessions, Names, NULL

VARIABLE online     \* name -> session playing it, NULL when offline

Init == online = [n \in Names |-> NULL]

Come(n, s) ==
    /\ online[n] = NULL
    /\ \A m \in Names : online[m] # s
    /\ online' = [online EXCEPT ![n] = s]

Leave(n) ==
    /\ online[n] # NULL
    /\ online' = [online EXCEPT ![n] = NULL]

(* The server process stops: everyone is offline.                          *)
Shutdown == online' = [n \in Names |-> NULL]

Next ==
    \/ \E n \in Names, s \in Sessions : Come(n, s)
    \/ \E n \in Names : Leave(n)
    \/ Shutdown

Spec == Init /\ [][Next]_online
=============================================================================
