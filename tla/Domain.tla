------------------------------- MODULE Domain -------------------------------
(***************************************************************************)
(* The identifiers the server's components share.                          *)
(***************************************************************************)
CONSTANTS Sessions, \* server_session objects, one per accepted connection
          Users,    \* account ids (table user_id, sessionstate::userid)
          Names,    \* character names (player::name, the keys of session_map)
          NULL      \* an empty optional, a missing row, a missing map entry

ASSUME DomainAssumption ==
    /\ NULL \notin Sessions
    /\ NULL \notin Users
    /\ NULL \notin Names
=============================================================================
