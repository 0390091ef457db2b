----------------------------- MODULE SessionMap -----------------------------
(***************************************************************************)
(* server/session_map.{h,cpp}: the process-wide map from a character name  *)
(* to a weak pointer to the server_session that plays it.  Every member    *)
(* function runs under mutex_, so each one is a single atomic step.  A     *)
(* weak pointer is the session it points to; whether it has expired is     *)
(* asked of the set `live' of session objects that still exist.            *)
(***************************************************************************)
EXTENDS Domain

VARIABLE map_       \* name -> session it points to, NULL when there is no entry

MapTypeOK == map_ \in [Names -> Sessions \cup {NULL}]

MapInit == map_ = [n \in Names |-> NULL]

(* The entry exists and lock() on its weak pointer succeeds.               *)
Online(name, live) == map_[name] # NULL /\ map_[name] \in live

(* Mutant: register_session overwrites whatever is there.                  *)
CanRegister_Always(name, live) == TRUE

(* register_session: refused when a live entry exists; an expired entry is *)
(* erased and replaced.                                                    *)
CanRegister(name, live) == ~ Online(name, live)
register_session(name, s) == map_' = [map_ EXCEPT ![name] = s]

(* remove: erases whatever entry the name has, without looking at whom it  *)
(* points to.                                                              *)
remove(name) == map_' = [map_ EXCEPT ![name] = NULL]

(* Mutant: the expired() test is inverted.                                 *)
cleanup_Inverted(live) ==
    map_' = [n \in Names |-> IF Online(n, live) THEN NULL ELSE map_[n]]

(* cleanup: erases every expired entry.                                    *)
cleanup(live) ==
    map_' = [n \in Names |-> IF Online(n, live) THEN map_[n] ELSE NULL]
=============================================================================
