------------------------------ MODULE PlayerDb ------------------------------
(***************************************************************************)
(* The account tables of the player database (schemas/niba_player.sql) and *)
(* the SQL statements server/db_accessor.cpp sends to them.  One statement *)
(* is one atomic step of the database.  Passwords, salts and character     *)
(* attributes are left out: no statement below depends on their values.    *)
(***************************************************************************)
EXTENDS Domain

VARIABLES user_id,          \* ids that have a row in table user_id
          logged_in,        \* ids whose column user_id.logged_in is true
          player_character  \* id -> name of its character, NULL without a row

dbVars == <<user_id, logged_in, player_character>>

WriteOps == {"insert_user", "set_logged_in", "set_logged_out", "insert_char"}
ReadOps  == {"select_user", "select_char", "select_aux"}
Ops      == WriteOps \cup ReadOps

Statement == [op : Ops, id : Users, name : Names \cup {NULL}]

DbTypeOK ==
    /\ user_id \subseteq Users
    /\ logged_in \subseteq user_id
    /\ player_character \in [Users -> Names \cup {NULL}]

DbInit ==
    /\ user_id = {}
    /\ logged_in = {}
    /\ player_character = [u \in Users |-> NULL]

(* create_user: the primary key on id rejects a second row.                *)
InsertUser(id) ==
    /\ user_id' = user_id \cup {id}
    /\ UNCHANGED <<logged_in, player_character>>

(* The UPDATE of login and the one of logout touch existing rows only.     *)
SetLoggedIn(id) ==
    /\ logged_in' = logged_in \cup ({id} \cap user_id)
    /\ UNCHANGED <<user_id, player_character>>

SetLoggedOut(id) ==
    /\ logged_in' = logged_in \ {id}
    /\ UNCHANGED <<user_id, player_character>>

(* Mutant: no primary key, a second character replaces the first.          *)
InsertChar_Upsert(id, name) ==
    /\ player_character' = [player_character EXCEPT ![id] = name]
    /\ UNCHANGED <<user_id, logged_in>>

(* create_char: the primary key is the account id; nothing makes the name  *)
(* unique.                                                                 *)
InsertChar(id, name) ==
    /\ player_character' = IF player_character[id] = NULL
                             THEN [player_character EXCEPT ![id] = name]
                             ELSE player_character
    /\ UNCHANGED <<user_id, logged_in>>

Execute(st) ==
    \/ st.op = "insert_user"    /\ InsertUser(st.id)
    \/ st.op = "set_logged_in"  /\ SetLoggedIn(st.id)
    \/ st.op = "set_logged_out" /\ SetLoggedOut(st.id)
    \/ st.op = "insert_char"    /\ InsertChar(st.id, st.name)
    \/ st.op \in ReadOps        /\ UNCHANGED dbVars

(* The statement executes but its caller takes it for a no: a unique       *)
(* violation, no row, or an account whose logged_in column is already true.*)
Refused(st) ==
    \/ st.op = "insert_user" /\ st.id \in user_id
    \/ st.op = "select_user" /\ (st.id \notin user_id \/ st.id \in logged_in)
    \/ st.op = "select_char" /\ player_character[st.id] = NULL
    \/ st.op = "insert_char" /\ player_character[st.id] # NULL

Answer(st) ==
    [ec  |-> IF Refused(st) THEN "no" ELSE "ok",
     row |-> IF st.op = "select_char" THEN player_character[st.id] ELSE NULL]

(* main: UPDATE user_id SET logged_in = false WHERE 1 = 1, on start-up.    *)
ResetLogins == logged_in' = {} /\ UNCHANGED <<user_id, player_character>>
=============================================================================
