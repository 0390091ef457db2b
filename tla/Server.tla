------------------------------- MODULE Server -------------------------------
(***************************************************************************)
(* The niba server: the life of a connection (server_session::go), the     *)
(* account requests it processes (server_processor: registration, login,   *)
(* createchar), the database calls they wait for (db_accessor), the map of *)
(* online characters (session_map), and the start of the process (main).   *)
(*                                                                         *)
(* A session is a coroutine on a strand.  It runs from one await to the    *)
(* next in a single step; between two awaits every other session may run,  *)
(* on any thread of the io_context.  pc[s] names the await: "read" waits   *)
(* for a request, the names of PlayerDb!Ops wait for that SQL statement.   *)
(* The database executes a statement at some moment of the await; the      *)
(* coroutine resumes later with the result or with an error.               *)
(***************************************************************************)
EXTENDS SessionMap, PlayerDb, Naturals

CONSTANT MaxFaults  \* bound on database calls that end in an error

ASSUME FaultAssumption == MaxFaults \in Nat

VARIABLES
    server,    \* "booting", "listening", or "stuck" (start-up UPDATE failed)
    pc,        \* where each session's coroutine waits, "none" without object
    conn,      \* "up" or "down": the peer's connection
    state,     \* sessionstate::state
    userid,    \* sessionstate::userid
    player,    \* sessionstate::player (its name)
    req,       \* the account id and character name of the request at hand
    reply,     \* result of the awaited statement
    response,  \* last response written: none yet, ok, fail, error
    orphans,   \* write statements whose caller is gone, still to execute
    faults     \* number of database calls that ended in an error so far

sessionVars == <<pc, conn, state, userid, player, req, reply, response>>
vars == <<server, sessionVars, map_, dbVars, orphans, faults>>

PCs       == {"none", "handshake", "read"} \cup Ops
NoReq     == [id |-> NULL, name |-> NULL]
Pending   == [ec |-> "pending", row |-> NULL]
Failed    == [ec |-> "error", row |-> NULL]

(* Session objects that exist: their coroutine holds a shared_ptr.         *)
Live == {s \in Sessions : pc[s] # "none"}

Waiting(s) == pc[s] \in Ops /\ reply[s].ec = "pending"
Resumed(s, op) == pc[s] = op /\ reply[s].ec # "pending"

(* Mutant: the statement is built from the session's account, also before  *)
(* login.                                                                  *)
StatementOf_SessionId(s) ==
    [op |-> pc[s], id |-> userid[s],
     name |-> IF pc[s] = "insert_char" THEN req[s].name ELSE NULL]

(* The statement session s waits for.                                      *)
StatementOf(s) ==
    [op   |-> pc[s],
     id   |-> IF pc[s] \in {"insert_user", "select_user", "set_logged_in"}
                THEN req[s].id ELSE userid[s],
     name |-> IF pc[s] = "insert_char" THEN req[s].name ELSE NULL]

TypeOK ==
    /\ server \in {"booting", "listening", "stuck"}
    /\ pc \in [Sessions -> PCs]
    /\ conn \in [Sessions -> {"up", "down"}]
    /\ state \in [Sessions -> {"prelogin", "createchar", "ingame"}]
    /\ userid \in [Sessions -> Users \cup {NULL}]
    /\ player \in [Sessions -> Names \cup {NULL}]
    /\ req \in [Sessions -> [id : Users \cup {NULL}, name : Names \cup {NULL}]]
    /\ reply \in [Sessions -> [ec  : {"pending", "ok", "no", "error"},
                               row : Names \cup {NULL}]]
    /\ response \in [Sessions -> {"none", "ok", "fail", "error"}]
    /\ orphans \subseteq Statement
    /\ faults \in Nat
    /\ MapTypeOK
    /\ DbTypeOK

Init ==
    /\ server = "booting"
    /\ pc = [s \in Sessions |-> "none"]
    /\ conn = [s \in Sessions |-> "down"]
    /\ state = [s \in Sessions |-> "prelogin"]
    /\ userid = [s \in Sessions |-> NULL]
    /\ player = [s \in Sessions |-> NULL]
    /\ req = [s \in Sessions |-> NoReq]
    /\ reply = [s \in Sessions |-> Pending]
    /\ response = [s \in Sessions |-> "none"]
    /\ orphans = {}
    /\ faults = 0
    /\ MapInit
    /\ DbInit

-----------------------------------------------------------------------------
(* Suspending and resuming a coroutine.                                    *)

(* yield on a database call.                                               *)
Await(s, op) ==
    /\ pc' = [pc EXCEPT ![s] = op]
    /\ reply' = [reply EXCEPT ![s] = Pending]

(* dispatch returns, the response is written, the loop reads again.        *)
Finish(s, r) ==
    /\ pc' = [pc EXCEPT ![s] = "read"]
    /\ reply' = [reply EXCEPT ![s] = Pending]
    /\ req' = [req EXCEPT ![s] = NoReq]
    /\ response' = [response EXCEPT ![s] = r]

(* The coroutine ends and with it the last shared_ptr to the session.  A   *)
(* write or an echo may hold another a little longer: its entry has left   *)
(* the map by then, and nothing else looks at the session.                 *)
Destroy(s) ==
    /\ pc' = [pc EXCEPT ![s] = "none"]
    /\ conn' = [conn EXCEPT ![s] = "down"]
    /\ state' = [state EXCEPT ![s] = "prelogin"]
    /\ userid' = [userid EXCEPT ![s] = NULL]
    /\ player' = [player EXCEPT ![s] = NULL]
    /\ req' = [req EXCEPT ![s] = NoReq]
    /\ reply' = [reply EXCEPT ![s] = Pending]
    /\ response' = [response EXCEPT ![s] = "none"]

(* async_read delivered a request.                                         *)
CanRead(s) == pc[s] = "read" /\ conn[s] = "up"

BeginRequest(s, id, name, op) ==
    /\ CanRead(s)
    /\ req' = [req EXCEPT ![s] = [id |-> id, name |-> name]]
    /\ response' = [response EXCEPT ![s] = "none"]
    /\ Await(s, op)
    /\ UNCHANGED <<server, conn, state, userid, player, map_, dbVars,
                   orphans, faults>>

-----------------------------------------------------------------------------
(* main: the start-up UPDATE, the accept loop, the clean-up timer.         *)

Boot ==
    /\ server = "booting"
    /\ server' = "listening"
    /\ ResetLogins
    /\ UNCHANGED <<sessionVars, map_, orphans, faults>>

(* The start-up coroutine returns: the process stays up, nobody listens.   *)
BootFails ==
    /\ server = "booting"
    /\ faults < MaxFaults
    /\ server' = "stuck"
    /\ faults' = faults + 1
    /\ UNCHANGED <<sessionVars, map_, dbVars, orphans>>

(* A new object; no weak pointer of the map can point to it yet.           *)
Accept(s) ==
    /\ server = "listening"
    /\ pc[s] = "none"
    /\ \A n \in Names : map_[n] # s
    /\ pc' = [pc EXCEPT ![s] = "handshake"]
    /\ conn' = [conn EXCEPT ![s] = "up"]
    /\ UNCHANGED <<server, state, userid, player, req, reply, response, map_,
                   dbVars, orphans, faults>>

CleanupTimer ==
    /\ cleanup(Live)
    /\ UNCHANGED <<server, sessionVars, dbVars, orphans, faults>>

-----------------------------------------------------------------------------
(* server_session::go                                                      *)

Handshake(s) ==
    /\ pc[s] = "handshake" /\ conn[s] = "up"
    /\ pc' = [pc EXCEPT ![s] = "read"]
    /\ UNCHANGED <<server, conn, state, userid, player, req, reply, response,
                   map_, dbVars, orphans, faults>>

(* The peer goes away, or a handshake or idle timeout expires.             *)
Disconnect(s) ==
    /\ pc[s] # "none" /\ conn[s] = "up"
    /\ conn' = [conn EXCEPT ![s] = "down"]
    /\ UNCHANGED <<server, pc, state, userid, player, req, reply, response,
                   map_, dbVars, orphans, faults>>

(* Mutant: the map entry is only removed when there is nobody to log out.  *)
EndSession_KeepsEntry(s) ==
    /\ pc[s] \in {"handshake", "read"} /\ conn[s] = "down"
    /\ \/ /\ userid[s] # NULL
          /\ Await(s, "set_logged_out")
          /\ UNCHANGED <<conn, state, userid, player, req, response, map_>>
       \/ /\ userid[s] = NULL
          /\ IF player[s] # NULL THEN remove(player[s]) ELSE UNCHANGED map_
          /\ Destroy(s)
    /\ UNCHANGED <<server, dbVars, orphans, faults>>

(* Mutant: only a session that plays a character is logged out.            *)
EndSession_OnlyPlayers(s) ==
    /\ pc[s] \in {"handshake", "read"} /\ conn[s] = "down"
    /\ \/ /\ player[s] # NULL
          /\ remove(player[s])
          /\ Await(s, "set_logged_out")
          /\ UNCHANGED <<conn, state, userid, player, req, response>>
       \/ /\ player[s] = NULL
          /\ Destroy(s)
          /\ UNCHANGED map_
    /\ UNCHANGED <<server, dbVars, orphans, faults>>

(* The handshake throws or async_read reports an error: the loop is left,  *)
(* the map entry is removed and the logout statement is sent.              *)
EndSession(s) ==
    /\ pc[s] \in {"handshake", "read"} /\ conn[s] = "down"
    /\ IF player[s] # NULL THEN remove(player[s]) ELSE UNCHANGED map_
    /\ \/ /\ userid[s] # NULL
          /\ Await(s, "set_logged_out")
          /\ UNCHANGED <<conn, state, userid, player, req, response>>
       \/ /\ userid[s] = NULL
          /\ Destroy(s)
    /\ UNCHANGED <<server, dbVars, orphans, faults>>

(* The result of logout is ignored.                                        *)
LoggedOut(s) ==
    /\ Resumed(s, "set_logged_out")
    /\ Destroy(s)
    /\ UNCHANGED <<server, map_, dbVars, orphans, faults>>

-----------------------------------------------------------------------------
(* server_processor::dispatch and process                                  *)

(* Requests that leave the account, the map and the state as they are:     *)
(* getdata, echo and send; fight (module Fight) and the magic requests     *)
(* (module PlayerData); and every request that dispatch rejects (too       *)
(* early, unparsable, validation failure, an exception from process).      *)
AnswerAtOnce(s) ==
    /\ CanRead(s)
    /\ \E r \in {"ok", "fail", "error"} : response' = [response EXCEPT ![s] = r]
    /\ UNCHANGED <<server, pc, conn, state, userid, player, req, reply, map_,
                   dbVars, orphans, faults>>

Registration(s) ==
    /\ state[s] = "prelogin"
    /\ \E u \in Users : BeginRequest(s, u, NULL, "insert_user")

Registered(s) ==
    /\ Resumed(s, "insert_user")
    /\ Finish(s, IF reply[s].ec = "ok" THEN "ok" ELSE "fail")
    /\ UNCHANGED <<server, conn, state, userid, player, map_, dbVars, orphans,
                   faults>>

Login(s) ==
    /\ state[s] = "prelogin"
    /\ \E u \in Users : BeginRequest(s, u, NULL, "select_user")

(* The row was read, the password matches, logged_in was false.            *)
CredentialsAccepted(s) ==
    /\ pc[s] = "select_user" /\ reply[s].ec = "ok"
    /\ Await(s, "set_logged_in")
    /\ UNCHANGED <<server, conn, state, userid, player, req, response, map_,
                   dbVars, orphans, faults>>

(* Also taken with a usable row when the password does not match.          *)
CredentialsRefused(s) ==
    /\ Resumed(s, "select_user")
    /\ Finish(s, "fail")
    /\ UNCHANGED <<server, conn, state, userid, player, map_, dbVars, orphans,
                   faults>>

LoginUpdated(s) ==
    /\ pc[s] = "set_logged_in" /\ reply[s].ec = "ok"
    /\ userid' = [userid EXCEPT ![s] = req[s].id]
    /\ Await(s, "select_char")
    /\ UNCHANGED <<server, conn, state, player, req, response, map_, dbVars,
                   orphans, faults>>

LoginUpdateFailed(s) ==
    /\ pc[s] = "set_logged_in" /\ reply[s].ec = "error"
    /\ Finish(s, "fail")
    /\ UNCHANGED <<server, conn, state, userid, player, map_, dbVars, orphans,
                   faults>>

(* register_session succeeded: the session plays the character and fetches *)
(* its magics.  Shared by login and createchar.                            *)
EnterGame(s, name) ==
    /\ CanRegister(name, Live)
    /\ register_session(name, s)
    /\ state' = [state EXCEPT ![s] = "ingame"]
    /\ player' = [player EXCEPT ![s] = name]
    /\ Await(s, "select_aux")
    /\ UNCHANGED <<server, conn, userid, req, response, dbVars, orphans, faults>>

CharacterLoaded(s) ==
    /\ pc[s] = "select_char" /\ reply[s].ec = "ok"
    /\ EnterGame(s, reply[s].row)

(* Mutant: a login whose character is taken is never answered.             *)
CharacterNotLoaded_Silent(s) ==
    /\ pc[s] = "select_char" /\ reply[s].ec \in {"no", "error"}
    /\ state' = [state EXCEPT ![s] = "createchar"]
    /\ Finish(s, "ok")
    /\ UNCHANGED <<server, conn, userid, player, map_, dbVars, orphans, faults>>

(* Mutant: a login whose get_char failed is taken back halfway.            *)
CharacterNotLoaded_Forgets(s) ==
    /\ Resumed(s, "select_char")
    /\ reply[s].ec = "ok" => ~ CanRegister(reply[s].row, Live)
    /\ IF reply[s].ec = "error"
         THEN userid' = [userid EXCEPT ![s] = NULL] /\ UNCHANGED state
         ELSE state' = [state EXCEPT ![s] = "createchar"] /\ UNCHANGED userid
    /\ Finish(s, "ok")
    /\ UNCHANGED <<server, conn, player, map_, dbVars, orphans, faults>>

(* No character, get_char failed, or register_session refused: the login   *)
(* is answered with success and the session may create a character.        *)
CharacterNotLoaded(s) ==
    /\ Resumed(s, "select_char")
    /\ reply[s].ec = "ok" => ~ CanRegister(reply[s].row, Live)
    /\ state' = [state EXCEPT ![s] = "createchar"]
    /\ Finish(s, "ok")
    /\ UNCHANGED <<server, conn, userid, player, map_, dbVars, orphans, faults>>

CreateChar(s) ==
    /\ state[s] = "createchar" /\ userid[s] # NULL
    /\ \E n \in Names : BeginRequest(s, NULL, n, "insert_char")

(* Mutant: the result of create_char is ignored.                           *)
CharacterCreated_Unchecked(s) ==
    /\ Resumed(s, "insert_char")
    /\ EnterGame(s, req[s].name)

CharacterCreated(s) ==
    /\ pc[s] = "insert_char" /\ reply[s].ec = "ok"
    /\ EnterGame(s, req[s].name)

CharacterNotCreated(s) ==
    /\ Resumed(s, "insert_char")
    /\ reply[s].ec = "ok" => ~ CanRegister(req[s].name, Live)
    /\ Finish(s, "fail")
    /\ UNCHANGED <<server, conn, state, userid, player, map_, dbVars, orphans,
                   faults>>

(* get_aux returns what it has, also after an error.  Its two queries are  *)
(* one await here: nothing this module knows depends on what they read.    *)
AuxLoaded(s) ==
    /\ Resumed(s, "select_aux")
    /\ Finish(s, "ok")
    /\ UNCHANGED <<server, conn, state, userid, player, map_, dbVars, orphans,
                   faults>>

-----------------------------------------------------------------------------
(* The database end of an await.                                           *)

DbExecute(s) ==
    /\ Waiting(s)
    /\ Execute(StatementOf(s))
    /\ reply' = [reply EXCEPT ![s] = Answer(StatementOf(s))]
    /\ UNCHANGED <<server, pc, conn, state, userid, player, req, response, map_,
                   orphans, faults>>

(* No connection, a server error, or default_timeout: the caller gets an   *)
(* error.  A write may have reached the database and execute later.        *)
DbFail(s) ==
    /\ Waiting(s)
    /\ faults < MaxFaults
    /\ faults' = faults + 1
    /\ reply' = [reply EXCEPT ![s] = Failed]
    /\ \/ UNCHANGED orphans
       \/ /\ pc[s] \in WriteOps
          /\ orphans' = orphans \cup {StatementOf(s)}
    /\ UNCHANGED <<server, pc, conn, state, userid, player, req, response, map_,
                   dbVars>>

DbLate ==
    \E st \in orphans :
        /\ Execute(st)
        /\ orphans' = orphans \ {st}
        /\ UNCHANGED <<server, sessionVars, map_, faults>>

(* The process stops and is started again.  Statements it had sent may     *)
(* still execute.                                                          *)
Crash ==
    /\ \E sent \in SUBSET {s \in Sessions : Waiting(s) /\ pc[s] \in WriteOps} :
          \/ sent = {} /\ UNCHANGED <<orphans, faults>>
          \/ /\ sent # {} /\ faults < MaxFaults
             /\ faults' = faults + 1
             /\ orphans' = orphans \cup {StatementOf(s) : s \in sent}
    /\ server' = "booting"
    /\ pc' = [s \in Sessions |-> "none"]
    /\ conn' = [s \in Sessions |-> "down"]
    /\ state' = [s \in Sessions |-> "prelogin"]
    /\ userid' = [s \in Sessions |-> NULL]
    /\ player' = [s \in Sessions |-> NULL]
    /\ req' = [s \in Sessions |-> NoReq]
    /\ reply' = [s \in Sessions |-> Pending]
    /\ response' = [s \in Sessions |-> "none"]
    /\ map_' = [n \in Names |-> NULL]
    /\ UNCHANGED dbVars

-----------------------------------------------------------------------------
Resume(s) ==
    \/ Registered(s)
    \/ CredentialsAccepted(s) \/ CredentialsRefused(s)
    \/ LoginUpdated(s) \/ LoginUpdateFailed(s)
    \/ CharacterLoaded(s) \/ CharacterNotLoaded(s)
    \/ CharacterCreated(s) \/ CharacterNotCreated(s)
    \/ AuxLoaded(s)
    \/ LoggedOut(s)

Request(s) ==
    AnswerAtOnce(s) \/ Registration(s) \/ Login(s) \/ CreateChar(s)

Next ==
    \/ Boot \/ BootFails \/ CleanupTimer \/ DbLate \/ Crash
    \/ \E s \in Sessions :
          \/ Accept(s) \/ Handshake(s) \/ Disconnect(s) \/ EndSession(s)
          \/ Request(s) \/ Resume(s)
          \/ DbExecute(s) \/ DbFail(s)

Spec == Init /\ [][Next]_vars

(***************************************************************************)
(* Fairness: every database call ends within default_timeout (10 s) and    *)
(* the start-up UPDATE within 5 s, with a result or with an error; the     *)
(* io_context runs every ready handler; async_read and the handshake fail  *)
(* once the connection is down.  Nothing is assumed of the peers.          *)
(***************************************************************************)
Fairness ==
    /\ WF_vars(Boot \/ BootFails)
    /\ \A s \in Sessions :
          /\ WF_vars(DbExecute(s) \/ DbFail(s))
          /\ WF_vars(Resume(s))
          /\ WF_vars(EndSession(s))

FairSpec == Spec /\ Fairness

-----------------------------------------------------------------------------
(* Properties.                                                             *)

(***************************************************************************)
(* Every entry of the session map points to a session object that exists,  *)
(* that plays this very character and has not begun to log out; and a      *)
(* session that plays a character owns its entry.  This is what lets       *)
(* server_session::go remove the entry by name alone, without comparing    *)
(* pointers: it can never remove another session's entry, and cleanup()    *)
(* never finds anything to erase.                                          *)
(***************************************************************************)
Ownership ==
    /\ \A n \in Names : map_[n] # NULL =>
          player[map_[n]] = n /\ pc[map_[n]] \notin {"none", "set_logged_out"}
    /\ \A s \in Sessions : player[s] # NULL /\ pc[s] # "set_logged_out" =>
          map_[player[s]] = s

(***************************************************************************)
(* The strengthening that makes the properties inductive: what a session's *)
(* state says at each await, and what a result that has arrived says about *)
(* the database (rows of player_character are never changed).              *)
(***************************************************************************)
BeforeLogin == {"insert_user", "select_user", "set_logged_in"}

AwaitOK(s) ==
    /\ pc[s] \in {"none", "handshake"} \cup BeforeLogin =>
          state[s] = "prelogin" /\ userid[s] = NULL
    /\ pc[s] \in BeforeLogin => req[s].id \in Users
    /\ pc[s] = "read" /\ state[s] = "prelogin" => userid[s] = NULL
    /\ pc[s] = "select_char" => state[s] = "prelogin" /\ userid[s] \in Users
    /\ pc[s] = "insert_char" => state[s] = "createchar" /\ req[s].name \in Names
    /\ pc[s] = "select_aux" => state[s] = "ingame"
    /\ pc[s] = "set_logged_out" => userid[s] \in Users
    /\ state[s] # "prelogin" => userid[s] \in Users
    /\ player[s] \in Names <=> state[s] = "ingame"

ResultOK(s) ==
    /\ pc[s] = "select_char" /\ reply[s].ec = "ok" =>
          reply[s].row \in Names /\ player_character[userid[s]] = reply[s].row
    /\ pc[s] = "insert_char" /\ reply[s].ec = "ok" =>
          player_character[userid[s]] = req[s].name

ServerOK ==
    /\ server # "listening" => \A s \in Sessions : pc[s] = "none"
    /\ faults = 0 => orphans = {}

(***************************************************************************)
(* An account plays at most one character at a time, from at most one      *)
(* session.  The logged_in column does not give this: two logins of one    *)
(* account can both read it before either writes it (db_accessor::login).  *)
(* It rests on the character row being written once per account and on     *)
(* register_session refusing a name that is taken.                         *)
(***************************************************************************)
Plays(s) == player[s] # NULL /\ pc[s] # "set_logged_out"

OneGamePerAccount ==
    \A s, t \in Sessions :
        Plays(s) /\ Plays(t) /\ userid[s] = userid[t] => s = t

(***************************************************************************)
(* The character a session plays is the one stored for its account, after  *)
(* login and after createchar, also when statements of an earlier process  *)
(* execute late.                                                           *)
(***************************************************************************)
PlaysStoredCharacter ==
    \A s \in Sessions :
        player[s] # NULL => /\ userid[s] # NULL
                            /\ player_character[userid[s]] = player[s]

(***************************************************************************)
(* While no database call has failed, an account marked logged_in is held  *)
(* by a session that will mark it logged out: the flag never locks an      *)
(* account out.                                                            *)
(***************************************************************************)
Holds(s, u) ==
    \/ userid[s] = u /\ (pc[s] = "set_logged_out" => reply[s].ec = "pending")
    \/ pc[s] = "set_logged_in" /\ req[s].id = u /\ reply[s].ec = "ok"

NoStaleLogin ==
    server = "listening" /\ faults = 0 =>
        \A u \in logged_in : \E s \in Sessions : Holds(s, u)

(***************************************************************************)
(* The result of logout is ignored (server_session::go), and the UPDATE of *)
(* a login that timed out may still take effect (db_accessor::login).      *)
(* Nothing else locks an account out: however many calls fail, it becomes  *)
(* marked logged_in with nobody to log it out only in a step in which its  *)
(* own logout fails or the UPDATE of a login of its own executes late,     *)
(* given up by its session or left by a crash.                             *)
(***************************************************************************)
LockedOut(u) ==
    server = "listening" /\ u \in logged_in /\ \A s \in Sessions : ~ Holds(s, u)

LogoutFails(u) ==
    \E s \in Sessions :
        pc[s] = "set_logged_out" /\ userid[s] = u /\ reply'[s].ec = "error"

LoginLate(u) ==
    \E st \in orphans \ orphans' : st.op = "set_logged_in" /\ st.id = u

LockoutsExplained ==
    [][\A u \in Users :
          ~ LockedOut(u) /\ LockedOut(u)' => LogoutFails(u) \/ LoginLate(u)]_vars

(***************************************************************************)
(* A session leaves the game only by ending: once a character's entry is   *)
(* there, no step of another session, of the clean-up timer or of the      *)
(* database changes it; its own session changes it only when its           *)
(* connection is lost.                                                     *)
(***************************************************************************)
EntryStays ==
    [][\A n \in Names : map_[n] # NULL /\ map_'[n] # map_[n] =>
          /\ map_'[n] = NULL
          /\ server' = "booting" \/ conn[map_[n]] = "down"]_vars

(***************************************************************************)
(* The server implements Presence: seen through the session map, a         *)
(* character changes hands only by going offline, a session plays one      *)
(* character, also across crashes.                                         *)
(***************************************************************************)
P == INSTANCE Presence WITH online <- map_
ImplementsPresence == P!Spec

(***************************************************************************)
(* Every request that waits for the database is answered, or its session   *)
(* ends: no chain of awaits goes on for ever.                              *)
(***************************************************************************)
RequestAnswered ==
    \A s \in Sessions : pc[s] \in Ops ~> pc[s] \in {"read", "none"}

(***************************************************************************)
(* Once no connected session holds an account, the account is eventually   *)
(* free to log in again (or a connected session holds it again), unless a  *)
(* database call has failed: sessions that lost their peer in the middle   *)
(* of a login log out, and so does a process that crashed and restarted.   *)
(***************************************************************************)
HeldOnline(u) == \E s \in Sessions : Holds(s, u) /\ conn[s] = "up"

AccountReleased ==
    \A u \in Users :
        u \in logged_in /\ ~ HeldOnline(u) ~>
            u \notin logged_in \/ HeldOnline(u) \/ faults > 0

(***************************************************************************)
(* session_map.h, on register_session: "if a valid entry exists, then deny *)
(* the login".  A login that succeeds leaves the prelogin state; no other  *)
(* session may then be playing the account's character.                    *)
(***************************************************************************)
LoginDeniedWhenOnline ==
    [][\A s \in Sessions :
          state[s] = "prelogin" /\ state'[s] # "prelogin" =>
              \A t \in Sessions \ {s} :
                  Plays(t) => player[t] # player_character[userid[s]]]_vars
=============================================================================
