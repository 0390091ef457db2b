---------------------------- MODULE ServerProofs ----------------------------
(***************************************************************************)
(* Proofs about Server, for any sets of sessions, accounts and names and   *)
(* any number of database faults.                                          *)
(***************************************************************************)
EXTENDS Server, TLAPS

Inv == TypeOK /\ ServerOK /\ \A s \in Sessions : AwaitOK(s) /\ ResultOK(s)

-----------------------------------------------------------------------------
(* A waiting session waits for a well-formed statement about an account.   *)
LEMMA StatementType ==
    ASSUME TypeOK, NEW s \in Sessions, AwaitOK(s), pc[s] \in Ops
    PROVE  StatementOf(s) \in Statement
  BY DomainAssumption
  DEF TypeOK, AwaitOK, StatementOf, Statement, Ops, WriteOps, ReadOps, BeforeLogin

(* Executing any well-formed statement keeps the tables well-formed, and a *)
(* character row, once there, is never changed.                            *)
LEMMA ExecuteKeepsRows ==
    ASSUME DbTypeOK, NEW st \in Statement, Execute(st)
    PROVE  /\ user_id' \subseteq Users
           /\ logged_in' \subseteq user_id'
           /\ player_character' \in [Users -> Names \cup {NULL}]
           /\ \A u \in Users : player_character[u] # NULL =>
                                  player_character'[u] = player_character[u]
  BY DEF DbTypeOK, Statement, Execute, InsertUser, SetLoggedIn, SetLoggedOut,
         InsertChar, dbVars

(* The initial state satisfies the invariant.                              *)
LEMMA InitInv == Init => Inv
  BY DomainAssumption
  DEF Init, Inv, TypeOK, ServerOK, AwaitOK, ResultOK, MapTypeOK, DbTypeOK,
      MapInit, DbInit, PCs, Ops, WriteOps, ReadOps, NoReq, Pending, Statement,
      BeforeLogin

(* Every step preserves the invariant.                                     *)
LEMMA NextInv == Inv /\ [Next]_vars => Inv'
<1> SUFFICES ASSUME Inv, [Next]_vars PROVE Inv'
  OBVIOUS
<1> USE DomainAssumption, FaultAssumption
    DEF Inv, ServerOK, AwaitOK, ResultOK, BeforeLogin, PCs, Ops, WriteOps, ReadOps,
        MapTypeOK, DbTypeOK, Pending, NoReq
<1>1. CASE Boot
  BY <1>1 DEF Boot, ResetLogins, TypeOK, sessionVars
<1>2. CASE BootFails
  BY <1>2 DEF BootFails, TypeOK, sessionVars, dbVars
<1>3. CASE CleanupTimer
  BY <1>3 DEF CleanupTimer, cleanup, TypeOK, sessionVars, dbVars
<1>4. CASE DbLate
  <2>1. PICK st \in orphans : /\ Execute(st)
                             /\ orphans' = orphans \ {st}
                             /\ UNCHANGED <<server, sessionVars, map_, faults>>
    BY <1>4 DEF DbLate
  <2>2. st \in Statement
    BY <2>1 DEF TypeOK
  <2>3. TypeOK'
    BY <2>1, <2>2, ExecuteKeepsRows DEF TypeOK, sessionVars
  <2>4. ServerOK' /\ \A t \in Sessions : AwaitOK(t)' /\ ResultOK(t)'
    BY <2>1, <2>2, ExecuteKeepsRows DEF TypeOK, sessionVars
  <2> QED BY <2>3, <2>4
<1>5. CASE Crash
  <2>1. PICK sent \in SUBSET {s \in Sessions : Waiting(s) /\ pc[s] \in WriteOps} :
            \/ sent = {} /\ UNCHANGED <<orphans, faults>>
            \/ /\ sent # {}
               /\ faults' = faults + 1
               /\ orphans' = orphans \cup {StatementOf(s) : s \in sent}
    BY <1>5 DEF Crash
  <2>2. orphans' \subseteq Statement /\ faults' \in Nat
    <3>1. \A s \in sent : StatementOf(s) \in Statement
      BY <2>1, StatementType
    <3> QED BY <2>1, <3>1 DEF TypeOK
  <2>3. faults' = 0 => orphans' = {}
    BY <2>1 DEF TypeOK
  <2> QED BY <1>5, <2>2, <2>3 DEF Crash, TypeOK, dbVars
<1>6. ASSUME NEW s \in Sessions, Accept(s) PROVE Inv'
  BY <1>6 DEF Accept, TypeOK, dbVars
<1>7. ASSUME NEW s \in Sessions, Handshake(s) PROVE Inv'
  BY <1>7 DEF Handshake, TypeOK, dbVars
<1>8. ASSUME NEW s \in Sessions, Disconnect(s) PROVE Inv'
  BY <1>8 DEF Disconnect, TypeOK, dbVars
<1>9. ASSUME NEW s \in Sessions, AnswerAtOnce(s) PROVE Inv'
  BY <1>9 DEF AnswerAtOnce, CanRead, TypeOK, dbVars
<1>10. ASSUME NEW s \in Sessions, Registration(s) PROVE Inv'
  BY <1>10 DEF Registration, BeginRequest, CanRead, Await, TypeOK, dbVars
<1>11. ASSUME NEW s \in Sessions, Login(s) PROVE Inv'
  BY <1>11 DEF Login, BeginRequest, CanRead, Await, TypeOK, dbVars
<1>12. ASSUME NEW s \in Sessions, CreateChar(s) PROVE Inv'
  BY <1>12 DEF CreateChar, BeginRequest, CanRead, Await, TypeOK, dbVars
<1>13. ASSUME NEW s \in Sessions, Registered(s) PROVE Inv'
  BY <1>13 DEF Registered, Resumed, Finish, TypeOK, dbVars
<1>14. ASSUME NEW s \in Sessions, CredentialsAccepted(s) PROVE Inv'
  BY <1>14 DEF CredentialsAccepted, Await, TypeOK, dbVars
<1>15. ASSUME NEW s \in Sessions, CredentialsRefused(s) PROVE Inv'
  BY <1>15 DEF CredentialsRefused, Resumed, Finish, TypeOK, dbVars
<1>16. ASSUME NEW s \in Sessions, LoginUpdated(s) PROVE Inv'
  BY <1>16 DEF LoginUpdated, Await, TypeOK, dbVars
<1>17. ASSUME NEW s \in Sessions, LoginUpdateFailed(s) PROVE Inv'
  BY <1>17 DEF LoginUpdateFailed, Finish, TypeOK, dbVars
<1>18. ASSUME NEW s \in Sessions, CharacterLoaded(s) PROVE Inv'
  BY <1>18 DEF CharacterLoaded, EnterGame, register_session, Await, TypeOK, dbVars
<1>19. ASSUME NEW s \in Sessions, CharacterNotLoaded(s) PROVE Inv'
  BY <1>19 DEF CharacterNotLoaded, Resumed, Finish, TypeOK, dbVars
<1>20. ASSUME NEW s \in Sessions, CharacterCreated(s) PROVE Inv'
  BY <1>20 DEF CharacterCreated, EnterGame, register_session, Await, TypeOK, dbVars
<1>21. ASSUME NEW s \in Sessions, CharacterNotCreated(s) PROVE Inv'
  BY <1>21 DEF CharacterNotCreated, Resumed, Finish, TypeOK, dbVars
<1>22. ASSUME NEW s \in Sessions, AuxLoaded(s) PROVE Inv'
  BY <1>22 DEF AuxLoaded, Resumed, Finish, TypeOK, dbVars
<1>23. ASSUME NEW s \in Sessions, LoggedOut(s) PROVE Inv'
  BY <1>23 DEF LoggedOut, Resumed, Destroy, TypeOK, dbVars
<1>24. ASSUME NEW s \in Sessions, EndSession(s) PROVE Inv'
  <2>1. map_' \in [Names -> Sessions \cup {NULL}]
    BY <1>24 DEF EndSession, remove, TypeOK
  <2>2. CASE userid[s] # NULL
    <3>1. /\ pc[s] \in {"handshake", "read"}
          /\ Await(s, "set_logged_out")
          /\ UNCHANGED <<conn, state, userid, player, req, response>>
          /\ UNCHANGED <<server, dbVars, orphans, faults>>
      BY <1>24, <2>2 DEF EndSession
    <3> QED BY <2>1, <2>2, <3>1 DEF Await, TypeOK, dbVars
  <2>3. CASE userid[s] = NULL
    <3>1. Destroy(s) /\ UNCHANGED <<server, dbVars, orphans, faults>>
      BY <1>24, <2>3 DEF EndSession
    <3> QED BY <2>1, <3>1 DEF Destroy, TypeOK, dbVars
  <2> QED BY <2>2, <2>3
<1>25. ASSUME NEW s \in Sessions, DbExecute(s) PROVE Inv'
  <2> DEFINE st == StatementOf(s)
  <2>1. st \in Statement /\ pc[s] \in Ops /\ reply[s].ec = "pending"
    BY <1>25, StatementType DEF DbExecute, Waiting
  <2>2. Answer(st) \in [ec : {"pending", "ok", "no", "error"}, row : Names \cup {NULL}]
    BY <2>1 DEF Answer, Statement, TypeOK
  <2>3. TypeOK'
    BY <1>25, <2>1, <2>2, ExecuteKeepsRows DEF DbExecute, TypeOK
  <2>4. ServerOK' /\ \A t \in Sessions : AwaitOK(t)'
    BY <1>25 DEF DbExecute, TypeOK
  <2>5. ResultOK(s)'
    <3>1. CASE pc[s] = "select_char" /\ Answer(st).ec = "ok"
      BY <1>25, <2>1, <2>2, <3>1
      DEF DbExecute, Answer, Refused, Execute, StatementOf, dbVars, TypeOK
    <3>2. CASE pc[s] = "insert_char" /\ Answer(st).ec = "ok"
      BY <1>25, <2>1, <2>2, <3>2
      DEF DbExecute, Answer, Refused, Execute, InsertChar, StatementOf, TypeOK
    <3> QED BY <1>25, <3>1, <3>2 DEF DbExecute, TypeOK
  <2>6. ASSUME NEW t \in Sessions \ {s} PROVE ResultOK(t)'
    BY <1>25, <2>1, ExecuteKeepsRows DEF DbExecute, TypeOK
  <2> QED BY <2>3, <2>4, <2>5, <2>6
<1>26. ASSUME NEW s \in Sessions, DbFail(s) PROVE Inv'
  <2>1. StatementOf(s) \in Statement
    BY <1>26, StatementType DEF DbFail, Waiting
  <2> QED BY <1>26, <2>1 DEF DbFail, Waiting, Failed, TypeOK, dbVars
<1>27. CASE UNCHANGED vars
  BY <1>27 DEF vars, sessionVars, dbVars, TypeOK
<1> QED
  BY <1>1, <1>2, <1>3, <1>4, <1>5, <1>6, <1>7, <1>8, <1>9, <1>10, <1>11, <1>12,
     <1>13, <1>14, <1>15, <1>16, <1>17, <1>18, <1>19, <1>20, <1>21, <1>22, <1>23,
     <1>24, <1>25, <1>26, <1>27
  DEF Next, Request, Resume

(***************************************************************************)
(* Most steps leave the map and the players alone, log nobody out and      *)
(* destroy no session.                                                     *)
(***************************************************************************)
Quiet ==
    /\ UNCHANGED <<map_, player>>
    /\ \A s \in Sessions :
          /\ pc'[s] # pc[s] => /\ pc[s] # "set_logged_out"
                               /\ pc'[s] \notin {"none", "set_logged_out"}
          /\ userid[s] # NULL => userid'[s] = userid[s]

Enter(s) == CharacterLoaded(s) \/ CharacterCreated(s)

(* Every step is quiet, or one of the five kinds that touch the map or the *)
(* players.                                                                *)
LEMMA StepKinds ==
    ASSUME Inv, [Next]_vars
    PROVE  \/ Quiet
           \/ CleanupTimer
           \/ Crash
           \/ \E s \in Sessions : Enter(s) \/ EndSession(s) \/ LoggedOut(s)
<1> USE DEF Quiet, Inv, TypeOK, AwaitOK, BeforeLogin
<1>1. CASE Boot \/ BootFails \/ DbLate \/ UNCHANGED vars
  BY <1>1 DEF Boot, BootFails, DbLate, vars, sessionVars
<1>2. ASSUME NEW s \in Sessions, Accept(s) PROVE Quiet
  BY <1>2 DEF Accept
<1>3. ASSUME NEW s \in Sessions, Handshake(s) PROVE Quiet
  BY <1>3 DEF Handshake
<1>4. ASSUME NEW s \in Sessions, Disconnect(s) PROVE Quiet
  BY <1>4 DEF Disconnect
<1>5. ASSUME NEW s \in Sessions, AnswerAtOnce(s) PROVE Quiet
  BY <1>5 DEF AnswerAtOnce, CanRead
<1>6. ASSUME NEW s \in Sessions, Registration(s) PROVE Quiet
  BY <1>6 DEF Registration, BeginRequest, CanRead, Await
<1>7. ASSUME NEW s \in Sessions, Login(s) PROVE Quiet
  BY <1>7 DEF Login, BeginRequest, CanRead, Await
<1>8. ASSUME NEW s \in Sessions, CreateChar(s) PROVE Quiet
  BY <1>8 DEF CreateChar, BeginRequest, CanRead, Await
<1>9. ASSUME NEW s \in Sessions, Registered(s) PROVE Quiet
  BY <1>9 DEF Registered, Resumed, Finish
<1>10. ASSUME NEW s \in Sessions, CredentialsAccepted(s) PROVE Quiet
  BY <1>10 DEF CredentialsAccepted, Await
<1>11. ASSUME NEW s \in Sessions, CredentialsRefused(s) PROVE Quiet
  BY <1>11 DEF CredentialsRefused, Resumed, Finish
<1>12. ASSUME NEW s \in Sessions, LoginUpdated(s) PROVE Quiet
  BY <1>12 DEF LoginUpdated, Await
<1>13. ASSUME NEW s \in Sessions, LoginUpdateFailed(s) PROVE Quiet
  BY <1>13 DEF LoginUpdateFailed, Finish
<1>14. ASSUME NEW s \in Sessions, CharacterNotLoaded(s) PROVE Quiet
  BY <1>14 DEF CharacterNotLoaded, Resumed, Finish
<1>15. ASSUME NEW s \in Sessions, CharacterNotCreated(s) PROVE Quiet
  BY <1>15 DEF CharacterNotCreated, Resumed, Finish
<1>16. ASSUME NEW s \in Sessions, AuxLoaded(s) PROVE Quiet
  BY <1>16 DEF AuxLoaded, Resumed, Finish
<1>17. ASSUME NEW s \in Sessions, DbExecute(s) PROVE Quiet
  BY <1>17 DEF DbExecute
<1>18. ASSUME NEW s \in Sessions, DbFail(s) PROVE Quiet
  BY <1>18 DEF DbFail
<1> QED
  BY <1>1, <1>2, <1>3, <1>4, <1>5, <1>6, <1>7, <1>8, <1>9, <1>10, <1>11, <1>12,
     <1>13, <1>14, <1>15, <1>16, <1>17, <1>18
  DEF Next, Request, Resume, Enter

(* No step changes or deletes a row of player_character.                   *)
LEMMA RowsKept ==
    ASSUME Inv, [Next]_vars
    PROVE  \A u \in Users : player_character[u] # NULL =>
                                player_character'[u] = player_character[u]
<1> USE DEF Inv, TypeOK
<1>1. CASE DbLate
  BY <1>1, ExecuteKeepsRows DEF DbLate
<1>2. ASSUME NEW s \in Sessions, DbExecute(s)
      PROVE  \A u \in Users : player_character[u] # NULL =>
                                  player_character'[u] = player_character[u]
  BY <1>2, StatementType, ExecuteKeepsRows DEF DbExecute, Waiting
<1>3. CASE ~ DbLate /\ ~ \E s \in Sessions : DbExecute(s)
  <2>1. UNCHANGED player_character
    BY <1>3 DEF Next, Boot, ResetLogins, BootFails, CleanupTimer, Crash, Accept,
       Handshake, Disconnect,
       EndSession, Request, AnswerAtOnce, Registration, Login, CreateChar, BeginRequest,
       Resume, Registered, CredentialsAccepted, CredentialsRefused, LoginUpdated,
       LoginUpdateFailed, CharacterLoaded, CharacterNotLoaded, CharacterCreated,
       CharacterNotCreated, EnterGame, AuxLoaded, LoggedOut, DbFail, vars, dbVars
  <2> QED BY <2>1
<1> QED BY <1>1, <1>2, <1>3

-----------------------------------------------------------------------------
(* Entering the game takes a free name for a session that had none.        *)
LEMMA EnterFacts ==
    ASSUME Inv, Ownership, NEW s \in Sessions, Enter(s)
    PROVE  \E n \in Names :
              /\ map_[n] = NULL
              /\ map_' = [map_ EXCEPT ![n] = s]
              /\ player' = [player EXCEPT ![s] = n]
              /\ pc' = [pc EXCEPT ![s] = "select_aux"]
              /\ player[s] = NULL
<1>1. PICK n \in Names : /\ EnterGame(s, n)
                         /\ pc[s] \in {"select_char", "insert_char"}
  BY DEF Enter, CharacterLoaded, CharacterCreated, Inv, AwaitOK, ResultOK
<1>2. map_[n] = NULL
  BY <1>1 DEF EnterGame, CanRegister, Online, Live, Ownership, Inv, TypeOK, MapTypeOK
<1>3. player[s] = NULL
  BY <1>1 DEF Inv, AwaitOK, TypeOK
<1> QED BY <1>1, <1>2, <1>3 DEF EnterGame, register_session, Await

(* Every step preserves the ownership of map entries.                      *)
LEMMA NextOwnership == Inv /\ Ownership /\ [Next]_vars => Ownership'
<1> SUFFICES ASSUME Inv, Ownership, [Next]_vars PROVE Ownership'
  OBVIOUS
<1> USE DomainAssumption DEF Ownership, Inv, TypeOK, MapTypeOK, AwaitOK, ResultOK
<1>1. CASE Quiet
  BY <1>1 DEF Quiet
<1>2. CASE CleanupTimer
  BY <1>2 DEF CleanupTimer, cleanup, Online, Live, sessionVars
<1>3. CASE Crash
  BY <1>3 DEF Crash
<1>4. ASSUME NEW s \in Sessions, Enter(s) PROVE Ownership'
  <2>1. PICK n \in Names :
            /\ map_[n] = NULL
            /\ map_' = [map_ EXCEPT ![n] = s]
            /\ player' = [player EXCEPT ![s] = n]
            /\ pc' = [pc EXCEPT ![s] = "select_aux"]
            /\ player[s] = NULL
    BY <1>4, EnterFacts
  <2>2. \A m \in Names : map_[m] # s
    BY <2>1
  <2>3. ASSUME NEW m \in Names, map_'[m] # NULL
        PROVE  player'[map_'[m]] = m /\ pc'[map_'[m]] \notin {"none", "set_logged_out"}
    <3>1. CASE m = n
      BY <2>1, <3>1
    <3>2. CASE m # n
      <4>1. map_'[m] = map_[m] /\ map_[m] \in Sessions \ {s}
        BY <2>1, <2>2, <2>3, <3>2
      <4> QED BY <2>1, <2>3, <4>1
    <3> QED BY <3>1, <3>2
  <2>4. ASSUME NEW t \in Sessions, player'[t] # NULL, pc'[t] # "set_logged_out"
        PROVE  map_'[player'[t]] = t
    BY <2>1, <2>2, <2>4
  <2> QED BY <2>3, <2>4
<1>5. ASSUME NEW s \in Sessions, EndSession(s) PROVE Ownership'
  <2>1. /\ pc[s] \in {"handshake", "read"}
        /\ player[s] # NULL => map_' = [map_ EXCEPT ![player[s]] = NULL]
        /\ player[s] = NULL => map_' = map_
    BY <1>5 DEF EndSession, remove
  <2>2. \/ /\ pc' = [pc EXCEPT ![s] = "set_logged_out"]
           /\ player' = player
        \/ /\ pc' = [pc EXCEPT ![s] = "none"]
           /\ player' = [player EXCEPT ![s] = NULL]
    BY <1>5 DEF EndSession, Await, Destroy
  <2>3. \A m \in Names : map_'[m] # s
    BY <2>1
  <2>4. ASSUME NEW m \in Names, map_'[m] # NULL
        PROVE  player'[map_'[m]] = m /\ pc'[map_'[m]] \notin {"none", "set_logged_out"}
    <3>1. map_'[m] = map_[m] /\ map_[m] \in Sessions \ {s}
      BY <2>1, <2>3, <2>4
    <3> QED BY <2>2, <2>4, <3>1
  <2>5. ASSUME NEW t \in Sessions, player'[t] # NULL, pc'[t] # "set_logged_out"
        PROVE  map_'[player'[t]] = t
    <3>1. t # s /\ player'[t] = player[t] /\ pc'[t] = pc[t]
      BY <2>2, <2>5
    <3>2. player[s] # NULL => player[s] # player[t]
      BY <2>1, <2>5, <3>1
    <3> QED BY <2>1, <2>5, <3>1, <3>2
  <2> QED BY <2>4, <2>5
<1>6. ASSUME NEW s \in Sessions, LoggedOut(s) PROVE Ownership'
  BY <1>6 DEF LoggedOut, Resumed, Destroy
<1> QED BY <1>1, <1>2, <1>3, <1>4, <1>5, <1>6, StepKinds

(* Every step preserves that a session plays its account's character.      *)
LEMMA NextPlays == Inv /\ PlaysStoredCharacter /\ [Next]_vars => PlaysStoredCharacter'
<1> SUFFICES ASSUME Inv, PlaysStoredCharacter, [Next]_vars PROVE PlaysStoredCharacter'
  OBVIOUS
<1>0. \A u \in Users : player_character[u] # NULL =>
                           player_character'[u] = player_character[u]
  BY RowsKept
<1> USE DomainAssumption DEF PlaysStoredCharacter, Inv, TypeOK, AwaitOK, ResultOK
<1>1. CASE Quiet
  BY <1>0, <1>1 DEF Quiet
<1>2. CASE CleanupTimer
  BY <1>2 DEF CleanupTimer, sessionVars, dbVars
<1>3. CASE Crash
  BY <1>3 DEF Crash
<1>4. ASSUME NEW s \in Sessions, Enter(s) PROVE PlaysStoredCharacter'
  BY <1>4 DEF Enter, CharacterLoaded, CharacterCreated, EnterGame, dbVars
<1>5. ASSUME NEW s \in Sessions, EndSession(s) PROVE PlaysStoredCharacter'
  BY <1>5 DEF EndSession, Destroy, dbVars
<1>6. ASSUME NEW s \in Sessions, LoggedOut(s) PROVE PlaysStoredCharacter'
  BY <1>6 DEF LoggedOut, Destroy, dbVars
<1> QED BY <1>1, <1>2, <1>3, <1>4, <1>5, <1>6, StepKinds

-----------------------------------------------------------------------------
(* What a session does by itself never drops its hold on an account, and   *)
(* changes neither the tables nor the process.                             *)
SessionStep(s) ==
    \/ Accept(s) \/ Handshake(s) \/ Disconnect(s) \/ EndSession(s)
    \/ Request(s) \/ Resume(s)

(* No step of a session lets go of an account that a session holds.        *)
LEMMA HoldKept ==
    ASSUME Inv, NEW s \in Sessions, SessionStep(s),
           NEW w \in Sessions, NEW u \in Users, Holds(w, u)
    PROVE  Holds(w, u)' /\ UNCHANGED <<server, faults, logged_in>>
<1> USE DomainAssumption DEF Holds, Inv, TypeOK, AwaitOK, BeforeLogin, Pending, dbVars
<1>1. CASE Accept(s)
  BY <1>1 DEF Accept
<1>2. CASE Handshake(s)
  BY <1>2 DEF Handshake
<1>3. CASE Disconnect(s)
  BY <1>3 DEF Disconnect
<1>4. CASE EndSession(s)
  BY <1>4 DEF EndSession, Await, Destroy
<1>5. CASE LoggedOut(s)
  BY <1>5 DEF LoggedOut, Resumed, Destroy
<1>6. CASE AnswerAtOnce(s)
  BY <1>6 DEF AnswerAtOnce, CanRead
<1>7. CASE Registration(s)
  BY <1>7 DEF Registration, BeginRequest, CanRead, Await
<1>8. CASE Login(s)
  BY <1>8 DEF Login, BeginRequest, CanRead, Await
<1>9. CASE CreateChar(s)
  BY <1>9 DEF CreateChar, BeginRequest, CanRead, Await
<1>10. CASE Registered(s)
  BY <1>10 DEF Registered, Resumed, Finish
<1>11. CASE CredentialsAccepted(s)
  BY <1>11 DEF CredentialsAccepted, Await
<1>12. CASE CredentialsRefused(s)
  BY <1>12 DEF CredentialsRefused, Resumed, Finish
<1>13. CASE LoginUpdated(s)
  BY <1>13 DEF LoginUpdated, Await
<1>14. CASE LoginUpdateFailed(s)
  BY <1>14 DEF LoginUpdateFailed, Finish
<1>15. CASE CharacterLoaded(s)
  BY <1>15 DEF CharacterLoaded, EnterGame, Await
<1>16. CASE CharacterNotLoaded(s)
  BY <1>16 DEF CharacterNotLoaded, Resumed, Finish
<1>17. CASE CharacterCreated(s)
  BY <1>17 DEF CharacterCreated, EnterGame, Await
<1>18. CASE CharacterNotCreated(s)
  BY <1>18 DEF CharacterNotCreated, Resumed, Finish
<1>19. CASE AuxLoaded(s)
  BY <1>19 DEF AuxLoaded, Resumed, Finish
<1> QED
  BY <1>1, <1>2, <1>3, <1>4, <1>5, <1>6, <1>7, <1>8, <1>9, <1>10, <1>11, <1>12,
     <1>13, <1>14, <1>15, <1>16, <1>17, <1>18, <1>19
  DEF SessionStep, Request, Resume

(* The same for the tables, whoever holds what.                            *)
LEMMA SessionStepTables ==
    ASSUME NEW s \in Sessions, SessionStep(s)
    PROVE  UNCHANGED <<server, faults, logged_in>>
  BY DEF SessionStep, Accept, Handshake, Disconnect, EndSession, Request, AnswerAtOnce,
     Registration, Login, CreateChar, BeginRequest, Resume, Registered,
     CredentialsAccepted, CredentialsRefused, LoginUpdated, LoginUpdateFailed,
     CharacterLoaded, CharacterNotLoaded, CharacterCreated, CharacterNotCreated,
     EnterGame, AuxLoaded, LoggedOut, dbVars

(* A statement that executes in time never leaves an account unheld.       *)
LEMMA ExecuteKeepsHeld ==
    ASSUME Inv, NEW s \in Sessions, DbExecute(s), NEW u \in logged_in',
           u \in logged_in => \E w \in Sessions : Holds(w, u)
    PROVE  \E w \in Sessions : Holds(w, u)'
<1> DEFINE st == StatementOf(s)
<1>1. /\ Execute(st)
      /\ pc[s] \in Ops /\ reply[s].ec = "pending"
      /\ reply' = [reply EXCEPT ![s] = Answer(st)]
      /\ UNCHANGED <<pc, userid, req>>
  BY DEF DbExecute, Waiting
<1>2. CASE u \in logged_in
  <2>1. PICK w \in Sessions : Holds(w, u)
    BY <1>2
  <2>2. CASE w # s
    BY <1>1, <2>1, <2>2 DEF Holds, Inv, TypeOK
  <2>3. CASE w = s /\ pc[s] = "set_logged_out"
    <3>1. userid[s] = u
      BY <2>1, <2>3 DEF Holds
    <3>2. u \notin logged_in'
      BY <1>1, <2>3, <3>1 DEF Execute, StatementOf, SetLoggedOut, BeforeLogin, ReadOps
    <3> QED BY <3>2
  <2>4. CASE w = s /\ pc[s] # "set_logged_out"
    BY <1>1, <2>1, <2>4 DEF Holds, Inv, TypeOK
  <2> QED BY <2>2, <2>3, <2>4
<1>3. CASE u \notin logged_in
  <2>1. pc[s] = "set_logged_in" /\ req[s].id = u
    BY <1>1, <1>3 DEF Execute, InsertUser, SetLoggedIn, SetLoggedOut,
       InsertChar, dbVars, StatementOf
  <2>2. Answer(st).ec = "ok"
    BY <2>1 DEF Answer, Refused, StatementOf
  <2> QED BY <1>1, <2>1, <2>2 DEF Holds, Inv, TypeOK
<1> QED BY <1>2, <1>3

(* Every step preserves that logged_in accounts are held.                  *)
LEMMA NextNoStaleLogin == Inv /\ NoStaleLogin /\ [Next]_vars => NoStaleLogin'
<1> SUFFICES ASSUME Inv, NoStaleLogin, [Next]_vars,
                    server' = "listening", faults' = 0, NEW u \in logged_in'
             PROVE  \E s \in Sessions : Holds(s, u)'
  BY DEF NoStaleLogin
<1> DEFINE Goal == \E s \in Sessions : Holds(s, u)'
<1>1. CASE Boot
  BY <1>1 DEF Boot, ResetLogins
<1>2. CASE BootFails \/ Crash
  BY <1>2 DEF BootFails, Crash
<1>3. CASE CleanupTimer \/ UNCHANGED vars
  BY <1>3 DEF CleanupTimer, vars, sessionVars, dbVars, NoStaleLogin, Holds
<1>4. CASE DbLate
  BY <1>4 DEF DbLate, Inv, ServerOK
<1>5. ASSUME NEW s \in Sessions, SessionStep(s) PROVE Goal
  <2>1. server = "listening" /\ faults = 0 /\ u \in logged_in
    BY <1>5, SessionStepTables
  <2>2. PICK w \in Sessions : Holds(w, u)
    BY <2>1 DEF NoStaleLogin
  <2> QED BY <1>5, <2>1, <2>2, HoldKept DEF Inv, TypeOK, DbTypeOK
<1>6. ASSUME NEW s \in Sessions, DbExecute(s) PROVE Goal
  <2>1. server = "listening" /\ faults = 0
    BY <1>6 DEF DbExecute
  <2> QED BY <1>6, <2>1, ExecuteKeepsHeld DEF NoStaleLogin
<1>7. ASSUME NEW s \in Sessions, DbFail(s) PROVE Goal
  BY <1>7 DEF DbFail, Inv, TypeOK
<1> QED
  BY <1>1, <1>2, <1>3, <1>4, <1>5, <1>6, <1>7 DEF Next, SessionStep

-----------------------------------------------------------------------------
(* In every reachable state the invariant of the awaits holds.             *)
THEOREM ServerInvariant == Spec => []Inv
  BY InitInv, NextInv, PTL DEF Spec

(***************************************************************************)
(* Every variable of the server keeps its type: in particular no statement *)
(* is ever sent without an account, and logged_in marks existing rows.     *)
(***************************************************************************)
THEOREM ServerTypeOK == Spec => []TypeOK
  BY ServerInvariant, PTL DEF Inv

(***************************************************************************)
(* The session map never holds a dangling or a stolen entry.               *)
(***************************************************************************)
THEOREM ServerOwnership == Spec => []Ownership
<1>1. Init => Ownership
  BY DomainAssumption DEF Init, MapInit, Ownership
<1> QED BY <1>1, NextOwnership, ServerInvariant, PTL DEF Spec

(***************************************************************************)
(* A session plays the character that is stored for its account.           *)
(***************************************************************************)
THEOREM ServerPlaysStored == Spec => []PlaysStoredCharacter
<1>1. Init => PlaysStoredCharacter
  BY DEF Init, PlaysStoredCharacter
<1> QED BY <1>1, NextPlays, ServerInvariant, PTL DEF Spec

(***************************************************************************)
(* An account is in the game from one session at most, although the check  *)
(* and the update of logged_in are two statements.                         *)
(***************************************************************************)
THEOREM ServerOneGame == Spec => []OneGamePerAccount
<1>1. Ownership /\ PlaysStoredCharacter => OneGamePerAccount
  BY DEF Ownership, PlaysStoredCharacter, OneGamePerAccount, Plays
<1> QED BY <1>1, ServerOwnership, ServerPlaysStored, PTL

(***************************************************************************)
(* Without database faults no account stays marked logged_in unless some   *)
(* session holds it.                                                       *)
(***************************************************************************)
THEOREM ServerNoStaleLogin == Spec => []NoStaleLogin
<1>1. Init => NoStaleLogin
  BY DEF Init, NoStaleLogin
<1> QED BY <1>1, NextNoStaleLogin, ServerInvariant, PTL DEF Spec

(* How an account becomes locked out in a step.                            *)
LEMMA LockoutStep ==
    ASSUME Inv, [Next]_vars, NEW u \in Users, ~ LockedOut(u), LockedOut(u)'
    PROVE  LogoutFails(u) \/ LoginLate(u)
<1>1. /\ server' = "listening" /\ u \in logged_in'
      /\ ~ \E s \in Sessions : Holds(s, u)'
  BY DEF LockedOut
<1>2. server = "listening" /\ u \in logged_in => \E s \in Sessions : Holds(s, u)
  BY DEF LockedOut
<1>3. CASE Boot \/ BootFails \/ Crash
  BY <1>1, <1>3 DEF Boot, BootFails, Crash, ResetLogins
<1>4. CASE CleanupTimer \/ UNCHANGED vars
  BY <1>1, <1>2, <1>4 DEF CleanupTimer, vars, sessionVars, dbVars, Holds
<1>5. CASE DbLate
  <2>1. PICK st \in orphans : /\ Execute(st)
                             /\ orphans' = orphans \ {st}
                             /\ UNCHANGED <<server, sessionVars>>
    BY <1>5 DEF DbLate
  <2>2. u \notin logged_in
    BY <1>1, <1>2, <2>1 DEF sessionVars, Holds
  <2>3. st.op = "set_logged_in" /\ st.id = u
    BY <1>1, <2>1, <2>2 DEF Execute, InsertUser, SetLoggedIn, SetLoggedOut,
       InsertChar, dbVars
  <2> QED BY <2>1, <2>3 DEF LoginLate
<1>6. ASSUME NEW s \in Sessions, SessionStep(s) PROVE FALSE
  <2>1. server = "listening" /\ u \in logged_in
    BY <1>1, <1>6, SessionStepTables
  <2>2. PICK w \in Sessions : Holds(w, u)
    BY <1>2, <2>1
  <2> QED BY <1>1, <1>6, <2>1, <2>2, HoldKept DEF Inv, TypeOK, DbTypeOK
<1>7. ASSUME NEW s \in Sessions, DbExecute(s) PROVE FALSE
  <2>1. server = "listening"
    BY <1>1, <1>7 DEF DbExecute
  <2> QED BY <1>1, <1>2, <1>7, <2>1, ExecuteKeepsHeld
<1>8. ASSUME NEW s \in Sessions, DbFail(s) PROVE LogoutFails(u)
  <2>1. /\ server = "listening" /\ u \in logged_in
        /\ reply[s].ec = "pending"
        /\ reply' = [reply EXCEPT ![s] = Failed]
        /\ UNCHANGED <<pc, userid, req>>
    BY <1>1, <1>8 DEF DbFail, Waiting, dbVars
  <2>2. PICK w \in Sessions : Holds(w, u)
    BY <1>2, <2>1
  <2>3. w = s /\ pc[s] = "set_logged_out" /\ userid[s] = u
    BY <1>1, <2>1, <2>2 DEF Holds, Inv, TypeOK
  <2> QED BY <2>1, <2>3 DEF LogoutFails, Failed, Inv, TypeOK
<1> QED
  BY <1>3, <1>4, <1>5, <1>6, <1>7, <1>8 DEF Next, SessionStep

(***************************************************************************)
(* Only a failed logout and a login that executes late lock an account     *)
(* out, whatever else fails.                                               *)
(***************************************************************************)
THEOREM ServerLockoutsExplained == Spec => LockoutsExplained
<1>1. ASSUME Inv, [Next]_vars
      PROVE  [\A u \in Users :
                 ~ LockedOut(u) /\ LockedOut(u)' => LogoutFails(u) \/ LoginLate(u)]_vars
  BY <1>1, LockoutStep
<1> QED BY <1>1, ServerInvariant, PTL DEF Spec, LockoutsExplained

-----------------------------------------------------------------------------
(* The clean-up timer finds nothing to erase.                              *)
LEMMA CleanupIdle ==
    ASSUME Inv, Ownership, CleanupTimer
    PROVE  map_' = map_
  BY DEF CleanupTimer, cleanup, Online, Live, Ownership, Inv, TypeOK, MapTypeOK

(* How a step may change the map.                                          *)
LEMMA MapStep ==
    ASSUME Inv, Ownership, [Next]_vars
    PROVE  \/ map_' = map_
           \/ \E n \in Names, s \in Sessions :
                 /\ map_[n] = NULL
                 /\ \A m \in Names : map_[m] # s
                 /\ map_' = [map_ EXCEPT ![n] = s]
           \/ \E n \in Names :
                 /\ map_[n] # NULL
                 /\ conn[map_[n]] = "down"
                 /\ map_' = [map_ EXCEPT ![n] = NULL]
           \/ server' = "booting" /\ map_' = [n \in Names |-> NULL]
<1>1. CASE Quiet
  BY <1>1 DEF Quiet
<1>2. CASE CleanupTimer
  BY <1>2, CleanupIdle
<1>3. CASE Crash
  BY <1>3 DEF Crash
<1>4. ASSUME NEW s \in Sessions, Enter(s)
      PROVE  \E n \in Names : /\ map_[n] = NULL
                              /\ \A m \in Names : map_[m] # s
                              /\ map_' = [map_ EXCEPT ![n] = s]
  BY <1>4, EnterFacts, DomainAssumption DEF Ownership
<1>5. ASSUME NEW s \in Sessions, EndSession(s)
      PROVE  \/ map_' = map_
             \/ \E n \in Names : /\ map_[n] # NULL
                                  /\ conn[map_[n]] = "down"
                                  /\ map_' = [map_ EXCEPT ![n] = NULL]
  <2>1. CASE player[s] = NULL
    BY <1>5, <2>1 DEF EndSession
  <2>2. CASE player[s] # NULL
    <3>1. player[s] \in Names /\ map_[player[s]] = s
      BY <1>5, <2>2 DEF EndSession, Ownership, Inv, TypeOK
    <3> QED BY <1>5, <2>2, <3>1, DomainAssumption DEF EndSession, remove
  <2> QED BY <2>1, <2>2
<1>6. ASSUME NEW s \in Sessions, LoggedOut(s) PROVE map_' = map_
  BY <1>6 DEF LoggedOut
<1> QED BY <1>1, <1>2, <1>3, <1>4, <1>5, <1>6, StepKinds

(***************************************************************************)
(* An entry of the map goes away only with its own session or the process. *)
(***************************************************************************)
THEOREM ServerEntryStays == Spec => EntryStays
<1>1. ASSUME Inv, Ownership, [Next]_vars
      PROVE  [\A n \in Names : map_[n] # NULL /\ map_'[n] # map_[n] =>
                 /\ map_'[n] = NULL
                 /\ server' = "booting" \/ conn[map_[n]] = "down"]_vars
  BY <1>1, MapStep DEF Inv, TypeOK, MapTypeOK
<1> QED BY <1>1, ServerInvariant, ServerOwnership, PTL DEF Spec, EntryStays

(***************************************************************************)
(* The server implements the abstract specification of who is online.      *)
(***************************************************************************)
THEOREM ServerRefinesPresence == Spec => ImplementsPresence
<1>1. Init => P!Init
  BY DEF Init, MapInit, P!Init
<1>2. ASSUME Inv, Ownership, [Next]_vars PROVE [P!Next]_map_
  BY <1>2, MapStep DEF P!Next, P!Come, P!Leave, P!Shutdown
<1> QED
  BY <1>1, <1>2, ServerInvariant, ServerOwnership, PTL DEF Spec, ImplementsPresence,
     P!Spec
=============================================================================
