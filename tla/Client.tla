------------------------------- MODULE Client -------------------------------
(***************************************************************************)
(* The command-line client and its server's end of the connection.         *)
(*                                                                         *)
(* Two threads share a client_session.  main reads a line, waits for the   *)
(* cooldown, hands the command over (handle_cmd), reads the next line and  *)
(* only then waits for the command's future.  The io thread runs the       *)
(* coroutines: the one of start with its read loop, one per command        *)
(* (create_and_go), and the one of stop; each runs from await to await.    *)
(*                                                                         *)
(* A message is its type and what the client tells apart in it.  Times are *)
(* timers that count down: how long until earliest_time.  The three magic  *)
(* requests, whose data is the matter of PlayerData, are one type here.    *)
(***************************************************************************)
EXTENDS Naturals, Sequences

CONSTANTS Delays,     \* what a fight may add to earliest_time, in ticks
          MaxEchoes,  \* bound on messages in flight when an echo is sent
          NULL        \* an empty optional

ASSUME ClientAssumption ==
    /\ Delays \subseteq Nat
    /\ MaxEchoes \in Nat

Commands == {"registration", "login", "createchar", "fight", "magic", "send"}
Types    == Commands \cup {"getdata"}
(* "unhandled": unknown, malformed, or "timeout"; "eof": the stream ended. *)
Lines    == Commands \cup {"unhandled", "empty", "exit", "eof"}

ASSUME NullAssumption == NULL \notin Types

VARIABLES
    main,      \* where the main thread is
    line,      \* the line it has read last
    handled,   \* handled_
    waiting,   \* what its future belongs to: request_promise_ or a dummy
    ready,     \* ready_promise_: pending, ok, failed
    promise,   \* request_promise_: none, unset, set
    posted,    \* coroutines of create_and_go that have not started
    request,   \* request_
    writes,    \* requests whose async_write is outstanding
    reader,    \* coroutine of start: starting, reading, chaining, ended, broken
    link,      \* the connection: connecting, up, down, closed
    cstate,    \* sessionstate::state of the client
    data,      \* sessionstate::data of the client: none, loaded, garbage
    static,    \* has staticdata been initialised
    ctimer,    \* time until earliest_time of the client
    inbox,     \* requests on their way to the server
    outbox,    \* messages on their way to the client
    sstate,    \* sessionstate::state of the server
    stimer,    \* time until earliest_time of the server
    registered \* the session_map has the session, the request awaits get_aux

mainVars   == <<main, line, handled, waiting>>
ioVars     == <<ready, posted, request, writes, reader>>
playerVars == <<cstate, data, static, ctimer>>
serverVars == <<sstate, stimer, registered>>
vars == <<mainVars, ioVars, playerVars, serverVars, promise, link, inbox, outbox>>

States == {"prelogin", "createchar", "ingame"}
(* What a response says: a request error, failure, success; of a login     *)
(* with success: no character, a character with its data, or without.      *)
Bodies == {"error", "fail", "ok", "char", "refused"}
Response(t, b, d) == [tag |-> "response", type |-> t, body |-> b, delay |-> d]
Echo == [tag |-> "request", type |-> "echo", body |-> "ok", delay |-> 0]
Messages ==
    {Echo} \cup [tag : {"response"}, type : Types, body : Bodies, delay : Delays \cup {0}]

TypeOK ==
    /\ main \in {"first", "ready", "loop", "getline", "wait", "join", "exited",
                 "aborted"}
    /\ line \in Lines
    /\ handled \in BOOLEAN /\ registered \in BOOLEAN
    /\ waiting \in {"dummy", "request"}
    /\ ready \in {"pending", "ok", "failed"}
    /\ promise \in {"none", "unset", "set"}
    /\ posted \in Seq([type : Commands, args : BOOLEAN])
    /\ request \in Types \cup {NULL}
    /\ writes \in Seq(Types)
    /\ reader \in {"starting", "reading", "chaining", "ended", "broken"}
    /\ link \in {"connecting", "up", "down", "closed"}
    /\ cstate \in States /\ sstate \in States
    /\ data \in {"none", "loaded", "garbage"}
    /\ static \in BOOLEAN
    /\ ctimer \in Nat /\ stimer \in Nat
    /\ inbox \in Seq(Types)
    /\ outbox \in Seq(Messages)

Init ==
    /\ main = "first" /\ line = "empty" /\ waiting = "dummy" /\ handled = FALSE
    /\ ready = "pending" /\ promise = "none"
    /\ posted = <<>> /\ request = NULL /\ writes = <<>>
    /\ reader = "starting" /\ link = "connecting"
    /\ cstate = "prelogin" /\ data = "none" /\ static = FALSE /\ ctimer = 0
    /\ inbox = <<>> /\ outbox = <<>>
    /\ sstate = "prelogin" /\ stimer = 0 /\ registered = FALSE

-----------------------------------------------------------------------------
(* validate: what it asks of the session's state, and of the static data.  *)
(* What it asks of the arguments is the args of a command, chosen with it. *)
GetdataAllowed(state) == state \in {"ingame", "createchar"}
FightAllowed(state, known) == state = "ingame" /\ known
SendAllowed(state) == state # "prelogin"

Allowed(type, state, known) ==
    CASE type \in {"registration", "login"} -> state = "prelogin"
      [] type = "createchar" -> state = "createchar"
      [] type = "getdata"    -> GetdataAllowed(state)
      [] type = "fight"      -> FightAllowed(state, known)
      [] type = "magic"      -> state = "ingame"
      [] type = "send"       -> SendAllowed(state)

-----------------------------------------------------------------------------
(* The main thread.                                                        *)

ReadFirstLine ==
    /\ main = "first"
    /\ line' \in Lines
    /\ main' = "ready"
    /\ UNCHANGED <<handled, waiting, ioVars, playerVars, serverVars,
                   promise, link, inbox, outbox>>

(* The exception of a failed start leaves main and ends the process.       *)
BlockUntilReady ==
    /\ main = "ready"
    /\ \/ ready = "ok" /\ main' = "loop"
       \/ ready = "failed" /\ main' = "aborted"
    /\ UNCHANGED <<line, handled, waiting, ioVars, playerVars,
                   serverVars, promise, link, inbox, outbox>>

(* "if (line.empty()) continue;": the loop goes round with the same line.  *)
EmptyLine ==
    /\ main = "loop" /\ line = "empty"
    /\ UNCHANGED vars

(* Mutant: earliest_time is not looked at.                                 *)
CooledDown_Never == TRUE

(* earliest() and the sleep before the command.                            *)
CooledDown == handled => ctimer = 0

(* No request comes of the line: its future is fulfilled already.          *)
Unhandled ==
    /\ main = "loop" /\ line = "unhandled"
    /\ CooledDown
    /\ handled' = FALSE
    /\ waiting' = "dummy"
    /\ main' = "getline"
    /\ UNCHANGED <<line, ioVars, playerVars, serverVars, promise, link,
                   inbox, outbox>>

(* handle_cmd and create_and_go: a new promise, a new coroutine.           *)
HandleCmd ==
    /\ main = "loop" /\ line \in Commands
    /\ CooledDown
    /\ handled' = TRUE
    /\ waiting' = "request"
    /\ promise' = "unset"
    /\ \E a \in BOOLEAN : posted' = Append(posted, [type |-> line, args |-> a])
    /\ main' = "getline"
    /\ UNCHANGED <<line, ready, request, writes, reader, playerVars, serverVars,
                   link, inbox, outbox>>

GetLine ==
    /\ main = "getline"
    /\ line' \in Lines
    /\ main' = "wait"
    /\ UNCHANGED <<handled, waiting, ioVars, playerVars, serverVars,
                   promise, link, inbox, outbox>>

(* Mutant: main goes on without waiting for the response.                  *)
Wait_Not ==
    /\ main = "wait"
    /\ main' = "loop"
    /\ UNCHANGED <<line, handled, waiting, ioVars, playerVars,
                   serverVars, promise, link, inbox, outbox>>

(* future.wait() returns.                                                  *)
Wait ==
    /\ main = "wait"
    /\ waiting = "request" => promise = "set"
    /\ main' = "loop"
    /\ UNCHANGED <<line, handled, waiting, ioVars, playerVars,
                   serverVars, promise, link, inbox, outbox>>

(* exit, quit or the end of the input: stop() and the wait for the thread. *)
Stop ==
    /\ main = "loop" /\ line \in {"exit", "eof"}
    /\ main' = "join"
    /\ UNCHANGED <<line, handled, waiting, ioVars, playerVars,
                   serverVars, promise, link, inbox, outbox>>

(* ioc.run() has returned: no coroutine is left.                           *)
Join ==
    /\ main = "join"
    /\ reader \in {"ended", "broken"} /\ link = "closed"
    /\ posted = <<>> /\ writes = <<>>
    /\ main' = "exited"
    /\ UNCHANGED <<line, handled, waiting, ioVars, playerVars,
                   serverVars, promise, link, inbox, outbox>>

-----------------------------------------------------------------------------
(* The io thread.                                                          *)

Running == main \notin {"exited", "aborted"}

(* start: resolve, connect, the handshakes; each may throw.                *)
Start ==
    /\ Running /\ reader = "starting"
    /\ \/ ready' = "ok" /\ reader' = "reading" /\ link' = "up"
       \/ ready' = "failed" /\ reader' = "ended" /\ link' = "closed"
    /\ UNCHANGED <<mainVars, posted, request, writes, playerVars, serverVars,
                   promise, inbox, outbox>>

(* Mutant: the request is built from request_ before it is replaced.       *)
WriteMessage_Stale(type) ==
    /\ request' = type
    /\ writes' = Append(writes, request)

(* write_message up to its await.                                          *)
WriteMessage(type) ==
    /\ request' = type
    /\ writes' = Append(writes, type)

(* Mutant: a command that fails validation is dropped.                     *)
RunCommand_Silent ==
    /\ Running /\ posted # <<>>
    /\ posted' = Tail(posted)
    /\ IF Head(posted).args /\ Allowed(Head(posted).type, cstate, static)
         THEN WriteMessage(Head(posted).type)
         ELSE UNCHANGED <<request, writes>>
    /\ UNCHANGED <<mainVars, ready, reader, playerVars, serverVars, promise, link,
                   inbox, outbox>>

(* The coroutine of create_and_go.                                         *)
RunCommand ==
    /\ Running /\ posted # <<>>
    /\ posted' = Tail(posted)
    /\ LET m == Head(posted) IN
       IF m.args /\ Allowed(m.type, cstate, static)
         THEN WriteMessage(m.type) /\ UNCHANGED promise
         ELSE promise' = "set" /\ UNCHANGED <<request, writes>>
    /\ UNCHANGED <<mainVars, ready, reader, playerVars, serverVars, link, inbox,
                   outbox>>

(* The read loop goes on after the write it has chained.                   *)
Unchain == reader' = IF reader = "chaining" THEN "reading" ELSE reader

(* async_write completes.  A connection that is lost without notice takes  *)
(* the bytes and does not deliver them.                                    *)
WriteDone ==
    /\ Running /\ writes # <<>>
    /\ link = "up" \/ (link = "down" /\ reader # "ended")
    /\ inbox' = IF link = "up" THEN Append(inbox, Head(writes)) ELSE inbox
    /\ writes' = Tail(writes)
    /\ Unchain
    /\ UNCHANGED <<mainVars, ready, posted, request, playerVars, serverVars,
                   promise, link, outbox>>

(* Mutant: an error of async_write is only printed.                        *)
WriteFailed_Ignored ==
    /\ Running /\ writes # <<>>
    /\ link # "up"
    /\ request' = NULL
    /\ writes' = Tail(writes)
    /\ Unchain
    /\ UNCHANGED <<mainVars, ready, posted, playerVars, serverVars, promise, link,
                   inbox, outbox>>

WriteFailed ==
    /\ Running /\ writes # <<>>
    /\ link # "up"
    /\ promise' = "set"
    /\ request' = NULL
    /\ writes' = Tail(writes)
    /\ Unchain
    /\ UNCHANGED <<mainVars, ready, posted, playerVars, serverVars, link, inbox,
                   outbox>>

(* async_read reports an error: the coroutine returns.                     *)
ReadFailed ==
    /\ Running /\ reader = "reading"
    /\ link # "up" /\ outbox = <<>>
    /\ reader' = "ended"
    /\ UNCHANGED <<mainVars, ready, posted, request, writes, playerVars,
                   serverVars, promise, link, inbox, outbox>>

(* The next message, when async_read delivers one.                         *)
CanRead == Running /\ reader = "reading" /\ outbox # <<>>
Incoming == Head(outbox)

(* set_value in the read loop; on a promise that is set already it throws, *)
(* and the loop is left for good.                                          *)
SetValue ==
    IF promise = "set" THEN reader' = "broken" /\ UNCHANGED promise
    ELSE promise' = "set" /\ UNCHANGED reader

(* Mutant: every message completes the request.                            *)
IsResponse_Any(m) == request # NULL

(* "request_.has_value() && tag == response"                               *)
IsResponse(m) == request # NULL /\ m.tag = "response"

(* The dispatcher finds the fields of a request in an echo, and in those   *)
(* responses that repeat them or when there are none.                      *)
Parses(m) ==
    \/ m.tag = "request"
    \/ m.type = "getdata" /\ m.body # "error"
    \/ m.type = "createchar" /\ m.body = "ok"

(* "It's some unknown message": an echo is printed, what does not parse    *)
(* throws.                                                                 *)
ReadOther ==
    /\ CanRead /\ ~ IsResponse(Incoming)
    /\ outbox' = Tail(outbox)
    /\ reader' = IF Parses(Incoming) THEN reader ELSE "broken"
    /\ UNCHANGED <<mainVars, ready, posted, request, writes, playerVars,
                   serverVars, promise, link, inbox>>

(* A response with an error field.                                         *)
ReadError ==
    /\ CanRead /\ IsResponse(Incoming) /\ Incoming.body = "error"
    /\ outbox' = Tail(outbox)
    /\ SetValue
    /\ UNCHANGED <<mainVars, ready, posted, request, writes, playerVars,
                   serverVars, link, inbox>>

(* process_response: earliest_time is the time of the response, to which   *)
(* the client adds the delay that its replay of a fight comes to (Fight).  *)
ResetClock(type, m) == ctimer' = IF type = "fight" THEN m.delay ELSE 0

(* staticdata::init                                                        *)
InitStatic(type, m) == static' = (static \/ (type = "getdata" /\ m.body = "ok"))

(* Mutant: the state does not follow the created character.                *)
Process_ForgetsState(type, m) ==
    /\ ResetClock(type, m)
    /\ InitStatic(type, m)
    /\ cstate' = CASE type = "login" /\ m.body = "ok" -> "createchar"
                   [] type = "login" /\ m.body \in {"char", "refused"} -> "ingame"
                   [] OTHER -> cstate
    /\ data' = IF m.body \in {"char", "ok"} THEN "loaded" ELSE data

(* client_processor::process for the type of the request.  *(req.data) of  *)
(* a login without data reads an optional that holds nothing.              *)
Process(type, m) ==
    /\ ResetClock(type, m)
    /\ InitStatic(type, m)
    /\ cstate' = CASE type = "login" /\ m.body = "ok" -> "createchar"
                   [] type = "login" /\ m.body \in {"char", "refused"} -> "ingame"
                   [] type = "createchar" /\ m.body = "ok" -> "ingame"
                   [] OTHER -> cstate
    /\ data' = CASE type = "login" /\ m.body = "char" -> "loaded"
                 [] type = "login" /\ m.body = "refused" -> "garbage"
                 [] type = "createchar" /\ m.body = "ok" -> "loaded"
                 [] OTHER -> data

(* Mutant: nothing is chained to a login.                                  *)
ReadResponse_NoChain ==
    /\ CanRead /\ IsResponse(Incoming) /\ Incoming.body # "error"
    /\ outbox' = Tail(outbox)
    /\ Process(request, Incoming)
    /\ SetValue
    /\ UNCHANGED <<mainVars, ready, posted, request, writes, serverVars, link,
                   inbox>>

(* A response is merged with the outstanding request and processed as its  *)
(* type; the type in the message is not looked at (it is the same, see     *)
(* ResponseMatchesRequest).  A login, also one that failed, is followed by *)
(* getdata before its promise is set.                                      *)
ReadResponse ==
    /\ CanRead /\ IsResponse(Incoming) /\ Incoming.body # "error"
    /\ outbox' = Tail(outbox)
    /\ Process(request, Incoming)
    /\ IF request = "login"
         THEN WriteMessage("getdata") /\ reader' = "chaining" /\ UNCHANGED promise
         ELSE SetValue /\ UNCHANGED <<request, writes>>
    /\ UNCHANGED <<mainVars, ready, posted, serverVars, link, inbox>>

(* Reading the empty optional may as well end the process.                 *)
CrashOnRefused ==
    /\ CanRead /\ IsResponse(Incoming)
    /\ request = "login" /\ Incoming.body = "refused"
    /\ main' = "aborted"
    /\ UNCHANGED <<line, handled, waiting, ioVars, playerVars,
                   serverVars, promise, link, inbox, outbox>>

(* Mutant: stop() is not called.                                           *)
Close_Not ==
    /\ main = "join" /\ link = "closed"
    /\ UNCHANGED vars

(* The coroutine of stop: the closing handshake, which ends within the     *)
(* websocket's timeout; nothing to do when the connection is gone.         *)
Close ==
    /\ main = "join" /\ link # "closed"
    /\ link' = "closed"
    /\ outbox' = <<>> /\ inbox' = <<>>
    /\ UNCHANGED <<mainVars, ioVars, playerVars, serverVars, promise>>

-----------------------------------------------------------------------------
(* The connection and the other end of it.                                 *)

(* The connection is lost; what has arrived can still be read.             *)
LinkLost ==
    /\ Running /\ link = "up"
    /\ link' = "down"
    /\ inbox' = <<>>
    /\ \E n \in 0..Len(outbox) : outbox' = SubSeq(outbox, 1, n)
    /\ UNCHANGED <<mainVars, ioVars, playerVars, serverVars, promise>>

(* server_session::go and server_processor for one request.  A request     *)
(* that comes before earliest_time, fails validation or throws is answered *)
(* with an error.                                                          *)
ServerRejects(type) ==
    \/ stimer > 0
    \/ ~ Allowed(type, sstate, TRUE)
    \/ type = "send" /\ sstate = "createchar"

(* The responses process can come to; an error where ozo::begin throws.    *)
Answers(type) ==
    CASE type = "login"   -> {"fail", "ok", "char", "refused"}
      [] type = "getdata" -> {"ok"}
      [] type = "fight"   -> {"fail"}
      [] type = "magic"   -> {"ok", "fail", "error"}
      [] OTHER            -> {"ok", "fail"}

(* The responses that follow register_session and get_aux.                 *)
Registers(type, body) == <<type, body>> \in {<<"login", "char">>, <<"createchar", "ok">>}

StateAfter(type, body) ==
    CASE type = "login" /\ body \in {"ok", "refused"} -> "createchar"
      [] type = "login" /\ body = "char" -> "ingame"
      [] type = "createchar" /\ body = "ok" -> "ingame"
      [] OTHER -> sstate

(* process up to the await of get_aux: other players find the session.     *)
ServerRegister ==
    /\ link = "up" /\ inbox # <<>> /\ ~ registered
    /\ ~ ServerRejects(Head(inbox))
    /\ \E body \in Answers(Head(inbox)) : Registers(Head(inbox), body)
    /\ registered' = TRUE
    /\ UNCHANGED <<mainVars, ioVars, playerVars, sstate, stimer, promise, link,
                   inbox, outbox>>

ServerAnswer ==
    /\ link = "up" /\ inbox # <<>>
    /\ inbox' = Tail(inbox)
    /\ LET type == Head(inbox) IN
       \/ /\ ServerRejects(type)
          /\ outbox' = Append(outbox, Response(type, "error", 0))
          /\ UNCHANGED serverVars
       \/ /\ ~ ServerRejects(type)
          /\ \E body \in Answers(type), d \in IF type = "fight" THEN Delays ELSE {0} :
                /\ registered = Registers(type, body)
                /\ outbox' = Append(outbox, Response(type, body, d))
                /\ sstate' = StateAfter(type, body)
                /\ stimer' = d
                /\ registered' = FALSE
    /\ UNCHANGED <<mainVars, ioVars, playerVars, promise, link>>

(* A message of another player, also ahead of the response that tells the  *)
(* client it is in the game.                                               *)
ServerEcho ==
    /\ link = "up" /\ (sstate = "ingame" \/ registered)
    /\ Len(outbox) < MaxEchoes
    /\ outbox' = Append(outbox, Echo)
    /\ UNCHANGED <<mainVars, ioVars, playerVars, serverVars, promise, link, inbox>>

Tick ==
    /\ ctimer > 0 \/ stimer > 0
    /\ ctimer' = IF ctimer > 0 THEN ctimer - 1 ELSE 0
    /\ stimer' = IF stimer > 0 THEN stimer - 1 ELSE 0
    /\ UNCHANGED <<mainVars, ioVars, cstate, data, static, sstate, registered, promise,
                   link, inbox, outbox>>

-----------------------------------------------------------------------------
MainNext ==
    \/ ReadFirstLine \/ BlockUntilReady \/ EmptyLine \/ Unhandled \/ HandleCmd
    \/ GetLine \/ Wait \/ Stop \/ Join

IoNext ==
    \/ Start \/ RunCommand \/ WriteDone \/ WriteFailed \/ ReadFailed \/ ReadOther
    \/ ReadError \/ ReadResponse \/ CrashOnRefused \/ Close

Next ==
    \/ MainNext \/ IoNext \/ LinkLost
    \/ ServerRegister \/ ServerAnswer \/ ServerEcho \/ Tick

Spec == Init /\ [][Next]_vars

(***************************************************************************)
(* Fairness.  Both threads run what is ready; the user need not type       *)
(* anything, and a lost connection need not be noticed by a client that    *)
(* only reads (its websocket has no idle timeout).  The server answers     *)
(* every request (Server!RequestAnswered, WriteQueue!AllWritten).          *)
(***************************************************************************)
FairSpec ==
    /\ Spec
    /\ WF_vars(BlockUntilReady \/ Unhandled \/ HandleCmd \/ Wait \/ Stop \/ Join)
    /\ WF_vars(Start)
    /\ WF_vars(RunCommand)
    /\ WF_vars(WriteDone \/ WriteFailed)
    /\ WF_vars(ReadOther \/ ReadError \/ ReadResponse)
    /\ WF_vars(link = "closed" /\ ReadFailed)
    /\ WF_vars(Close)
    /\ WF_vars(ServerAnswer)
    /\ WF_vars(Tick)

(* As FairSpec, and every loss of the connection is noticed by the reader. *)
NoticedSpec == FairSpec /\ WF_vars(ReadFailed)

-----------------------------------------------------------------------------
Responses == {i \in DOMAIN outbox : outbox[i].tag = "response"}

(* Everything between a command and the processing of its response.        *)
UnderWay ==
    {<<"posted", i>> : i \in DOMAIN posted} \cup {<<"writes", i>> : i \in DOMAIN writes}
        \cup {<<"inbox", i>> : i \in DOMAIN inbox} \cup {<<"outbox", i>> : i \in Responses}

(***************************************************************************)
(* client_session.h: "User will not overwrite a non-fulfilled promise",    *)
(* client_session.cpp: "we strictly wait for 1 response per request".      *)
(* From the command to its response at most one request is under way, and  *)
(* only while the promise is not fulfilled: no response can come for a     *)
(* promise that is gone, and no two writes meet on the stream.             *)
(***************************************************************************)
OneOutstanding ==
    /\ \A x, y \in UnderWay : x = y
    /\ promise # "unset" => UnderWay = {}

(***************************************************************************)
(* client_session.cpp: "this response must match the request".  Whatever   *)
(* is under way belongs to request_, with which its response is merged     *)
(* unseen, also across the getdata that is chained to a login.             *)
(***************************************************************************)
ResponseMatchesRequest ==
    /\ \A i \in DOMAIN writes : writes[i] = request
    /\ \A i \in DOMAIN inbox : inbox[i] = request
    /\ \A i \in Responses : outbox[i].type = request

(***************************************************************************)
(* A promise that is not fulfilled has somebody who will fulfil it: the    *)
(* one request under way; only a response that was lost with the           *)
(* connection leaves it alone.  Failed validations and failed writes       *)
(* fulfil it themselves.                                                   *)
(***************************************************************************)
PromiseKept ==
    promise = "unset" /\ UnderWay = {} => link # "up" /\ request # NULL

(***************************************************************************)
(* No exception ends the read loop: a promise is never set twice, no       *)
(* response comes unasked, and echoes between them disturb nothing.        *)
(***************************************************************************)
ReaderSurvives == reader # "broken"

(***************************************************************************)
(* Between two commands client and server agree on the state of the game,  *)
(* so that what the client validates the server accepts; except for a      *)
(* login whose character was refused, after which the client's data is     *)
(* what an empty optional held.                                            *)
(***************************************************************************)
StatesAgree ==
    promise # "unset" /\ link = "up" /\ data # "garbage" => cstate = sstate

(***************************************************************************)
(* gamedata.h: "MUST init somewhere before use!".  When a login has        *)
(* returned to the user, the static data is there.                         *)
(***************************************************************************)
StaticDataReady ==
    promise # "unset" /\ link = "up" /\ cstate # "prelogin" => static

(***************************************************************************)
(* No request reaches the server before its earliest_time, although the    *)
(* two sides count the delay of a fight from different moments, and        *)
(* although the client does not look at its clock after a command that     *)
(* came to nothing (handled_).                                             *)
(***************************************************************************)
NotTooEarly == inbox # <<>> => stimer = 0

(***************************************************************************)
(* After a line the user gets to type the next one, or the program ends,   *)
(* as long as the connection lasts and the line is not empty.              *)
(***************************************************************************)
Responsive ==
    main \in {"ready", "loop", "wait"} ~>
        \/ main \in {"getline", "join", "aborted"}
        \/ link # "up"
        \/ main = "loop" /\ line = "empty"

(***************************************************************************)
(* exit, quit and the end of the input end the program, whatever state the *)
(* connection and the coroutines are in.                                   *)
(***************************************************************************)
ExitCompletes == main = "join" ~> main = "exited"

(***************************************************************************)
(* client/main.cpp, on future.wait(): "Blocks until request is completed". *)
(* The wait comes to an end.                                               *)
(***************************************************************************)
WaitEnds == main = "wait" ~> main # "wait"
=============================================================================
