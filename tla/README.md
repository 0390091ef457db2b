# A TLA+ model of niba 2.0

niba is a small online game: a server (`src/server`), a command-line client
(`src/client`) and the code both share (`src/shared`).  The server is one
process with one `io_context` run by several threads, a PostgreSQL database for
accounts, characters and magics, and one coroutine per connection.  This
directory models the parts where the order of events matters and states what
makes them correct.

## The system

| Part | State | Operations | Talks to |
|---|---|---|---|
| `server_session` + `server_processor` | `sessionstate` (game state, account, player, data, times), `write_queue_` | `go` (handshake, read loop, clean-up), `dispatch`/`process` per message, `write` | database (await), `session_map`, peer |
| `session_map` | name -> weak pointer to session | `write`, `register_session`, `remove`, `cleanup` | every session, under one mutex |
| `db_accessor` / player database | `user_id`, `player_character`, `player_magic`, `character_equipped_magic` | one function per statement, `fuse_magic` a transaction | all sessions |
| `main` (server) | acceptor, clean-up timer | reset of `logged_in`, accept loop, timer | starts sessions |
| `fight`, `rng`, `calcdelay` | the fighters, their progress, cooldowns; recorded random numbers | `go`, `my_status`, `fight_delay` | computed by the server, replayed by the client |
| `client_processor` | the client's `sessionstate` | `process` per response | server's responses |
| `client_session`, client `main` | outstanding request and its promise, `handled_` | command loop (main thread), read loop and one coroutine per command (io thread) | server, user |
| static data, configuration, logging, certificates, JSON | constant after start | - | - |

What is hard about it:

* a session's coroutine gives way at every database call, and other sessions of
  the same account, or with the same character name, run in between;
* what a session read before an await (a row, an iterator, a free name) is used
  after it;
* the logout of a vanished peer, the clean-up timer and a new login meet in the
  session map, which removes by name;
* a database call may fail, time out and still take effect, or take effect after
  the process was restarted;
* responses and the messages of other players share one write queue;
* tables, the server's copy and the client's copy of a character have to agree;
* the fight must be the same on both sides and must end with the right counters,
  although an attack takes one or two of the recorded random numbers;
* the client's two threads share a promise and an outstanding request; responses
  carry no request id, echoes come in between, and the connection may be lost at
  any moment of a request.

`PROJECT.json` lists these hazards line by line with the properties that watch
them.

## Modules

| Module | Models | Role |
|---|---|---|
| `Domain` | ids | constants shared by the server modules |
| `SessionMap` | `session_map.cpp` | state and operators of the map |
| `PlayerDb` | account statements of `db_accessor.cpp`, tables | state and operators of the database |
| `Server` | `server_session::go`, `server_processor` (account requests), `main` | composes `SessionMap` and `PlayerDb`; the specification of the server |
| `Presence` | - | abstract: who is online; implemented by `Server` |
| `WriteQueue` | `server_session::write`, `session_map::write` | the outgoing messages of one session |
| `Outbox` | - | abstract: a FIFO that may stop; implemented by `WriteQueue` |
| `PlayerData` | learn, fuse, reorder in `server_processor`, `db_accessor`, `client_processor` | one character's magics in three copies |
| `Fight` | `fight.cpp`, `rng.h`, `calcdelay.h`, both `process(message_fight)` | the fight on the server, its replay on the client, the delay |
| `Client` | `client/main.cpp`, `client_session`, `client_processor`, `message.h` | both threads of the client, composed with the connection and the answers of the server |
| `Lists` | `vector_remove`, the loop of `setup_self` | choosing from a list by position; used by `WriteQueue`, `PlayerData` and `Fight` |
| `MC*` | - | instances for TLC |
| `ServerProofs`, `WriteQueueProofs`, `ClientProofs`, `PlayerDataProofs`, `FightProofs` | - | theorems |
| `ListsProofs` | - | lemmas on `Lists`, smallest and best elements, recursive functions |

### Server

`pc[s]` says where the coroutine of session `s` waits: `handshake`, `read`, or
the SQL statement it awaits.  One action runs from one await to the next, as the
code does: `Login` (validate, send the SELECT), `CredentialsAccepted` (row
checked, UPDATE sent), `LoginUpdated` (userid set, character requested),
`CharacterLoaded` / `CharacterNotLoaded` (`register_session` and its refusal),
`AuxLoaded` (answer).  `DbExecute` and `DbFail` are the database's end of the
await and come at any time before the coroutine resumes; `DbFail` may leave the
write in `orphans`, from where `DbLate` executes it at any later time, also after
`Crash` and `Boot`.  `Disconnect` can happen at any await; it is noticed only by
the next read, as in the code, and `EndSession` then removes the map entry and
sends the logout.  getdata, echo, send, fight and the magic requests change none
of this state and are the one action `AnswerAtOnce`; their own effects are in the
other modules.  Passwords are reduced to their outcome (`CredentialsRefused` may
also be taken with a usable row).

### WriteQueue

`Respond` is a `write` from the session's own strand, which runs at once;
`Send` is `session_map::write` from another session, which only queues a coroutine
(`posted`) that `RunPosted` starts.  `writing` lists the buffers of the
outstanding `async_write` calls.  `posts`, `sent` and `lost` are history.

### PlayerData

A magic is its id and the number of fusions in its stats.  A request is validated
(`Learn`, `Fuse`, `Reorder`), executed by the database (`DbExecute`, `DbReject`,
`DbFail`, later `DbLate`), applied to the server's copy (`Resume`) and to the
client's (`ClientApply`).  `FuseInMemory` keeps the position of the primary across
the removal of the secondary as the iterator in the code does; past the end it
writes where nobody reads, one outcome of what the language leaves undefined.
`Crash` and `Unload` drop both copies, `Load` rebuilds them from rows in any order.
The requests of one character form a sequence because a character is played by
one session (`Server!Ownership`) and the client waits for each response.

### Fight

One step is one iteration of the loop in `fight::go`.  `server` and `client` are the
two fights, each with its fighters in the order of the constructor's sort, its
counters and, at the end, its winner and delay.  The server's turns draw the
numbers (`Drawn`) and append them to `generated`; when its fight is over the client
replays, from `used` on, taking as many numbers as its own `damage_calc` asks for.
Both start from the same copy of the player, which is `PlayerData!ClientMatchesServer`.
Each side sorts its own copy, and `std::sort` is not stable: `Orders` is the set of
results the comparison allows, which has one element because ties are broken by
position.  `prep_fight` puts one enemy into a fight; the constructor takes any number,
and so does the model.

The code computes `accuracy` and damage in doubles and truncates; the model
computes the exact quotient and truncates.  Where a double falls short of a whole
number the code may come to one less, on both sides alike.  `my_status` is
`all_[0]`, the slowest fighter, as in the code: when that is an enemy, the delay is
computed from the enemy's hp and may even be negative.  fight.h says of it only "just
return the first fightable", so there is no claim to check; `DelayWithinBounds` is
stated for fights in which it is the player.  The callers of `fight_delay` have `max_hp`
as a double, its parameters are `int`: the share of hp lost is divided in integers, as
modelled, although the casts suggest that a share was meant.  `DelayWithinBounds` holds
of either: the delay for hp is never negative, never more than all hp is worth, and
exactly that for a player who died.  What a survivor pays is left open.

A magic's property is any char in the database; "unknown" stands for those the switch of
`damage_calc` sends to its default branch, where no inner damage goes through.

### Client

`main` is the main thread: `ReadFirstLine`, `BlockUntilReady`, then in a loop
`HandleCmd` or `Unhandled`, `GetLine` (the next line is read before the wait) and
`Wait`; `Stop` and `Join` at the end.  The io thread runs `Start`, one `RunCommand`
per command, the read loop (`ReadResponse`, `ReadError`, `ReadOther`, `ReadFailed`)
and `Close`.  A write is two steps, `WriteMessage` up to the await and `WriteDone` or
`WriteFailed` after it; the read loop waits for the write of the getdata it chains
to a login (`reader = "chaining"`).  A write completes before its response can be
read, as it does with one io thread that finds both ready in this order.

The other end is `ServerAnswer` with the outcomes that `process` can come to (an error
also where `ozo::begin` throws in a fusion), `ServerRegister`, which puts the session into the
map before `get_aux` is awaited, so that a message of another player may come ahead of
the response to a login or createchar, `ServerEcho`, and the server's own clock `stimer`; that every request is answered is
`Server!RequestAnswered` and `WriteQueue!AllWritten`.  The body "refused" is the login
of `server_login`: success, a character and no data.  The client then reads an empty
optional: `Process` goes on with data that means nothing ("garbage"), `CrashOnRefused`
ends the process.  `LinkLost` may come at any time and drops what is in flight.

## Runs

| Run | Instance | Shows |
|---|---|---|
| `server_safety` | 2 sessions, 2 accounts, 2 names, 1 fault, symmetry | Ownership, OneGamePerAccount, PlaysStoredCharacter, NoStaleLogin, LockoutsExplained, EntryStays, ImplementsPresence |
| `server_liveness` | 2 sessions, 1 account, 1 name, 1 fault | RequestAnswered, AccountReleased |
| `server_login` | as server_safety, no fault | violates LoginDeniedWhenOnline |
| `write_queue` | 2 responses, 3 echoes | OneWriteFromFront, WriterWhileOpen, EchoesInOrder, ImplementsOutbox, AllWritten |
| `write_queue_failed` | 1 response, 1 echo | violates SomeoneWillHandleIt |
| `player_data` | 3 magics, 1 of them passive, 2 active slots, 1 fault, symmetry | MemoryMatchesDb, ClientMatchesServer, EquippedAreOwned, NoDuplicates |
| `player_data_fuse` | 2 magics, every fusion validate allows | violates MemoryMatchesDb |
| `fight` | every new character that lives and can move, 3 loadouts, 3 groups of enemies | AliveCounted, AttackerHasTarget, WinnerStands, NoOvershoot, CooldownRespected, ReplayInBounds, ReplayAgrees, DelayWithinBounds |
| `fight_assert` | every new character that can move | violates AttackerHasTarget |
| `fight_priority` | as fight, one enemy | violates PriorityRespected |
| `client` | every sequence of commands, 3 delays, up to 2 messages ahead of an echo, the connection lost at any time | OneOutstanding, ResponseMatchesRequest, PromiseKept, ReaderSurvives, StatesAgree, StaticDataReady, NotTooEarly, Responsive, ExitCompletes |
| `client_wait` | as client, losses of the connection noticed | violates WaitEnds |

The six violations are disagreements between the code and a comment or an
assertion of its own; `PROJECT.json` quotes each one under "findings".

### Bounds

* Two sessions are enough for every conflict the code can have on one map entry
  or one account: each operation looks at one entry.  Two accounts and two names
  let a name be taken by another account, and an account create either name.
  The theorems hold for any number.
* `MaxFaults` counts failing calls, and crashes that leave a statement behind.
  One of them at any place is enough to reach every error path; crashes and
  disconnections that leave nothing behind are not counted.
* `MaxVersion` 1 and three magics let every magic be fused into another, learnt
  again and reloaded; `MaxActive` is 5 in the code and 2 in the run, with the one
  passive slot of the code.
* `Rolls` 0 and 99 make an attack land and be evaded (0 is below any accuracy
  but 0, 99 below none but 100).  `MaxDraws` 10 lets fights end with either winner,
  with one and with two enemies, and be replayed to their end; it cuts the others,
  since every attack may be evaded.
* `Client` has no bound on the commands of the user: its state space is finite
  because one request is under way at a time.  `Delays` 0..2 lets the server's
  clock run out before, with and after the client's; `MaxEchoes` 2 lets echoes
  stand before and after a response.
* In `WriteQueue` each message is written once; when all are used up or the
  session has left, nothing more happens, which is why deadlock is not checked
  there.  A fight ends, and so does the client, so it is not checked there either.

### Fairness

`Server`: every database call ends within `default_timeout` (10 s) and the
start-up UPDATE within 5 s, with a result or an error; the `io_context` runs every
handler that is ready; a read on a dead connection fails (the websocket's suggested
timeouts).  Nothing is assumed of the peers: they need not send anything, nor
disconnect.  `WriteQueue`: the strand runs what is queued on it, an `async_write`
completes, a read on a broken stream fails.  `Client`: both threads run what is
ready, the clocks advance, the server answers, the closing handshake ends within
the websocket's timeout.  The user need not type anything.  That a reader notices a
lost connection is assumed only in `client_wait` (`NoticedSpec`): the websocket of a
client has no idle timeout.

## Proofs

For all sets of sessions, accounts, names, messages and delays, with the
assumption that `NULL` is none of them and that `MaxFaults`, `MaxEchoes` and the
delays are natural numbers (`Server`, `WriteQueue`, `Client`):

* `ServerInvariant`: `Inv` = `TypeOK`, `ServerOK` and, for every session,
  `AwaitOK` and `ResultOK`, is inductive.  `AwaitOK` ties the await to the session
  state (a session waiting for an account statement has no account yet, one that
  logs out has one); `ResultOK` says that a result that has arrived is still true
  of the database when the coroutine resumes, because character rows are written
  once and never changed.  `TypeOK` alone is not inductive: the statement of a
  session is well-typed only because of what `AwaitOK` says of it.
* `ServerTypeOK`, `ServerOwnership`, `ServerPlaysStored`, `ServerOneGame`,
  `ServerNoStaleLogin`, `ServerLockoutsExplained`, `ServerEntryStays` follow one by
  one.  `Ownership` is
  inductive relative to `Inv`; `OneGamePerAccount` needs both `Ownership` and
  `PlaysStoredCharacter`: two sessions of one account would play the same
  character and own the same entry.  `NoStaleLogin` and `LockoutsExplained` rest on two
  lemmas: no step of a session lets go of an account it holds (`HoldKept`), and no
  statement that executes in time leaves one unheld (`ExecuteKeepsHeld`).
* `ServerRefinesPresence`: every step of the server is, on the map, a step of
  `Presence` or leaves it alone; `Ownership` gives the enabling condition of
  `Come` (the session plays nothing yet).
* `QueueInvariant`: `TypeOK`, `OneWriteFromFront`, `WriterWhileOpen` and
  `NothingLostWhileOpen` are inductive together; from it `QueueTypeOK`,
  `QueueOneWrite`, `QueueWriterWhileOpen`.
* `QueueRefinesOutbox`: the queue implements `Outbox` with
  `log <- sent \o lost \o write_queue`.
* `QueueEchoesInOrder`: the invariant is `EchoesKept`, `Echoed(Log) \o posted = posts`:
  the echoes of everything ever enqueued, followed by those that still wait for the
  strand, are the echoes `session_map::write` took.  What was sent begins the log, so
  its echoes begin `posts`.
* `ClientInvariant`: `Inv` = `TypeOK`, `Control`, `AtMostOne`,
  `ResponseMatchesRequest` and `Kept`, is inductive.  `AtMostOne` and `Kept` are
  `OneOutstanding` and `PromiseKept` place by place (command, write, server,
  response); `Control` says that a promise is open only while main is on its way to
  wait for it, which is why a new command finds nothing under way, and that main
  issues none before the session is up.  A response is read with its promise open,
  so `set_value` never throws and the chained `getdata` finds the stream free.
  `ClientTypeOK`, `ClientOneOutstanding`, `ClientResponseMatchesRequest`,
  `ClientPromiseKept` and `ClientReaderSurvives` follow.
* `ClientInStep`: `InStep` is inductive relative to `Inv` and relates the two ends while
  the connection lasts.  `StatesInStep` says which state the client will be in once it
  has applied the response that is on its way, `StaticInStep` where the getdata chained
  to a login is, `ClocksInStep` that the server's clock is never ahead of what the client
  has or is about to be told, `NoCooldown` that the client's clock has run out whenever
  `handled_` makes it skip the look at it.  From it `ClientStatesAgree`, `ClientStaticDataReady`
  and `ClientNotTooEarly`, which say the same of the moments between two requests,
  or of a request that has arrived.

`PlayerData`, for every finite set of magics and any bounds:

* `PlayerDataTypeOK` holds for every fusion `validate` allows.  It needs `Typed`: the
  awaited request is one of the kind that `pc` names.
* `PlayerDataInSync`, with only later magics fused into earlier ones (`~ AnyFuse`; without
  it the run `player_data_fuse` shows the opposite): `Typed`, `InSync` and `DbInSync` are
  inductive.  `InSync` says that no list has duplicates, that the copies are equal up to
  the answer of the database, and that applying the answer makes them equal again; for
  this the request must still be what `validate` saw of the lists (`Pending`).  `DbInSync`
  says the same of the tables as long as no call has failed.  The fusion is the hard
  case (`FuseFacts`): removing the secondary behind the primary leaves the primary's
  position alone, so the server's old iterator and the client's new search find the
  same place.  `PlayerDataClientMatches`, `PlayerDataNoDuplicates`,
  `PlayerDataMemoryMatchesDb` and `PlayerDataEquippedAreOwned` follow.

`Fight`, for every set of attributes, loadouts and enemies, with integers in all stats:

* `FightReplays`: `Replays` says that the server's fight has a history: fights `h[0] .. h[n]`
  and offsets `o[0] .. o[n]` into `generated`, each fight being the one before it after a
  turn with the numbers between two offsets; and that the client is at some `h[k]` with
  `used = o[k]`, or at the end with the server.  It starts because both sides sort to the
  same order (`SortedOnce`).  `FightReplayInBounds` and `FightReplayAgrees` follow, for
  fights of any kind, those that make no sense included.  TLC cannot evaluate `Replays`,
  which quantifies over all histories; it checks the two properties.
* `FightCourse`: the rest needs fighters the code can count and schedule, `FitToFight`: all
  begin alive (`fight_assert` shows what happens otherwise), have a positive speed (the
  code divides by it), a threat not below the placeholder -1 of the loop, and a defence
  that leaves `damage_calc` a positive divisor.  `FitSpec` is `Spec` from such a state;
  everything `MCFight.cfg` enumerates is of this kind.  `Course` collects what is inductive
  together: `Fit` (the fighters keep their types and these properties but for hp),
  somebody lives, `Counted`, `Decided`, `Ahead` and `Cooling` (what is left of a cooldown
  and the time since the last use add up).  `FightAliveCounted`,
  `FightAttackerHasTarget`, `FightWinnerStands`, `FightNoOvershoot` and
  `FightCooldownRespected` follow.
* `FightDelayWithinBounds` also needs `HarmOnly`: no attack heals (`damage_calc` gives a
  negative number for a negative multiplier, or a resistance above 100, and a player
  healed beyond its first hp would have a negative share of hp lost).  `Wounded` is the
  invariant: the player's hp never exceeds `max_hp`, and it is alone in its team.

`ListsProofs` holds the inductions over data.  The library's induction theorems take an
operator as a parameter, which no installed prover can instantiate, so the lemmas use the
smallest counterexample of a set of natural numbers instead (`Smallest`): `Recursion` says
that a recursive function satisfies its own equation, `SelectEnumerates` that `Select`
enumerates the chosen positions in their order, `SelectWithin`, `SelectAppend` and
`SelectInitial` how it meets the other list operations; `Best` gives the smallest element of
a finite set in a total order, which the choices of attacker and target are.

Only model-checked: the liveness properties `RequestAnswered`, `AccountReleased`,
`AllWritten`, `Responsive` and `ExitCompletes` (the prover does not handle fairness), and the
six violations.  Every invariant, every action property and both refinements of the
passing runs are theorems.

## Not modelled

* The JSON text of messages, message texts, password hashing, logging,
  configuration, certificates: no state, or no property that depends on it.
* Static data: constant after start and not in the repository.  A fight that never
  ends because nobody deals damage depends on it.
* `weighted_rand` and the numbers a fusion computes from it: `PlayerData` counts
  fusions, and no property tells the numbers apart.
* The server's clock in `Server`: a request that comes too early is one of those
  `AnswerAtOnce` rejects; `Client` has both clocks.
* `test_latency.py`: it starts clients with one fixed sequence of commands, which is
  among the sequences of `Client`.

## Plan

1. Done: `Server` with `SessionMap` and `PlayerDb`, `Presence`, `WriteQueue` with
   `Outbox`, `PlayerData`, `Fight` with its replay, `Client`; a theorem for every safety
   property and both refinements that a passing run checks.
2. Worth stating next: an abstract specification of the magics of a character (one list and
   one order of equipped ids) implemented by `PlayerData` while no call fails, and the
   abstract request protocol that `Client` implements for its user.
