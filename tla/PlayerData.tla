----------------------------- MODULE PlayerData -----------------------------
(***************************************************************************)
(* The magics of one character, kept in three places: the tables           *)
(* player_magic and character_equipped_magic, the copy in the server's     *)
(* sessionstate, and the copy in the client's sessionstate.  Requests      *)
(* learnmagic, fusemagic and reordermagic change the tables first, then    *)
(* the server's copy, then, when the response arrives, the client's.       *)
(*                                                                         *)
(* A character is played by one session at a time (Server!Ownership) and   *)
(* a client has one request under way, so the requests of one character    *)
(* form a sequence.  A magic is its id and its version, the number of      *)
(* fusions that went into its stats since it was learnt.                   *)
(***************************************************************************)
EXTENDS Integers, Sequences, FiniteSets, Functions, Lists

CONSTANTS
    MagicIds,    \* ids of the static magics
    Passive,     \* those whose field `active' is zero
    MaxVersion,  \* bound on the version of a magic
    MaxActive,   \* how many active magics may be equipped (the code: 5)
    MaxFaults,   \* bound on failing database calls
    AnyFuse      \* FALSE: only later magics are fused into earlier ones

ASSUME MagicAssumption ==
    /\ IsFiniteSet(MagicIds) /\ Passive \subseteq MagicIds
    /\ MaxVersion \in Nat /\ MaxActive \in Nat /\ MaxFaults \in Nat
    /\ AnyFuse \in BOOLEAN

VARIABLES
    pc,          \* offline, idle, the awaited request, or answer
    req,         \* the request under way
    result,      \* what the database call returned
    player_magic,              \* table: id -> version, NoRow without a row
    character_equipped_magic,  \* table: the list of equipped ids
    magics, equipped_magic_ids,    \* the server's session_.data
    client,      \* the client's session_.data: its magics and equipped ids
    orphans,     \* requests whose caller is gone, still to execute
    faults       \* number of failed database calls

dataVars == <<player_magic, character_equipped_magic>>
vars == <<pc, req, result, dataVars, magics, equipped_magic_ids, client, orphans,
          faults>>

NoRow == -1
Magic == [id : MagicIds, version : 0..MaxVersion]
(* session_.data of the server or of the client.                           *)
Copy == [magics : Seq(Magic), equipped_magic_ids : Seq(MagicIds)]

(* The requests that change the tables, with what the call carries.        *)
WriteOps == {"learn", "fuse", "reorder"}
Request ==
    [op : {"learn"}, magic : [id : MagicIds, version : {0}]]
        \cup [op : {"fuse"}, magic : Magic, secondary : MagicIds, equipped : Seq(MagicIds)]
        \cup [op : {"reorder"}, equipped : Seq(MagicIds)]
NoReq == [op |-> "none"]

Ids(seq) == {m.id : m \in Range(seq)}
Without(seq, id) == Select(seq, {k \in DOMAIN seq : seq[k].id # id})

(* The first position of an id, 0 where find_if reaches the end.           *)
Find(seq, id) ==
    LET P == {k \in DOMAIN seq : seq[k].id = id}
    IN  IF P = {} THEN 0 ELSE CHOOSE k \in P : \A l \in P : k <= l

(* Mutant: the fused magic stays equipped.                                 *)
Unequip_Nothing(ids, id) == ids

Unequip(ids, id) == Select(ids, {k \in DOMAIN ids : ids[k] # id})
Rows == {m \in Magic : player_magic[m.id] = m.version}

TypeOK ==
    /\ pc \in {"offline", "idle", "answer"} \cup WriteOps
    /\ req \in Request \cup {NoReq}
    /\ result \in {"pending", "ok", "error"}
    /\ player_magic \in [MagicIds -> {NoRow} \cup 0..MaxVersion]
    /\ character_equipped_magic \in Seq(MagicIds)
    /\ magics \in Seq(Magic)
    /\ equipped_magic_ids \in Seq(MagicIds)
    /\ client \in Copy
    /\ orphans \subseteq Request
    /\ faults \in 0..MaxFaults

Init ==
    /\ pc = "offline"
    /\ req = NoReq
    /\ result = "pending"
    /\ player_magic = [id \in MagicIds |-> NoRow]
    /\ character_equipped_magic = <<>>
    /\ magics = <<>> /\ equipped_magic_ids = <<>>
    /\ client = [magics |-> <<>>, equipped_magic_ids |-> <<>>]
    /\ orphans = {}
    /\ faults = 0

-----------------------------------------------------------------------------
(* get_aux and the login or createchar response.                           *)

Orders(S) == {q \in UNION {[1..n -> S] : n \in 0..Cardinality(S)} :
                 Range(q) = S /\ Len(q) = Cardinality(S)}

(* The SELECT has no ORDER BY: the rows come in any order.  When one of    *)
(* the two queries fails, what was read so far is used.                    *)
Load ==
    /\ pc = "offline"
    /\ \E q \in Orders(Rows) :
          \/ /\ magics' = q
             /\ equipped_magic_ids' = character_equipped_magic
             /\ UNCHANGED faults
          \/ /\ faults < MaxFaults
             /\ faults' = faults + 1
             /\ magics' \in {<<>>, q}
             /\ equipped_magic_ids' = <<>>
    /\ client' = [magics |-> magics', equipped_magic_ids |-> equipped_magic_ids']
    /\ pc' = "idle"
    /\ UNCHANGED <<req, result, dataVars, orphans>>

(* Both copies are gone.                                                   *)
Forget ==
    /\ pc' = "offline"
    /\ req' = NoReq
    /\ result' = "pending"
    /\ magics' = <<>> /\ equipped_magic_ids' = <<>>
    /\ client' = [magics |-> <<>>, equipped_magic_ids |-> <<>>]
    /\ UNCHANGED dataVars

(* The session ends: between requests, or when a response is not delivered.*)
Unload ==
    /\ pc \in {"idle", "answer"}
    /\ Forget
    /\ UNCHANGED <<orphans, faults>>

-----------------------------------------------------------------------------
(* Requests that pass validate; the others change nothing.                 *)

Begin(r) ==
    /\ pc = "idle"
    /\ pc' = r.op
    /\ req' = r
    /\ result' = "pending"
    /\ UNCHANGED <<dataVars, magics, equipped_magic_ids, client, orphans, faults>>

(* Mutant: the check for a magic already learnt is missing.                *)
Learn_Again ==
    \E id \in MagicIds :
        Begin([op |-> "learn", magic |-> [id |-> id, version |-> 0]])

Learn ==
    \E id \in MagicIds \ Ids(magics) :
        Begin([op |-> "learn", magic |-> [id |-> id, version |-> 0]])

(* validate allows a magic to be fused with itself.                        *)
FuseAllowed(primary, secondary) ==
    /\ primary \in Passive <=> secondary \in Passive
    /\ AnyFuse \/ Find(magics, primary) < Find(magics, secondary)

(* The new stats and the new list are computed before the database call.   *)
Fuse ==
    \E primary, secondary \in Ids(magics) :
        LET old == magics[Find(magics, primary)] IN
        /\ FuseAllowed(primary, secondary)
        /\ old.version < MaxVersion
        /\ Begin([op |-> "fuse",
                  magic |-> [old EXCEPT !.version = @ + 1],
                  secondary |-> secondary,
                  equipped |-> Unequip(equipped_magic_ids, secondary)])

(* At most one passive and MaxActive others; an id may be listed more than *)
(* once.                                                                   *)
Reorder ==
    \E n \in 0..(MaxActive + 1) : \E ids \in [1..n -> Ids(magics)] :
        LET passives == Cardinality({i \in 1..n : ids[i] \in Passive}) IN
        /\ passives <= 1
        /\ n - passives <= MaxActive
        /\ Begin([op |-> "reorder", equipped |-> ids])

-----------------------------------------------------------------------------
(* The database executes the statement, or the transaction of a fusion.    *)

(* Mutant: the list of equipped magics is left out of the transaction.     *)
Execute_NoEquip(r) ==
    \/ /\ r.op = "learn" /\ player_magic[r.magic.id] = NoRow
       /\ player_magic' = [player_magic EXCEPT ![r.magic.id] = 0]
       /\ UNCHANGED character_equipped_magic
    \/ /\ r.op = "fuse"
       /\ player_magic' = [player_magic EXCEPT ![r.magic.id] = r.magic.version,
                                               ![r.secondary] = NoRow]
       /\ UNCHANGED character_equipped_magic
    \/ /\ r.op = "reorder"
       /\ character_equipped_magic' = r.equipped
       /\ UNCHANGED player_magic

(* Mutant: the UPDATE adds to what the row holds.                          *)
Execute_Increment(r) ==
    \/ /\ r.op = "learn" /\ player_magic[r.magic.id] = NoRow
       /\ player_magic' = [player_magic EXCEPT ![r.magic.id] = 0]
       /\ UNCHANGED character_equipped_magic
    \/ /\ r.op = "fuse"
       /\ player_magic' = [player_magic EXCEPT ![r.magic.id] = @ + 1,
                                               ![r.secondary] = NoRow]
       /\ character_equipped_magic' = r.equipped
    \/ /\ r.op = "reorder"
       /\ character_equipped_magic' = r.equipped
       /\ UNCHANGED player_magic

(* An UPDATE of a missing row changes nothing, a DELETE follows it.        *)
Execute(r) ==
    \/ /\ r.op = "learn" /\ player_magic[r.magic.id] = NoRow
       /\ player_magic' = [player_magic EXCEPT ![r.magic.id] = 0]
       /\ UNCHANGED character_equipped_magic
    \/ /\ r.op = "fuse"
       /\ player_magic' =
             [[player_magic EXCEPT ![r.magic.id] =
                  IF @ = NoRow THEN NoRow ELSE r.magic.version]
              EXCEPT ![r.secondary] = NoRow]
       /\ character_equipped_magic' = r.equipped
    \/ /\ r.op = "reorder"
       /\ character_equipped_magic' = r.equipped
       /\ UNCHANGED player_magic

(* A primary-key violation: the row is there.                              *)
Rejected(r) == r.op = "learn" /\ player_magic[r.magic.id] # NoRow

Awaiting == pc \in WriteOps /\ result = "pending"

DbExecute ==
    /\ Awaiting
    /\ Execute(req)
    /\ result' = "ok"
    /\ UNCHANGED <<pc, req, magics, equipped_magic_ids, client, orphans, faults>>

(* The server's copy does not know a row that is in the table.             *)
DbReject ==
    /\ Awaiting
    /\ Rejected(req)
    /\ result' = "error"
    /\ UNCHANGED <<pc, req, dataVars, magics, equipped_magic_ids, client, orphans,
                   faults>>

(* An error or a timeout; the statement, or the COMMIT, may have reached   *)
(* the database and execute later.                                         *)
DbFail ==
    /\ Awaiting
    /\ faults < MaxFaults
    /\ faults' = faults + 1
    /\ result' = "error"
    /\ orphans' \in {orphans, orphans \cup {req}}
    /\ UNCHANGED <<pc, req, dataVars, magics, equipped_magic_ids, client>>

DbLate ==
    \E r \in orphans :
        /\ Execute(r) \/ (Rejected(r) /\ UNCHANGED dataVars)
        /\ orphans' = orphans \ {r}
        /\ UNCHANGED <<pc, req, result, magics, equipped_magic_ids, client, faults>>

(* The process stops inside a request.  A result that had arrived, or was  *)
(* about to, is not applied to the copies; what was sent may still execute.*)
Crash ==
    /\ pc \in WriteOps
    /\ Forget
    /\ \/ UNCHANGED <<orphans, faults>>
       \/ /\ Awaiting
          /\ faults < MaxFaults
          /\ faults' = faults + 1
          /\ orphans' = orphans \cup {req}

-----------------------------------------------------------------------------
(* server_processor after the database call.                               *)

(* Mutant: the fused magic moves to the back of the list.                  *)
FuseInMemory_Back(seq, magic, secondary) ==
    Append(Without(Without(seq, secondary), magic.id), magic)

(* vector_remove shifts the elements behind the secondary; the iterator to *)
(* the primary, taken before, then still denotes its old position.  Past   *)
(* the new end it writes where nobody reads.                               *)
FuseInMemory(seq, magic, secondary) ==
    LET i == Find(seq, magic.id)
        r == Without(seq, secondary)
    IN  IF i <= Len(r) THEN [r EXCEPT ![i] = magic] ELSE r

Resume ==
    /\ pc \in WriteOps /\ result # "pending"
    /\ \/ result = "error" /\ UNCHANGED <<magics, equipped_magic_ids>>
       \/ /\ result = "ok" /\ req.op = "learn"
          /\ magics' = Append(magics, req.magic)
          /\ UNCHANGED equipped_magic_ids
       \/ /\ result = "ok" /\ req.op = "fuse"
          /\ magics' = FuseInMemory(magics, req.magic, req.secondary)
          /\ equipped_magic_ids' = req.equipped
       \/ /\ result = "ok" /\ req.op = "reorder"
          /\ equipped_magic_ids' = req.equipped
          /\ UNCHANGED magics
    /\ pc' = "answer"
    /\ UNCHANGED <<req, result, dataVars, client, orphans, faults>>

-----------------------------------------------------------------------------
(* client_processor, when the response arrives.                            *)

(* The client looks for the primary after it removed the secondary.        *)
ClientFuse(c, magic, secondary) ==
    LET r == Without(c.magics, secondary)
        i == Find(r, magic.id)
    IN  [magics |-> IF i # 0 THEN [r EXCEPT ![i] = magic] ELSE r,
         equipped_magic_ids |-> Unequip(c.equipped_magic_ids, secondary)]

Answered(c, r) ==
    CASE r.op = "learn"   -> [c EXCEPT !.magics = Append(@, r.magic)]
      [] r.op = "fuse"    -> ClientFuse(c, r.magic, r.secondary)
      [] r.op = "reorder" -> [c EXCEPT !.equipped_magic_ids = r.equipped]

ClientApply ==
    /\ pc = "answer"
    /\ client' = IF result = "ok" THEN Answered(client, req) ELSE client
    /\ pc' = "idle"
    /\ req' = NoReq
    /\ result' = "pending"
    /\ UNCHANGED <<dataVars, magics, equipped_magic_ids, orphans, faults>>

Next ==
    \/ Load \/ Unload \/ Crash
    \/ Learn \/ Fuse \/ Reorder
    \/ DbExecute \/ DbReject \/ DbFail \/ DbLate
    \/ Resume \/ ClientApply

Spec == Init /\ [][Next]_vars

-----------------------------------------------------------------------------
(***************************************************************************)
(* Between requests, and while no database call has failed, the server's   *)
(* copy is what the tables hold: the same magics with the same stats, each *)
(* once, and the same list of equipped ids.  server_processor relies on it *)
(* ("if db is ok, update in memory data ... at least db and memory is      *)
(* consistently not updated").                                             *)
(***************************************************************************)
MemoryMatchesDb ==
    pc = "idle" /\ faults = 0 =>
        /\ Range(magics) = Rows
        /\ Len(magics) = Cardinality(Rows)
        /\ equipped_magic_ids = character_equipped_magic

(***************************************************************************)
(* Between requests client and server hold the same lists in the same      *)
(* order, whatever the database did: a fight is computed on both sides     *)
(* from these lists and one list of random numbers.                        *)
(***************************************************************************)
ClientMatchesServer ==
    pc = "idle" =>
        client = [magics |-> magics, equipped_magic_ids |-> equipped_magic_ids]

(***************************************************************************)
(* An equipped magic is an owned one, in the tables and in memory, after   *)
(* any sequence of requests without a failed database call.                *)
(***************************************************************************)
EquippedAreOwned ==
    faults = 0 =>
        /\ \A id \in Range(character_equipped_magic) : player_magic[id] # NoRow
        /\ pc = "idle" => Range(equipped_magic_ids) \subseteq Ids(magics)

(***************************************************************************)
(* No copy ever lists a magic twice, also after failed and repeated calls: *)
(* find_if by id then always means the same magic.                         *)
(***************************************************************************)
NoDuplicates ==
    /\ Cardinality(Ids(magics)) = Len(magics)
    /\ Cardinality(Ids(client.magics)) = Len(client.magics)
=============================================================================
