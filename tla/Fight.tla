------------------------------- MODULE Fight --------------------------------
(***************************************************************************)
(* shared/fight.cpp: the turn-based fight, computed twice.  The server     *)
(* draws random numbers (rng_server), records them and sends them in its   *)
(* response; the client runs the same loop on its own copy of the          *)
(* fighters, taking the numbers from the response (rng_client).  Both then *)
(* add the delay (calcdelay.h) that follows from the outcome to their      *)
(* earliest_time.                                                          *)
(*                                                                         *)
(* One iteration of the loop in fight::go is one step.  The numbers in     *)
(* damage_calc are exact where the code rounds doubles.  Stats the fight   *)
(* does not use are left out, and so are a player's equipments, which the  *)
(* server never fills in.                                                  *)
(***************************************************************************)
EXTENDS Integers, Sequences, FiniteSets, Lists

CONSTANTS
    PlayerAttrs, \* attributes of the player: strength, dexterity, physique, spirit
    Loadouts,    \* the player's magics and its list of equipped magic ids
    Foes,        \* sequences of characters of the static data
    Rolls,       \* the numbers rng(0, 99) is tried with
    MaxDraws     \* bound on the random numbers of a fight

Resistances == {"gold_res", "wood_res", "water_res", "fire_res", "earth_res"}
StatNames == Resistances \cup {"hp", "mp", "attack_min", "attack_max", "inner_power",
                               "accuracy", "speed", "defence"}

(* enum property, by the resistance against it; the database column and    *)
(* the message hold any char.                                              *)
Properties == Resistances \cup {"unknown"}

(* structs.h: the records a fight is made from.                            *)
Attributes == [strength : Int, dexterity : Int, physique : Int, spirit : Int]
Stats == [StatNames -> Int]
Magic == [id : Int, multiplier : Int, inner_damage : Int, inner_property : Properties,
          cd : Int, mp_cost : Int, stats : Stats]
Equipment == [stats : Stats]
Character == [attrs : Attributes, stats : Stats, active_magic : Seq(Magic),
              equipments : Seq(Equipment)]

ASSUME FightAssumption ==
    /\ PlayerAttrs \subseteq Attributes
    /\ Loadouts \subseteq [magics : Seq(Magic), equipped : Seq(Int)]
    /\ Foes \subseteq Seq(Character)
    /\ Rolls \subseteq 0..99
    /\ MaxDraws \in Nat

MaxProg == 1000         \* FIGHT_MAX_PROG
DefenceExtension == 100 \* DEFENCE_EXTENSION
InnerBase == 100        \* INNER_BASE

VARIABLES
    server,     \* the fight of server_processor: see NewFight
    client,     \* the fight of client_processor
    generated,  \* rng_server::generated, then message_fight::generated
    used,       \* rng_client::internal_idx_
    max_hp,     \* the player's hp when the fight began
    equipped,   \* session_.data.equipped_magic_ids of the player
    cast_at     \* history: ticks of the server's fight at the last use of a magic

vars == <<server, client, generated, used, max_hp, equipped, cast_at>>

Never == -1

-----------------------------------------------------------------------------
(* The fighters.                                                           *)

NoStats == [s \in StatNames |-> 0]

(* battlestats::operator+=                                                 *)
Plus(a, b) == [s \in StatNames |-> a[s] + b[s]]

stats_computer(attrs) ==
    [s \in StatNames |->
        CASE s \in {"attack_min", "attack_max"} -> 2 * attrs.strength
          [] s \in {"speed", "accuracy"}        -> attrs.dexterity
          [] s = "hp"                           -> 5 * attrs.physique
          [] s = "defence"                      -> attrs.physique
          [] s = "mp"                           -> 5 * attrs.spirit
          [] s = "inner_power"                  -> attrs.spirit
          [] OTHER                              -> 0]

(* The equipped ones among the magics, in the order of magics.             *)
Equipped(magics, ids) ==
    Select(magics, {k \in DOMAIN magics : \E i \in DOMAIN ids : ids[i] = magics[k].id})

(* The stats of the first n items of a sequence, added to some others.     *)
Total(base, items) ==
    LET sum[n \in 0..Len(items)] ==
            IF n = 0 THEN base ELSE Plus(sum[n - 1], items[n].stats)
    IN  sum[Len(items)]

setup_self(raw, magics, equips, ids) ==
    LET own == Equipped(magics, ids)
    IN  [stats |-> Total(Total(Plus(raw.stats, stats_computer(raw.attrs)), own), equips),
         progress |-> 0,
         magics |-> [k \in DOMAIN own |-> [cd |-> 0, real_magic |-> own[k]]]]

(* An enemy carries all its active magics and its equipments.              *)
setup_fightable(raw) ==
    setup_self(raw, raw.active_magic, raw.equipments,
               [k \in DOMAIN raw.active_magic |-> raw.active_magic[k].id])

(* The comparison of the constructor's sort: speed, ties by position.      *)
Before(roster, i, j) ==
    \/ roster[i].stats.speed < roster[j].stats.speed
    \/ roster[i].stats.speed = roster[j].stats.speed /\ i < j

(* Mutant: ties are left to the sort, which is not stable.                 *)
Orders_AnyTie(roster) ==
    {p \in [DOMAIN roster -> DOMAIN roster] :
        /\ \A i, j \in DOMAIN roster : i # j => p[i] # p[j]
        /\ \A i, j \in DOMAIN roster :
              i < j => roster[p[i]].stats.speed <= roster[p[j]].stats.speed}

(* What std::sort may make of the positions in a roster.                   *)
Orders(roster) ==
    {p \in [DOMAIN roster -> DOMAIN roster] :
        \A i, j \in DOMAIN roster : i < j => Before(roster, p[i], p[j])}

(* The constructor: the player is team 0, the others are team 1; sorted.   *)
Sorted(roster, order) ==
    [i \in DOMAIN roster |->
        [stats |-> roster[order[i]].stats, progress |-> 0,
         magics |-> roster[order[i]].magics, team |-> IF order[i] = 1 THEN 0 ELSE 1]]

(* A fight as fight::go begins it, with what is left of it afterwards.     *)
NewFight(roster, order) ==
    [all |-> Sorted(roster, order),
     team_alive_count |-> [t \in {0, 1} |-> IF t = 0 THEN 1 ELSE Len(roster) - 1],
     elapsed |-> 0, result |-> "fighting", delay |-> 0]

(* prep_fight: the player, then the enemies: one in the code, any number   *)
(* as far as fight is concerned.                                           *)
prep_fight(attrs, load, foes) ==
    [i \in 1..(Len(foes) + 1) |->
        IF i = 1
          THEN setup_self([attrs |-> attrs, stats |-> NoStats], load.magics, <<>>, load.equipped)
          ELSE setup_fightable(foes[i - 1])]

(* Server and client each build the fight and sort it.  The client's copy  *)
(* of the player is the server's (PlayerData!ClientMatchesServer).         *)
Init ==
    \E attrs \in PlayerAttrs, load \in Loadouts, foes \in Foes :
        LET roster == prep_fight(attrs, load, foes)
        IN  /\ \E order \in Orders(roster) : server = NewFight(roster, order)
            /\ \E order \in Orders(roster) : client = NewFight(roster, order)
            /\ max_hp = roster[1].stats.hp
            /\ equipped = load.equipped
            /\ cast_at = [i \in DOMAIN roster |->
                            [k \in DOMAIN server.all[i].magics |-> Never]]
            /\ generated = <<>>
            /\ used = 0

-----------------------------------------------------------------------------
(* One turn of a fight f.                                                  *)

Alive(f) == {i \in DOMAIN f.all : f.all[i].stats.hp > 0}

(* Mutant: rounds down, and waits one tick more.                           *)
ticks_calc_Late(p) ==
    IF p.progress >= MaxProg THEN 0 ELSE (MaxProg - p.progress) \div p.stats.speed + 1

(* Rounded up.                                                             *)
ticks_calc(p) ==
    IF p.progress >= MaxProg THEN 0
    ELSE (MaxProg - p.progress + p.stats.speed - 1) \div p.stats.speed

(* The pairs (ticks, index) as they are compared.                          *)
ActsFirst(f, i, j) ==
    \/ ticks_calc(f.all[i]) < ticks_calc(f.all[j])
    \/ ticks_calc(f.all[i]) = ticks_calc(f.all[j]) /\ i <= j

(* Smallest (ticks, index) among the living.                               *)
Attacker(f) == CHOOSE i \in Alive(f) : \A j \in Alive(f) : ActsFirst(f, i, j)

Enemies(f, i) == {j \in Alive(f) : f.all[j].team # f.all[i].team}

threat_calc(p) == p.stats.attack_min + p.stats.attack_max

(* The loop starts from (-1, the attacker itself) as a placeholder.        *)
Threat(f, i, j) == IF j = i THEN -1 ELSE threat_calc(f.all[j])

Outranks(f, i, j, k) ==
    \/ Threat(f, i, j) > Threat(f, i, k)
    \/ Threat(f, i, j) = Threat(f, i, k) /\ j >= k

(* Largest (threat, index) among the placeholder and the living enemies.   *)
Defender(f, i) ==
    LET rivals == Enemies(f, i) \cup {i}
    IN  CHOOSE j \in rivals : \A k \in rivals : Outranks(f, i, j, k)

(* magic_ex.                                                               *)
cooldown(m, ticks) == [m EXCEPT !.cd = IF @ > ticks THEN @ - ticks ELSE 0]

(* Mutant: a magic is not put on cooldown when it is used.                 *)
heatup_Not(m) == m

heatup(m) == [m EXCEPT !.cd = m.real_magic.cd]

(* Everybody alive advances by the attacker's ticks.                       *)
Advance(f, ticks) ==
    [i \in DOMAIN f.all |->
        IF i \in Alive(f)
          THEN [f.all[i] EXCEPT !.progress = @ + f.all[i].stats.speed * ticks,
                                !.magics = [k \in DOMAIN @ |-> cooldown(@[k], ticks)]]
          ELSE f.all[i]]

(* pick_magic_idx: the first magic that is ready and costs less than the   *)
(* mp; 0 stands for DEFAULT_MAGIC.                                         *)
Usable(p) ==
    {k \in DOMAIN p.magics : p.magics[k].cd = 0 /\ p.magics[k].real_magic.mp_cost < p.stats.mp}

pick_magic_idx(p) ==
    IF Usable(p) = {} THEN 0
    ELSE CHOOSE k \in Usable(p) : \A l \in Usable(p) : k <= l

DefaultMagic ==
    [id |-> 0, multiplier |-> 100, inner_damage |-> 0, inner_property |-> "gold_res",
     cd |-> 0, mp_cost |-> 0, stats |-> NoStats]

Cast(p, k) ==
    IF k = 0 THEN p
    ELSE [p EXCEPT !.magics[k] = heatup(@), !.stats.mp = @ - p.magics[k].real_magic.mp_cost]

TruncDiv(a, b) == IF a >= 0 THEN a \div b ELSE -((-a) \div b)

(* An attack lands when the first random number is below this.  With no    *)
(* accuracy on either side the conversion of 0 / 0 is undefined; 0 is what *)
(* the usual targets make of it.                                           *)
accuracy(a, d) ==
    IF a.stats.accuracy + d.stats.accuracy = 0 THEN 0
    ELSE (100 * a.stats.accuracy) \div (a.stats.accuracy + d.stats.accuracy)

(* The percentage of inner damage that goes through: the switch on the     *)
(* property, nothing by its default branch.                                *)
Unresisted(m, d) ==
    IF m.inner_property \in Resistances THEN 100 - d.stats[m.inner_property] ELSE 0

(* damage_calc on the numbers that it takes: one if the attack is evaded,  *)
(* else a second one, the physical damage.                                 *)
damage_calc(m, a, d, numbers) ==
    IF Len(numbers) = 1 THEN 0
    ELSE LET def == d.stats.defence + DefenceExtension
             physical == numbers[2] * m.multiplier * 100 * InnerBase
             inner == m.inner_damage * (InnerBase + a.stats.inner_power)
                        * Unresisted(m, d) * def
         IN  TruncDiv(physical + inner, 100 * InnerBase * def)

(* Mutant: a fighter left with exactly no hp is not counted out.           *)
CountAfter_Negative(f, d, hp) ==
    IF hp < 0 THEN [f.team_alive_count EXCEPT ![f.all[d].team] = @ - 1] ELSE f.team_alive_count

CountAfter(f, d, hp) ==
    IF hp <= 0 THEN [f.team_alive_count EXCEPT ![f.all[d].team] = @ - 1] ELSE f.team_alive_count

Target(f) == Defender(f, Attacker(f))
Ticks(f) == ticks_calc(f.all[Attacker(f)])
Chosen(f) == pick_magic_idx(Advance(f, Ticks(f))[Attacker(f)])
ChosenMagic(f) ==
    IF Chosen(f) = 0 THEN DefaultMagic
    ELSE f.all[Attacker(f)].magics[Chosen(f)].real_magic

(* Whether damage_calc evades on a first random number r.                  *)
Evaded(f, r) == accuracy(f.all[Attacker(f)], f.all[Target(f)]) <= r

Damage(f, numbers) ==
    damage_calc(ChosenMagic(f), f.all[Attacker(f)], f.all[Target(f)], numbers)

(* Everybody after the attacker has acted, before the damage is dealt.     *)
Acted(f) ==
    [Advance(f, Ticks(f)) EXCEPT
        ![Attacker(f)] = [Cast(@, Chosen(f)) EXCEPT !.progress = 0]]

(* The fight after an iteration in which rng gave these numbers.           *)
AfterTurn(f, numbers) ==
    [f EXCEPT !.all = [Acted(f) EXCEPT ![Target(f)].stats.hp = @ - Damage(f, numbers)],
              !.team_alive_count =
                  CountAfter(f, Target(f), f.all[Target(f)].stats.hp - Damage(f, numbers)),
              !.elapsed = @ + Ticks(f)]

(* Mutant: the loop ends one fighter early.                                *)
Over_Early(f) == \E t \in {0, 1} : f.team_alive_count[t] <= 1 /\ f.elapsed > 0

Over(f) == \E t \in {0, 1} : f.team_alive_count[t] = 0

(* calcdelay.h, in milliseconds.  process has max_hp as a double, but the  *)
(* parameters are int: the share of hp that is lost is an integer division *)
(* (see DelayWithinBounds), of the hp of all_[0] (my_status).              *)
FightTick == 10
PerHp == 100

(* Mutant: hp below 0 is not taken as 0.                                   *)
fight_delay_NoClamp(max, hp, ticks) ==
    ticks * FightTick + PerHp * (TruncDiv(max - hp, max) * 100)

fight_delay(max, hp, ticks) ==
    LET left == IF hp < 0 THEN 0 ELSE hp
    IN  ticks * FightTick + PerHp * (TruncDiv(max - left, max) * 100)

(* go returns the winner, process adds the delay.                          *)
AfterEnd(f) ==
    [f EXCEPT !.result = IF f.team_alive_count[1] = 0 THEN "friends" ELSE "enemies",
              !.delay = fight_delay(max_hp, f.all[1].stats.hp, f.elapsed)]

-----------------------------------------------------------------------------
(* The server: rng_server draws and records.                               *)

Fighting(f) == f.result = "fighting"

(* What rng_server may give to one damage_calc.                            *)
Drawn(f) ==
    LET stats == f.all[Attacker(f)].stats
    IN  {<<r>> : r \in {x \in Rolls : Evaded(f, x)}} \cup
        {<<r, p>> : r \in {x \in Rolls : ~ Evaded(f, x)},
                    p \in stats.attack_min..stats.attack_max}

(* Mutant: only the numbers of attacks that land are recorded.             *)
Record_Hits(numbers) == IF Len(numbers) = 1 THEN generated ELSE generated \o numbers

(* generated.push_back                                                     *)
Record(numbers) == generated \o numbers

Turn ==
    /\ Fighting(server) /\ ~ Over(server) /\ Len(generated) < MaxDraws
    /\ \E numbers \in Drawn(server) :
          /\ server' = AfterTurn(server, numbers)
          /\ generated' = Record(numbers)
    /\ cast_at' = IF Chosen(server) = 0 THEN cast_at
                  ELSE [cast_at EXCEPT ![Attacker(server)][Chosen(server)] =
                            server.elapsed + Ticks(server)]
    /\ UNCHANGED <<client, used, max_hp, equipped>>

Finish ==
    /\ Fighting(server) /\ Over(server)
    /\ server' = AfterEnd(server)
    /\ UNCHANGED <<client, generated, used, max_hp, equipped, cast_at>>

-----------------------------------------------------------------------------
(* The client, once the response is there: rng_client replays.             *)

Replaying == ~ Fighting(server) /\ Fighting(client)

(* Mutant: an evaded attack takes two numbers as well.                     *)
Needed_Two(f) == 2

(* How many numbers damage_calc takes, from where rng_client stands.       *)
Needed(f) == IF Evaded(f, generated[used + 1]) THEN 1 ELSE 2

(* rng_client asserts that there is a next number.                         *)
InBounds(f) == used < Len(generated) /\ used + Needed(f) <= Len(generated)

ReplayTurn ==
    /\ Replaying /\ ~ Over(client) /\ InBounds(client)
    /\ client' = AfterTurn(client, SubSeq(generated, used + 1, used + Needed(client)))
    /\ used' = used + Needed(client)
    /\ UNCHANGED <<server, generated, max_hp, equipped, cast_at>>

ReplayEnd ==
    /\ Replaying /\ Over(client)
    /\ client' = AfterEnd(client)
    /\ UNCHANGED <<server, generated, used, max_hp, equipped, cast_at>>

Next == Turn \/ Finish \/ ReplayTurn \/ ReplayEnd

Spec == Init /\ [][Next]_vars

(* A fight the code can count and schedule: everybody begins alive, moves, *)
(* is no smaller threat than the placeholder and has a defence that leaves *)
(* damage_calc a divisor.                                                  *)
FitToFight ==
    \A i \in DOMAIN server.all :
        LET stats == server.all[i].stats
        IN  /\ stats.hp > 0
            /\ stats.speed > 0
            /\ threat_calc(server.all[i]) >= 0
            /\ stats.defence + DefenceExtension > 0

FitInit == Init /\ FitToFight
FitSpec == FitInit /\ [][Next]_vars

(* A fighter whose attacks never heal and who is never healed by one.      *)
Harmful(p) ==
    /\ p.stats.attack_min >= 0 /\ InnerBase + p.stats.inner_power >= 0
    /\ \A r \in Resistances : p.stats[r] <= 100
    /\ \A k \in DOMAIN p.magics : /\ p.magics[k].real_magic.multiplier >= 0
                                 /\ p.magics[k].real_magic.inner_damage >= 0

HarmOnly == \A i \in DOMAIN server.all : Harmful(server.all[i])

-----------------------------------------------------------------------------
Standing(f, t) == {i \in Alive(f) : f.all[i].team = t}

(***************************************************************************)
(* The counter that ends the loop is the number of fighters of each team   *)
(* that are alive: nobody dies twice and no death is missed.               *)
(***************************************************************************)
AliveCounted ==
    \A t \in {0, 1} : server.team_alive_count[t] = Cardinality(Standing(server, t))

(***************************************************************************)
(* fight.cpp asserts, after it chose the target: "BOOST_ASSERT(            *)
(* max_threat.second != attacker.idx)".  While both teams are counted as   *)
(* alive, the one who acts next has an enemy to attack.                    *)
(***************************************************************************)
AttackerHasTarget ==
    Fighting(server) /\ ~ Over(server) /\ Alive(server) # {} =>
        server.all[Target(server)].team # server.all[Attacker(server)].team

(***************************************************************************)
(* The team that go returns still stands, and the other one does not.      *)
(***************************************************************************)
WinnerStands ==
    /\ server.result = "friends" => Standing(server, 0) # {} /\ Standing(server, 1) = {}
    /\ server.result = "enemies" => Standing(server, 1) # {} /\ Standing(server, 0) = {}

(***************************************************************************)
(* Nobody is kept waiting: a living fighter's progress never passes        *)
(* MaxProg by a full tick of its own speed.  The rounding of ticks_calc    *)
(* and the choice of the smallest number of ticks give this together.      *)
(***************************************************************************)
NoOvershoot ==
    \A i \in Alive(server) :
        server.all[i].progress < MaxProg + server.all[i].stats.speed

(***************************************************************************)
(* A magic is used again only when at least its cooldown has elapsed.      *)
(***************************************************************************)
CooldownRespected ==
    [][\A i \in DOMAIN cast_at : \A k \in DOMAIN cast_at[i] :
          cast_at[i][k] # Never /\ cast_at'[i][k] # cast_at[i][k] =>
              cast_at'[i][k] - cast_at[i][k] >= server.all[i].magics[k].real_magic.cd]_vars

(***************************************************************************)
(* rng_client asserts "internal_idx_ < precomputed_.size()": the recorded  *)
(* numbers are enough for every turn the client computes, although an      *)
(* attack takes one or two of them.                                        *)
(***************************************************************************)
ReplayInBounds == Replaying /\ ~ Over(client) => InBounds(client)

(***************************************************************************)
(* fight.h: "the return is the RNG results! this is to sync with the       *)
(* client".  When the client has replayed the fight, all numbers are used, *)
(* every fighter is where the server has it, and both sides have the same  *)
(* winner and the same delay.                                              *)
(***************************************************************************)
ReplayAgrees ==
    ~ Fighting(client) => client = server /\ used = Len(generated)

(***************************************************************************)
(* earliest_time moves by the ticks of the fight and by something for the  *)
(* hp the player lost: never less than nothing, never more than all its hp *)
(* is worth however hard the last hit was, and exactly that when it died.  *)
(* What a survivor pays in between is left open: calcdelay.h computes a    *)
(* share in integers, and so nothing.  my_status has to be the player's,   *)
(* which it is when no enemy is slower.                                    *)
(***************************************************************************)
DelayWithinBounds ==
    ~ Fighting(server) /\ server.all[1].team = 0 =>
        LET forHp == server.delay - server.elapsed * FightTick
        IN  /\ 0 <= forHp /\ forHp <= 100 * PerHp
            /\ Standing(server, 0) = {} => forHp = 100 * PerHp

(***************************************************************************)
(* fight.h, on setup_self and its list of equipped ids: "there is the idea *)
(* of priority of magics (ordering is important)".  When the player uses a *)
(* magic, none listed before it was ready and affordable.                  *)
(***************************************************************************)
ListedBefore(a, b) ==
    \E i, j \in DOMAIN equipped : i < j /\ equipped[i] = a /\ equipped[j] = b

PriorityRespected ==
    [][\A i \in DOMAIN cast_at : \A k, l \in DOMAIN cast_at[i] :
          LET p == server.all[i] IN
          /\ p.team = 0
          /\ cast_at'[i][k] # cast_at[i][k]
          /\ ListedBefore(p.magics[l].real_magic.id, p.magics[k].real_magic.id)
          => \/ cooldown(p.magics[l], server'.elapsed - server.elapsed).cd # 0
             \/ p.magics[l].real_magic.mp_cost >= p.stats.mp]_vars
=============================================================================
