---------------------------- MODULE FightProofs -----------------------------
(***************************************************************************)
(* Theorems about Fight: the client's replay is the server's fight, for    *)
(* all fighters and random numbers; and the course of a fight whose        *)
(* fighters are fit for it.                                                *)
(***************************************************************************)
EXTENDS Fight, ListsProofs, SequenceTheorems, FiniteSetTheorems, TLAPS

(* f rearranges the positions 1..n.                                        *)
Permutes(f, n) ==
    /\ f \in [1..n -> 1..n]
    /\ \A i, j \in 1..n : f[i] = f[j] => i = j
    /\ \A x \in 1..n : \E i \in 1..n : f[i] = x

(* What std::sort makes of a roster is a permutation.                      *)
LEMMA OrderPermutes ==
    ASSUME NEW n \in Nat, NEW roster, DOMAIN roster = 1..n,
           \A i \in 1..n : roster[i].stats.speed \in Int,
           NEW p \in Orders(roster)
    PROVE  Permutes(p, n)
<1> DEFINE T == 1..n
<1>1. p \in [T -> T] /\ \A i, j \in T : i < j => Before(roster, p[i], p[j])
  BY DEF Orders
<1>2. ASSUME NEW i \in T, NEW j \in T, p[i] = p[j] PROVE i = j
  <2>1. \A x \in T : ~ Before(roster, x, x)
    BY DEF Before
  <2>2. p[i] \in T /\ p[j] \in T
    BY <1>1
  <2>3. ~ (i < j) /\ ~ (j < i)
    BY <1>1, <1>2, <2>1, <2>2
  <2> QED BY <2>3
<1>3. IsFiniteSet(T)
  BY FS_Interval
<1> HIDE DEF T
<1>4. p \in Injection(T, T)
  BY <1>1, <1>2 DEF Injection, IsInjective
<1>5. p \in Surjection(T, T)
  BY <1>3, <1>4, FS_Injection
<1> QED BY <1>1, <1>2, <1>5 DEF Surjection, T, Permutes

(* A roster can be sorted in one way only, whatever the sort does: the tie *)
(* break on positions makes the comparison a strict total order.           *)
LEMMA SortedOnce ==
    ASSUME NEW n \in Nat, NEW roster, DOMAIN roster = 1..n,
           \A i \in 1..n : roster[i].stats.speed \in Int,
           NEW p \in Orders(roster), NEW q \in Orders(roster)
    PROVE  p = q
<1> DEFINE T == 1..n
<1> DEFINE Ascends(f) == \A i, j \in T : i < j => Before(roster, f[i], f[j])
<1>1. Permutes(p, n) /\ Permutes(q, n)
  BY OrderPermutes
<1>2. Ascends(p) /\ Ascends(q)
  BY DEF Orders
<1>3. \A x, y \in T : ~ (Before(roster, x, y) /\ Before(roster, y, x))
  BY DEF Before
<1> DEFINE Differ == {i \in T : p[i] # q[i]}
<1>4. Differ = {}
  <2> SUFFICES ASSUME Differ # {} PROVE FALSE
    OBVIOUS
  <2>1. PICK i \in Differ : \A j \in Differ : i <= j
    <3>1. Differ \subseteq Nat
      OBVIOUS
    <3> HIDE DEF Differ
    <3> QED BY <3>1, Smallest
  <2>2. i \in T /\ p[i] # q[i]
    OBVIOUS
  <2>3. ASSUME NEW f, NEW g, Permutes(f, n), Permutes(g, n), Ascends(g), f[i] # g[i],
               \A j \in T : j < i => f[j] = g[j]
        PROVE  Before(roster, g[i], f[i])
    <3>1. f[i] \in T
      BY <2>2, <2>3 DEF Permutes
    <3>2. PICK j \in T : g[j] = f[i]
      BY <2>3, <3>1 DEF Permutes
    <3>3. ~ (j < i)
      BY <2>2, <2>3, <3>2 DEF Permutes
    <3>4. i < j
      BY <2>2, <2>3, <3>2, <3>3
    <3> QED BY <2>2, <2>3, <3>2, <3>4
  <2>4. \A j \in T : j < i => p[j] = q[j]
    <3> SUFFICES ASSUME NEW j \in T, j < i, p[j] # q[j] PROVE FALSE
      OBVIOUS
    <3>1. j \in Differ /\ ~ (i <= j)
      BY <2>2
    <3> HIDE DEF Differ
    <3> QED BY <2>1, <3>1
  <2>5. p[i] \in T /\ q[i] \in T
    BY <1>1, <2>2 DEF Permutes
  <2> HIDE DEF Ascends, T
  <2>6. Before(roster, p[i], q[i]) /\ Before(roster, q[i], p[i])
    BY <1>1, <1>2, <2>2, <2>3, <2>4
  <2> QED BY <1>3, <2>5, <2>6
<1> QED BY <1>1, <1>4 DEF Permutes

-----------------------------------------------------------------------------
(* The stats of some items added up are stats.                             *)
LEMMA TotalType ==
    ASSUME NEW S, \A x \in S : x.stats \in Stats,
           NEW base \in Stats, NEW items \in Seq(S)
    PROVE  Total(base, items) \in Stats
<1> DEFINE L == Len(items)
<1> DEFINE step == [p \in Stats \X (1..L) |-> Plus(p[1], items[p[2]].stats)]
<1>1. L \in Nat /\ \A n \in 1..L : items[n].stats \in Stats
  OBVIOUS
<1>2. \A a, b \in Stats : Plus(a, b) \in Stats
  BY DEF Plus, Stats
<1>3. step \in [Stats \X (1..L) -> Stats]
  <2> HIDE DEF L
  <2> QED BY <1>1, <1>2
<1>4. PICK g : Iterates(g, Stats, L, base, step)
  <2> HIDE DEF L, step
  <2> QED BY <1>1, <1>3, Recursion
<1>5. ASSUME NEW x \in Stats, NEW n \in 1..L
      PROVE  step[<<x, n>>] = Plus(x, items[n].stats)
  <2>1. <<x, n>> \in Stats \X (1..L)
    OBVIOUS
  <2> QED BY <2>1
<1> HIDE DEF step
<1> DEFINE Sums(f) == f = [n \in 0..L |-> IF n = 0 THEN base ELSE Plus(f[n - 1], items[n].stats)]
<1> DEFINE sum == CHOOSE f : Sums(f)
<1>6. Sums(g)
  <2>1. ASSUME NEW n \in 0..L
        PROVE  g[n] = IF n = 0 THEN base ELSE Plus(g[n - 1], items[n].stats)
    <3>1. CASE n = 0
      BY <1>4, <3>1 DEF Iterates
    <3>2. CASE n # 0
      <4>1. n \in 1..L /\ n - 1 \in 0..L
        BY <1>1, <3>2
      <4>2. g[n - 1] \in Stats /\ g[n] = step[<<g[n - 1], n>>]
        BY <1>4, <4>1 DEF Iterates
      <4> QED BY <1>5, <3>2, <4>1, <4>2
    <3> QED BY <3>1, <3>2
  <2>2. g \in [0..L -> Stats]
    BY <1>4 DEF Iterates
  <2> QED BY <2>1, <2>2
<1>7. Sums(sum)
  <2> HIDE DEF Sums
  <2> QED BY <1>6
<1>8. Total(base, items) = sum[L]
  BY DEF Total
<1>9. sum = g
  <2> HIDE DEF sum
  <2>1. sum = [n \in 0..L |-> sum[n]] /\ sum[0] = base
    BY <1>1, <1>7
  <2>2. ASSUME NEW n \in 1..L, sum[n - 1] \in Stats PROVE sum[n] = step[<<sum[n - 1], n>>]
    <3>1. n \in 0..L /\ n # 0
      OBVIOUS
    <3>2. sum[n] = Plus(sum[n - 1], items[n].stats)
      BY <1>7, <3>1
    <3> QED BY <1>5, <2>2, <3>2
  <2> HIDE DEF L
  <2> QED BY <1>4, <2>1, <2>2 DEF Iterates
<1>10. g[L] \in Stats
  BY <1>1, <1>4 DEF Iterates
<1> QED BY <1>8, <1>9, <1>10

MagicEx == [cd : Int, real_magic : Magic]
Fightable == [stats : Stats, progress : Int, magics : Seq(MagicEx)]

(* setup_self gives whoever it sets up integer stats and its own magics.   *)
LEMMA SetupSelfType ==
    ASSUME NEW raw, raw.stats \in Stats, raw.attrs \in Attributes,
           NEW magics \in Seq(Magic), NEW equips \in Seq(Equipment), NEW ids
    PROVE  setup_self(raw, magics, equips, ids) \in Fightable
<1> DEFINE own == Equipped(magics, ids)
<1>1. own \in Seq(Magic)
  BY SelectEnumerates DEF Equipped
<1> HIDE DEF own
<1>2. stats_computer(raw.attrs) \in Stats
  <2>1. /\ raw.attrs.strength \in Int /\ raw.attrs.dexterity \in Int
        /\ raw.attrs.physique \in Int /\ raw.attrs.spirit \in Int
    BY DEF Attributes
  <2> QED BY <2>1 DEF stats_computer, Stats
<1>3. Plus(raw.stats, stats_computer(raw.attrs)) \in Stats
  BY <1>2 DEF Plus, Stats
<1>4. Total(Plus(raw.stats, stats_computer(raw.attrs)), own) \in Stats
  <2>1. \A x \in Magic : x.stats \in Stats
    BY DEF Magic
  <2> QED BY <1>1, <1>3, <2>1, TotalType
<1>5. Total(Total(Plus(raw.stats, stats_computer(raw.attrs)), own), equips) \in Stats
  <2>1. \A x \in Equipment : x.stats \in Stats
    BY DEF Equipment
  <2> QED BY <1>4, <2>1, TotalType
<1>6. [k \in DOMAIN own |-> [cd |-> 0, real_magic |-> own[k]]] \in Seq(MagicEx)
  <2>1. DOMAIN own = 1..Len(own) /\ Len(own) \in Nat /\ \A k \in 1..Len(own) : own[k] \in Magic
    BY <1>1
  <2>2. \A k \in 1..Len(own) : [cd |-> 0, real_magic |-> own[k]] \in MagicEx
    BY <2>1 DEF MagicEx
  <2> QED BY <2>1, <2>2, IsASeq
<1> QED BY <1>5, <1>6 DEF setup_self, own, Fightable

(* What prep_fight hands to the constructor.                               *)
LEMMA PrepFightType ==
    ASSUME NEW attrs \in PlayerAttrs, NEW load \in Loadouts, NEW foes \in Foes
    PROVE  /\ Len(foes) \in Nat
           /\ prep_fight(attrs, load, foes) \in [1..(Len(foes) + 1) -> Fightable]
<1>1. attrs \in Attributes /\ load \in [magics : Seq(Magic), equipped : Seq(Int)]
       /\ foes \in Seq(Character)
  BY FightAssumption
<1>2. setup_self([attrs |-> attrs, stats |-> NoStats], load.magics, <<>>, load.equipped)
        \in Fightable
  <2> DEFINE raw == [attrs |-> attrs, stats |-> NoStats]
  <2>1. raw.attrs \in Attributes /\ raw.stats \in Stats
    BY <1>1 DEF NoStats, Stats
  <2>2. load.magics \in Seq(Magic) /\ <<>> \in Seq(Equipment)
    BY <1>1
  <2> HIDE DEF raw
  <2>3. setup_self(raw, load.magics, <<>>, load.equipped) \in Fightable
    BY <2>1, <2>2, SetupSelfType
  <2> QED BY <2>3 DEF raw
<1>3. ASSUME NEW c \in Character PROVE setup_fightable(c) \in Fightable
  <2>1. /\ c.attrs \in Attributes /\ c.stats \in Stats
        /\ c.active_magic \in Seq(Magic) /\ c.equipments \in Seq(Equipment)
    BY DEF Character
  <2> QED BY <2>1, SetupSelfType DEF setup_fightable
<1>4. ASSUME NEW i \in 1..(Len(foes) + 1), i # 1 PROVE foes[i - 1] \in Character
  <2>1. i - 1 \in 1..Len(foes)
    BY <1>1, <1>4
  <2> QED BY <1>1, <2>1
<1> QED BY <1>1, <1>2, <1>3, <1>4 DEF prep_fight

-----------------------------------------------------------------------------
(* The replay.  A fight that goes on, turn by turn: h[k] is the fight after *)
(* k turns, which have taken the first o[k] of the recorded numbers gen.   *)

IsFight(f) ==
    /\ DOMAIN f = {"all", "team_alive_count", "elapsed", "result", "delay"}
    /\ Fighting(f)

(* A turn that leads from f to g with the numbers from + 1 .. to.          *)
Plays(gen, f, g, from, to) ==
    /\ ~ Over(f)
    /\ from < Len(gen)
    /\ to = from + IF Evaded(f, gen[from + 1]) THEN 1 ELSE 2
    /\ to <= Len(gen)
    /\ g = AfterTurn(f, SubSeq(gen, from + 1, to))

History(gen, n, h, o) ==
    /\ n \in Nat
    /\ o \in [0..n -> Nat]
    /\ o[0] = 0
    /\ o[n] = Len(gen)
    /\ \A k \in 0..n : IsFight(h[k])
    /\ \A k \in 0..(n - 1) : Plays(gen, h[k], h[k + 1], o[k], o[k + 1])

(* Where the client stands in the history of the server's fight.           *)
Follows(n, h, o) ==
    \/ /\ server = h[n]
       /\ client = h[0]
       /\ used = 0
    \/ /\ Over(h[n])
       /\ server = AfterEnd(h[n])
       /\ \/ \E k \in 0..n : client = h[k] /\ used = o[k]
          \/ client = server /\ used = Len(generated)

(* The server's fight has a history, and the client is in the middle of    *)
(* it, or at its end.                                                      *)
Replays ==
    /\ generated \in Seq(Int)
    /\ \E n, h, o : History(generated, n, h, o) /\ Follows(n, h, o)

(* A turn leaves the fight under way.                                      *)
LEMMA TurnIsFight ==
    ASSUME NEW f, IsFight(f), NEW numbers PROVE IsFight(AfterTurn(f, numbers))
<1>1. ASSUME NEW x, NEW y, NEW z
      PROVE  IsFight([f EXCEPT !.all = x, !.team_alive_count = y, !.elapsed = z])
  BY DEF IsFight, Fighting
<1> QED BY <1>1 DEF AfterTurn

(* The end of a fight ends it and does not touch the counters.             *)
LEMMA EndIsNoFight ==
    ASSUME NEW f, IsFight(f)
    PROVE  ~ Fighting(AfterEnd(f)) /\ (Over(AfterEnd(f)) <=> Over(f))
BY DEF IsFight, AfterEnd, Fighting, Over

(* rng_server gives damage_calc as many numbers as it asks for.            *)
LEMMA DrawnNumbers ==
    ASSUME NEW f, NEW numbers \in Drawn(f)
    PROVE  /\ numbers \in Seq(Int)
           /\ Len(numbers) = IF Evaded(f, numbers[1]) THEN 1 ELSE 2
<1>1. Rolls \subseteq Int
  BY FightAssumption
<1> DEFINE stats == f.all[Attacker(f)].stats
<1>2. CASE \E r \in Rolls : Evaded(f, r) /\ numbers = <<r>>
  BY <1>1, <1>2
<1>3. CASE \E r \in Rolls, p \in Int : ~ Evaded(f, r) /\ numbers = <<r, p>>
  BY <1>1, <1>3
<1>4. stats.attack_min..stats.attack_max \subseteq Int
  OBVIOUS
<1> QED BY <1>2, <1>3, <1>4 DEF Drawn

LongerBy(numbers, gen, n, h) ==
    \E h2, o2 : /\ History(gen \o numbers, n + 1, h2, o2)
                /\ h2[0] = h[0]
                /\ h2[n + 1] = AfterTurn(h[n], numbers)

(* A turn of the server makes its history longer by one.                   *)
LEMMA HistoryGrows ==
    ASSUME NEW gen \in Seq(Int), NEW n, NEW h, NEW o, History(gen, n, h, o),
           ~ Over(h[n]), NEW numbers \in Drawn(h[n])
    PROVE  LongerBy(numbers, gen, n, h)
<1>1. /\ numbers \in Seq(Int) /\ Len(numbers) \in Nat
      /\ Len(numbers) = IF Evaded(h[n], numbers[1]) THEN 1 ELSE 2
  BY DrawnNumbers
<1> DEFINE new == gen \o numbers
<1>2. /\ new \in Seq(Int) /\ Len(new) = Len(gen) + Len(numbers) /\ Len(gen) \in Nat
      /\ \A i \in 1..Len(gen) : new[i] = gen[i]
      /\ new[Len(gen) + 1] = numbers[1]
  <2>1. 1 \in 1..Len(numbers)
    BY <1>1
  <2>2. /\ new \in Seq(Int) /\ Len(new) = Len(gen) + Len(numbers) /\ Len(gen) \in Nat
        /\ \A i \in 1..(Len(gen) + Len(numbers)) :
              new[i] = IF i <= Len(gen) THEN gen[i] ELSE numbers[i - Len(gen)]
    <3>1. gen \in Seq(Int) /\ numbers \in Seq(Int)
      BY <1>1
    <3>2. Len(gen) \in Nat
      BY LenProperties
    <3> QED BY Zenon, <3>1, <3>2, ConcatProperties
  <2>3. /\ Len(gen) + 1 \in 1..(Len(gen) + Len(numbers)) /\ ~ (Len(gen) + 1 <= Len(gen))
        /\ (Len(gen) + 1) - Len(gen) = 1
        /\ \A i \in 1..Len(gen) : i \in 1..(Len(gen) + Len(numbers)) /\ i <= Len(gen)
    BY <1>1, <2>1, <2>2
  <2> HIDE DEF new
  <2> QED BY <2>2, <2>3
<1>3. n \in Nat /\ o \in [0..n -> Nat] /\ o[n] = Len(gen) /\ o[0] = 0
  BY DEF History
<1> DEFINE h2 == [k \in 0..(n + 1) |-> IF k = n + 1 THEN AfterTurn(h[n], numbers) ELSE h[k]]
<1> DEFINE o2 == [k \in 0..(n + 1) |-> IF k = n + 1 THEN Len(new) ELSE o[k]]
<1>4. /\ h2[n + 1] = AfterTurn(h[n], numbers) /\ o2[n + 1] = Len(new)
      /\ \A k \in 0..n : h2[k] = h[k] /\ o2[k] = o[k]
  BY <1>3
<1>5. o2 \in [0..(n + 1) -> Nat]
  BY <1>2, <1>3
<1> HIDE DEF h2, o2, new
<1>6. \A k \in 0..(n + 1) : IsFight(h2[k])
  <2>1. \A k \in 0..(n + 1) : k = n + 1 \/ k \in 0..n
    BY <1>3
  <2>2. n \in 0..n /\ \A k \in 0..n : IsFight(h[k])
    BY <1>3 DEF History
  <2> QED BY <1>4, <2>1, <2>2, TurnIsFight
<1>7. ASSUME NEW k \in 0..n PROVE Plays(new, h2[k], h2[k + 1], o2[k], o2[k + 1])
  <2>1. CASE k = n
    <3>1. n \in 0..n
      BY <1>3
    <3>2. h2[k] = h[n] /\ o2[k] = Len(gen) /\ o2[k + 1] = Len(new)
          /\ h2[k + 1] = AfterTurn(h[n], numbers)
      BY <1>3, <1>4, <2>1, <3>1
    <3>3. SubSeq(new, Len(gen) + 1, Len(new)) = numbers
      <4>1. SubSeq(new, Len(gen) + 1, Len(new))
              = SubSeq(numbers, (Len(gen) + 1) - Len(gen), Len(new) - Len(gen))
        BY <1>1, <1>2, SubSeqOfConcat2 DEF new
      <4>2. (Len(gen) + 1) - Len(gen) = 1 /\ Len(new) - Len(gen) = Len(numbers)
        BY <1>1, <1>2
      <4> QED BY <1>1, <4>1, <4>2, SubSeqFull
    <3>4. Len(new) = Len(gen) + IF Evaded(h[n], new[Len(gen) + 1]) THEN 1 ELSE 2
      BY <1>1, <1>2
    <3>5. Len(gen) < Len(new)
      BY <1>2, <3>4
    <3>6. Plays(new, h[n], AfterTurn(h[n], numbers), Len(gen), Len(new))
      <4>1. Len(new) \in Nat /\ Len(new) <= Len(new)
        BY <1>1, <1>2
      <4> QED BY <3>3, <3>4, <3>5, <4>1 DEF Plays
    <3> QED BY <3>2, <3>6
  <2>2. CASE k # n
    <3>1. k \in 0..(n - 1) /\ k + 1 \in 0..n
      BY <1>3, <2>2
    <3>2. Plays(gen, h[k], h[k + 1], o[k], o[k + 1])
      BY <3>1 DEF History
    <3>3. o[k] \in Nat /\ o[k + 1] \in Nat /\ o[k] < Len(gen) /\ o[k + 1] <= Len(gen)
      BY <1>3, <3>1, <3>2 DEF Plays
    <3>8. o[k] + 1 \in 1..Len(gen) /\ o[k + 1] \in 1..Len(gen)
      <4>1. o[k + 1] = o[k] + 1 \/ o[k + 1] = o[k] + 2
        BY <3>2 DEF Plays
      <4>2. \A a, b, c \in Nat : a < c /\ b <= c /\ (b = a + 1 \/ b = a + 2)
                                => a + 1 \in 1..c /\ b \in 1..c
        OBVIOUS
      <4> QED BY <1>2, <3>3, <4>1, <4>2
    <3>4. new[o[k] + 1] = gen[o[k] + 1]
      BY <1>2, <3>8
    <3>5. SubSeq(new, o[k] + 1, o[k + 1]) = SubSeq(gen, o[k] + 1, o[k + 1])
      BY <1>1, <3>8, SubSeqOfConcat1 DEF new
    <3>6. o[k] < Len(new) /\ o[k + 1] <= Len(new)
      <4>1. \A a, b, c, d \in Nat : a < c /\ b <= c => a < c + d /\ b <= c + d
        OBVIOUS
      <4> QED BY <1>1, <1>2, <3>3, <4>1
    <3>7. Plays(new, h[k], h[k + 1], o[k], o[k + 1])
      BY <3>2, <3>4, <3>5, <3>6 DEF Plays
    <3> QED BY <1>4, <3>1, <3>7
  <2> QED BY <2>1, <2>2
<1>8. n + 1 \in Nat /\ (n + 1) - 1 = n /\ 0 \in 0..n
  BY <1>3
<1>9. History(new, n + 1, h2, o2)
  BY <1>3, <1>4, <1>5, <1>6, <1>7, <1>8 DEF History
<1> QED BY <1>4, <1>8, <1>9 DEF new, LongerBy

(* Before the first turn the history is the fight itself: both sides sort  *)
(* to the same order.                                                      *)
LEMMA InitReplays == Init => Replays
<1> SUFFICES ASSUME Init PROVE Replays
  OBVIOUS
<1>1. PICK attrs \in PlayerAttrs, load \in Loadouts, foes \in Foes :
         LET roster == prep_fight(attrs, load, foes)
         IN  /\ \E order \in Orders(roster) : server = NewFight(roster, order)
             /\ \E order \in Orders(roster) : client = NewFight(roster, order)
             /\ generated = <<>>
             /\ used = 0
  BY DEF Init
<1> DEFINE roster == prep_fight(attrs, load, foes)
<1>2. PICK p \in Orders(roster) : server = NewFight(roster, p)
  BY <1>1
<1>3. PICK q \in Orders(roster) : client = NewFight(roster, q)
  BY <1>1
<1> DEFINE n == Len(foes) + 1
<1>4. /\ n \in Nat /\ DOMAIN roster = 1..n
      /\ \A i \in 1..n : roster[i].stats.speed \in Int
  <2>1. n \in Nat /\ roster \in [1..n -> Fightable]
    BY PrepFightType
  <2>2. \A x \in Fightable : x.stats.speed \in Int
    BY DEF Fightable, Stats, StatNames
  <2> QED BY <2>1, <2>2
<1> HIDE DEF roster, n
<1>5. p = q
  BY <1>4, SortedOnce
<1>6. client = server
  BY <1>2, <1>3, <1>5
<1> DEFINE h == [k \in 0..0 |-> server]
<1> DEFINE o == [k \in 0..0 |-> 0]
<1>7. IsFight(server)
  BY <1>2 DEF NewFight, IsFight, Fighting
<1>8. Len(generated) = 0 /\ generated \in Seq(Int) /\ used = 0
  BY <1>1
<1>9. History(generated, 0, h, o)
  BY <1>7, <1>8 DEF History
<1>10. Follows(0, h, o)
  BY <1>6, <1>8 DEF Follows
<1> QED BY <1>8, <1>9, <1>10 DEF Replays

(* A turn of the server makes the history longer, a turn of the client     *)
(* takes it one place further.                                             *)
LEMMA NextReplays == Replays /\ [Next]_vars => Replays'
<1> SUFFICES ASSUME Replays, [Next]_vars PROVE Replays'
  OBVIOUS
<1>1. generated \in Seq(Int)
  BY DEF Replays
<1>2. PICK n, h, o : History(generated, n, h, o) /\ Follows(n, h, o)
  BY DEF Replays
<1>3. n \in Nat /\ n \in 0..n /\ 0 \in 0..n /\ IsFight(h[n]) /\ o[n] = Len(generated) /\ o[0] = 0
  BY <1>2 DEF History
<1>4. CASE UNCHANGED vars
  <2>1. Follows(n, h, o)'
    BY <1>2, <1>4 DEF Follows, vars, AfterEnd
  <2> QED BY <1>1, <1>2, <1>4, <2>1 DEF Replays, vars
<1>5. CASE Turn
  <2>1. PICK numbers \in Drawn(server) :
           server' = AfterTurn(server, numbers) /\ generated' = generated \o numbers
    BY <1>5 DEF Turn, Record
  <2>2. Fighting(server) /\ ~ Over(server) /\ client' = client /\ used' = used
    BY <1>5 DEF Turn
  <2>3. server = h[n] /\ client = h[0] /\ used = 0
    BY <1>2, <1>3, <2>2, EndIsNoFight DEF Follows
  <2>4. PICK h2, o2 : /\ History(generated \o numbers, n + 1, h2, o2)
                      /\ h2[0] = h[0]
                      /\ h2[n + 1] = AfterTurn(h[n], numbers)
    <3>1. numbers \in Drawn(h[n]) /\ ~ Over(h[n]) /\ History(generated, n, h, o)
      BY <1>2, <2>1, <2>2, <2>3
    <3>2. LongerBy(numbers, generated, n, h)
      BY <1>1, <3>1, HistoryGrows
    <3> QED BY <3>2 DEF LongerBy
  <2>5. Follows(n + 1, h2, o2)'
    BY <2>1, <2>2, <2>3, <2>4 DEF Follows
  <2>6. generated' \in Seq(Int)
    BY <1>1, <2>1, DrawnNumbers, ConcatProperties
  <2> QED BY <2>1, <2>4, <2>5, <2>6 DEF Replays
<1>6. CASE Finish
  <2>1. /\ Fighting(server) /\ Over(server) /\ server' = AfterEnd(server)
        /\ UNCHANGED <<client, generated, used, max_hp>>
    BY <1>6 DEF Finish
  <2>2. server = h[n] /\ client = h[0] /\ used = 0
    BY <1>2, <1>3, <2>1, EndIsNoFight DEF Follows
  <2>3. server' = AfterEnd(h[n])' /\ Over(h[n])' /\ client' = h[0] /\ used' = o[0]
    BY <1>3, <2>1, <2>2 DEF AfterEnd, Over
  <2>4. Follows(n, h, o)'
    BY <1>3, <2>3 DEF Follows
  <2> QED BY <1>1, <1>2, <2>1, <2>4 DEF Replays
<1>7. CASE ReplayTurn
  <2>1. /\ ~ Fighting(server) /\ Fighting(client) /\ ~ Over(client)
        /\ client' = AfterTurn(client, SubSeq(generated, used + 1, used + Needed(client)))
        /\ used' = used + Needed(client)
        /\ UNCHANGED <<server, generated, max_hp>>
    BY <1>7 DEF ReplayTurn, Replaying
  <2>2. PICK k \in 0..n : client = h[k] /\ used = o[k]
    BY <1>2, <1>3, <2>1 DEF Follows, IsFight
  <2>3. Over(h[n]) /\ server = AfterEnd(h[n])
    BY <1>2, <1>3, <2>1 DEF Follows, IsFight
  <2>4. k \in 0..(n - 1) /\ k + 1 \in 0..n
    BY <1>3, <2>1, <2>2, <2>3
  <2>5. Plays(generated, h[k], h[k + 1], o[k], o[k + 1])
    BY <1>2, <2>4 DEF History
  <2>6. o[k + 1] = used + Needed(client)
    BY <2>2, <2>5 DEF Plays, Needed
  <2>7. client' = h[k + 1] /\ used' = o[k + 1]
    BY <2>1, <2>2, <2>5, <2>6 DEF Plays
  <2>8. server' = AfterEnd(h[n])' /\ Over(h[n])'
    BY <2>1, <2>3 DEF AfterEnd
  <2>9. Follows(n, h, o)'
    BY <2>4, <2>7, <2>8 DEF Follows
  <2> QED BY <1>1, <1>2, <2>1, <2>9 DEF Replays
<1>8. CASE ReplayEnd
  <2>1. /\ ~ Fighting(server) /\ Fighting(client) /\ Over(client)
        /\ client' = AfterEnd(client)
        /\ UNCHANGED <<server, generated, used, max_hp>>
    BY <1>8 DEF ReplayEnd, Replaying
  <2>2. PICK k \in 0..n : client = h[k] /\ used = o[k]
    BY <1>2, <1>3, <2>1 DEF Follows, IsFight
  <2>3. Over(h[n]) /\ server = AfterEnd(h[n])
    BY <1>2, <1>3, <2>1 DEF Follows, IsFight
  <2>4. k = n
    <3> SUFFICES ASSUME k # n PROVE FALSE
      OBVIOUS
    <3>1. k \in 0..(n - 1)
      BY <1>3
    <3>2. ~ Over(h[k])
      BY <1>2, <3>1 DEF History, Plays
    <3> QED BY <2>1, <2>2, <3>2
  <2>5. client' = server' /\ used' = Len(generated')
    BY <1>3, <2>1, <2>2, <2>3, <2>4
  <2>6. server' = AfterEnd(h[n])' /\ Over(h[n])'
    BY <2>1, <2>3 DEF AfterEnd
  <2>7. Follows(n, h, o)'
    BY <2>5, <2>6 DEF Follows
  <2> QED BY <1>1, <1>2, <2>1, <2>7 DEF Replays
<1> QED BY <1>4, <1>5, <1>6, <1>7, <1>8 DEF Next

(***************************************************************************)
(* The client's position is always a point in the history of the server's  *)
(* fight, whatever was drawn, and how many numbers an attack takes.        *)
(***************************************************************************)
THEOREM FightReplays == Spec => []Replays
BY InitReplays, NextReplays, PTL DEF Spec

(***************************************************************************)
(* rng_client never asks for a number past the recorded ones, for every    *)
(* player, enemy, loadout and every number drawn: the assertion            *)
(* "internal_idx_ < precomputed_.size()" holds.                            *)
(***************************************************************************)
THEOREM FightReplayInBounds == Spec => []ReplayInBounds
<1>1. Replays => ReplayInBounds
  <2> SUFFICES ASSUME Replays, Replaying, ~ Over(client) PROVE InBounds(client)
    BY DEF ReplayInBounds
  <2>1. PICK n, h, o : History(generated, n, h, o) /\ Follows(n, h, o)
    BY DEF Replays
  <2>2. n \in Nat /\ n \in 0..n /\ IsFight(h[n]) /\ ~ Fighting(server) /\ Fighting(client)
    BY <2>1 DEF History, Replaying
  <2>3. PICK k \in 0..n : client = h[k] /\ used = o[k]
    BY <2>1, <2>2 DEF Follows, IsFight
  <2>4. Over(h[n])
    BY <2>1, <2>2 DEF Follows, IsFight
  <2>5. k \in 0..(n - 1)
    BY <2>2, <2>3, <2>4
  <2>6. Plays(generated, h[k], h[k + 1], o[k], o[k + 1])
    BY <2>1, <2>5 DEF History
  <2> QED BY <2>3, <2>6 DEF Plays, InBounds, Needed
<1> QED BY <1>1, FightReplays, PTL

(***************************************************************************)
(* A client that has replayed the fight has used every number and has the  *)
(* server's fighters, winner and delay.                                    *)
(***************************************************************************)
THEOREM FightReplayAgrees == Spec => []ReplayAgrees
<1>1. Replays => ReplayAgrees
  <2> SUFFICES ASSUME Replays, ~ Fighting(client)
               PROVE  client = server /\ used = Len(generated)
    BY DEF ReplayAgrees
  <2>1. PICK n, h, o : History(generated, n, h, o) /\ Follows(n, h, o)
    BY DEF Replays
  <2>2. 0 \in 0..n /\ \A k \in 0..n : Fighting(h[k])
    BY <2>1 DEF History, IsFight
  <2> QED BY <2>1, <2>2 DEF Follows
<1> QED BY <1>1, FightReplays, PTL

-----------------------------------------------------------------------------
(* The course of a fight.                                                  *)

Fighter == [stats : Stats, progress : Int, magics : Seq(MagicEx), team : {0, 1}]

(* A fight of n fighters that all act and can be counted and hit.          *)
Fit(f, n) ==
    /\ DOMAIN f = {"all", "team_alive_count", "elapsed", "result", "delay"}
    /\ f.all \in [1..n -> Fighter]
    /\ f.team_alive_count \in [{0, 1} -> Int]
    /\ f.elapsed \in Nat
    /\ \A i \in 1..n : /\ f.all[i].stats.speed > 0
                       /\ threat_calc(f.all[i]) >= 0
                       /\ f.all[i].stats.defence + DefenceExtension > 0

(* A stat is an integer.                                                   *)
LEMMA StatsAreInt == \A s \in Stats : \A x \in StatNames : s[x] \in Int
BY DEF Stats

(* What a fighter consists of.                                             *)
LEMMA FighterStats ==
    ASSUME NEW p \in Fighter
    PROVE  /\ p.stats \in Stats /\ p.progress \in Int /\ p.team \in {0, 1}
           /\ p.magics \in Seq(MagicEx)
           /\ p.stats.hp \in Int /\ p.stats.mp \in Int /\ p.stats.speed \in Int
           /\ p.stats.attack_min \in Int /\ p.stats.attack_max \in Int
           /\ p.stats.defence \in Int /\ p.stats.inner_power \in Int
           /\ \A r \in Resistances : p.stats[r] \in Int
BY DEF Fighter, Stats, StatNames, Resistances

(* The quotient of a natural number by a positive one.                     *)
LEMMA DivFacts ==
    ASSUME NEW y \in Nat, NEW s \in Nat, s > 0
    PROVE  y \div s \in Nat /\ s * (y \div s) <= y
OBVIOUS

(* ticks_calc waits long enough and never a tick too long.                 *)
LEMMA TicksFacts ==
    ASSUME NEW p \in Fighter, p.stats.speed > 0
    PROVE  /\ ticks_calc(p) \in Nat
           /\ p.progress >= MaxProg => ticks_calc(p) = 0
           /\ \A t \in Nat : t <= ticks_calc(p) /\ p.progress < MaxProg + p.stats.speed
                             => p.progress + p.stats.speed * t < MaxProg + p.stats.speed
<1> DEFINE s == p.stats.speed
<1> DEFINE y == MaxProg - p.progress + s - 1
<1>1. s \in Nat /\ s > 0 /\ p.progress \in Int
  BY FighterStats
<1>2. CASE p.progress >= MaxProg
  <2>1. ticks_calc(p) = 0
    BY <1>2 DEF ticks_calc
  <2> QED BY <1>1, <2>1
<1>3. CASE ~ (p.progress >= MaxProg)
  <2>1. y \in Nat
    BY <1>1, <1>3 DEF MaxProg
  <2>2. ticks_calc(p) = y \div s
    BY <1>3 DEF ticks_calc
  <2> HIDE DEF s
  <2>3. y \div s \in Nat /\ s * (y \div s) <= y
    BY <1>1, <2>1, DivFacts
  <2>4. ASSUME NEW t \in Nat, t <= y \div s PROVE p.progress + s * t < MaxProg + s
    <3> DEFINE q == y \div s
    <3>1. q \in Nat /\ s * q <= y /\ t <= q
      BY <2>3, <2>4
    <3> HIDE DEF q
    <3>2. s * t <= s * q
      BY <1>1, <3>1
    <3>3. s * t \in Int /\ s * q \in Int
      BY <1>1, <3>1
    <3> QED BY <1>1, <3>1, <3>2, <3>3 DEF MaxProg
  <2> QED BY <1>3, <2>2, <2>3, <2>4 DEF s
<1> QED BY <1>2, <1>3

(* The three ways in which a fighter changes.                              *)

(* Taking damage changes a fighter's hp and nothing else.                  *)
LEMMA Hit ==
    ASSUME NEW p \in Fighter, NEW x \in Int
    PROVE  LET q == [p EXCEPT !.stats.hp = @ - x]
           IN  /\ q \in Fighter
               /\ q.team = p.team /\ q.progress = p.progress /\ q.magics = p.magics
               /\ q.stats.hp = p.stats.hp - x
               /\ \A s \in StatNames \ {"hp"} : q.stats[s] = p.stats[s]
<1> DEFINE st == [p.stats EXCEPT !.hp = @ - x]
<1>1. p.stats \in [StatNames -> Int] /\ "hp" \in StatNames /\ p.stats.hp \in Int
  BY FighterStats DEF Stats, StatNames
<1>2. /\ st.hp = p.stats.hp - x
      /\ \A s \in StatNames \ {"hp"} : st[s] = p.stats[s]
  BY <1>1
<1>3. \A s \in StatNames : st[s] \in Int
  BY <1>1
<1>4. st \in Stats
  BY <1>1, <1>3 DEF Stats
<1> HIDE DEF st
<1>5. [p EXCEPT !.stats = st] \in Fighter
  BY <1>4 DEF Fighter
<1>6. /\ [p EXCEPT !.stats = st].stats = st
      /\ [p EXCEPT !.stats = st].team = p.team
      /\ [p EXCEPT !.stats = st].progress = p.progress
      /\ [p EXCEPT !.stats = st].magics = p.magics
  BY DEF Fighter
<1>7. [p EXCEPT !.stats.hp = @ - x] = [p EXCEPT !.stats = st]
  BY DEF st
<1> QED BY <1>2, <1>5, <1>6, <1>7

(* The attacker pays mp, heats up the magic it uses and starts over.       *)
LEMMA Acting ==
    ASSUME NEW p \in Fighter, NEW k, k = 0 \/ k \in 1..Len(p.magics)
    PROVE  LET q == [Cast(p, k) EXCEPT !.progress = 0]
           IN  /\ q \in Fighter
               /\ q.team = p.team /\ q.progress = 0
               /\ \A s \in StatNames \ {"mp"} : q.stats[s] = p.stats[s]
               /\ Len(q.magics) = Len(p.magics)
               /\ \A l \in 1..Len(p.magics) :
                     q.magics[l] = IF l = k THEN heatup(p.magics[l]) ELSE p.magics[l]
<1>0. p.magics \in Seq(MagicEx) /\ Len(p.magics) \in Nat
  BY FighterStats
<1>1. CASE k = 0
  <2>1. Cast(p, k) = p
    BY <1>1 DEF Cast
  <2>2. \A l \in 1..Len(p.magics) : l # k
    BY <1>0, <1>1
  <2>3. [p EXCEPT !.progress = 0] \in Fighter
    BY DEF Fighter
  <2>4. /\ [p EXCEPT !.progress = 0].team = p.team
        /\ [p EXCEPT !.progress = 0].progress = 0
        /\ [p EXCEPT !.progress = 0].stats = p.stats
        /\ [p EXCEPT !.progress = 0].magics = p.magics
    BY DEF Fighter
  <2> QED BY <2>1, <2>2, <2>3, <2>4
<1>2. CASE k # 0
  <2> DEFINE cost == p.magics[k].real_magic.mp_cost
  <2> DEFINE st == [p.stats EXCEPT !.mp = @ - cost]
  <2> DEFINE ms == [p.magics EXCEPT ![k] = heatup(@)]
  <2>1. k \in 1..Len(p.magics) /\ p.magics[k] \in MagicEx
    BY <1>0, <1>2
  <2>2. cost \in Int /\ heatup(p.magics[k]) \in MagicEx
    BY <2>1 DEF MagicEx, Magic, heatup
  <2>3. p.stats \in [StatNames -> Int] /\ "mp" \in StatNames /\ p.stats.mp \in Int
    BY FighterStats DEF Stats, StatNames
  <2>4. /\ ms \in Seq(MagicEx) /\ Len(ms) = Len(p.magics)
        /\ \A l \in 1..Len(p.magics) : ms[l] = IF l = k THEN heatup(p.magics[l]) ELSE p.magics[l]
    BY <1>0, <2>1, <2>2, ExceptSeq
  <2> HIDE DEF cost, ms
  <2>5. \A s \in StatNames : st[s] \in Int
    BY <2>2, <2>3
  <2>6. st \in Stats
    BY <2>3, <2>5 DEF Stats
  <2>7. \A s \in StatNames \ {"mp"} : st[s] = p.stats[s]
    BY <2>3
  <2> HIDE DEF st
  <2> DEFINE q == [p EXCEPT !.magics = ms, !.stats = st, !.progress = 0]
  <2>8. q \in Fighter
    <3>1. [p EXCEPT !.magics = ms] \in Fighter
      BY <2>4 DEF Fighter
    <3>2. \A r \in Fighter : [r EXCEPT !.stats = st] \in Fighter
      BY <2>6 DEF Fighter
    <3>3. \A r \in Fighter : [r EXCEPT !.progress = 0] \in Fighter
      BY DEF Fighter
    <3>4. q = [[[p EXCEPT !.magics = ms] EXCEPT !.stats = st] EXCEPT !.progress = 0]
      OBVIOUS
    <3> QED BY <3>1, <3>2, <3>3, <3>4
  <2>9. q.magics = ms /\ q.stats = st /\ q.progress = 0 /\ q.team = p.team
    BY DEF Fighter
  <2>10. [Cast(p, k) EXCEPT !.progress = 0] = q
    <3>1. Cast(p, k) = [p EXCEPT !.magics = ms, !.stats = st]
      BY <1>2 DEF Cast, ms, st, cost
    <3> QED BY <3>1
  <2> HIDE DEF q
  <2> QED BY <2>4, <2>7, <2>8, <2>9, <2>10
<1> QED BY <1>1, <1>2

(* Advancing changes progress and cooldowns, and no stat.                  *)
LEMMA Advancing ==
    ASSUME NEW p \in Fighter, NEW ticks \in Nat
    PROVE  LET q == [p EXCEPT !.progress = @ + p.stats.speed * ticks,
                              !.magics = [k \in DOMAIN @ |-> cooldown(@[k], ticks)]]
           IN  /\ q \in Fighter
               /\ q.team = p.team /\ q.stats = p.stats
               /\ q.progress = p.progress + p.stats.speed * ticks
               /\ Len(q.magics) = Len(p.magics)
               /\ \A l \in 1..Len(p.magics) : q.magics[l] = cooldown(p.magics[l], ticks)
<1> DEFINE x == p.progress + p.stats.speed * ticks
<1> DEFINE ms == [k \in DOMAIN p.magics |-> cooldown(p.magics[k], ticks)]
<1>1. p.magics \in Seq(MagicEx) /\ p.progress \in Int /\ p.stats.speed \in Int
  BY FighterStats
<1>2. x \in Int
  BY <1>1
<1>3. /\ DOMAIN p.magics = 1..Len(p.magics) /\ Len(p.magics) \in Nat
      /\ \A k \in 1..Len(p.magics) : p.magics[k] \in MagicEx
  BY <1>1
<1>4. \A m \in MagicEx : cooldown(m, ticks) \in MagicEx
  BY DEF MagicEx, cooldown
<1>5. ms \in Seq(MagicEx)
  BY <1>3, <1>4, IsASeq
<1>6. Len(ms) = Len(p.magics) /\ \A l \in 1..Len(p.magics) : ms[l] = cooldown(p.magics[l], ticks)
  <2>1. DOMAIN ms = 1..Len(p.magics) /\ DOMAIN ms = 1..Len(ms) /\ Len(ms) \in Nat
    BY <1>3, <1>5, LenProperties
  <2> QED BY <1>3, <2>1
<1> HIDE DEF x, ms
<1> DEFINE q == [p EXCEPT !.progress = x, !.magics = ms]
<1>7. q \in Fighter
  <2>1. [p EXCEPT !.progress = x] \in Fighter
    BY <1>2 DEF Fighter
  <2>2. \A r \in Fighter : [r EXCEPT !.magics = ms] \in Fighter
    BY <1>5 DEF Fighter
  <2>3. q = [[p EXCEPT !.progress = x] EXCEPT !.magics = ms]
    OBVIOUS
  <2> QED BY <2>1, <2>2, <2>3
<1>8. q.progress = x /\ q.magics = ms /\ q.stats = p.stats /\ q.team = p.team
  BY DEF Fighter
<1>9. [p EXCEPT !.progress = @ + p.stats.speed * ticks,
                !.magics = [k \in DOMAIN @ |-> cooldown(@[k], ticks)]] = q
  BY DEF x, ms
<1> HIDE DEF q
<1> QED BY <1>6, <1>7, <1>8, <1>9 DEF x

(* Who acts: the loops of fight::go find a fighter that has to wait least. *)
LEMMA AttackerFacts ==
    ASSUME NEW n \in Nat, NEW f, Fit(f, n), Alive(f) # {}
    PROVE  /\ Attacker(f) \in Alive(f)
           /\ Attacker(f) \in 1..n
           /\ Ticks(f) \in Nat
           /\ \A j \in Alive(f) : Ticks(f) <= ticks_calc(f.all[j])
<1> DEFINE T == Alive(f)
<1> DEFINE R == {r \in T \X T : ActsFirst(f, r[1], r[2])}
<1>1. T \subseteq 1..n
  BY DEF Alive, Fit
<1>2. \A i \in T : ticks_calc(f.all[i]) \in Nat
  <2> SUFFICES ASSUME NEW i \in T PROVE ticks_calc(f.all[i]) \in Nat
    OBVIOUS
  <2>1. f.all[i] \in Fighter /\ f.all[i].stats.speed > 0
    BY <1>1 DEF Fit
  <2> QED BY <2>1, TicksFacts
<1>3. \A i, j \in T : <<i, j>> \in R <=> ActsFirst(f, i, j)
  OBVIOUS
<1> HIDE DEF R, T
<1>4. ASSUME NEW i \in T PROVE i \in Int /\ ticks_calc(f.all[i]) \in Int
  <2>1. i \in 1..n /\ ticks_calc(f.all[i]) \in Nat
    BY <1>1, <1>2
  <2> HIDE DEF T
  <2> QED BY <2>1
<1>5. \A i, j \in T : ActsFirst(f, i, j) \/ ActsFirst(f, j, i)
  BY <1>4 DEF ActsFirst
<1>6. \A i, j, k \in T : ActsFirst(f, i, j) /\ ActsFirst(f, j, k) => ActsFirst(f, i, k)
  BY <1>4 DEF ActsFirst
<1>7. T # {}
  BY DEF T
<1>8. \E i \in T : \A j \in T : <<i, j>> \in R
  <2>1. \A i, j \in T : <<i, j>> \in R \/ <<j, i>> \in R
    BY <1>3, <1>5
  <2>2. \A i, j, k \in T : <<i, j>> \in R /\ <<j, k>> \in R => <<i, k>> \in R
    BY <1>3, <1>6
  <2> QED BY <1>1, <1>7, <2>1, <2>2, Best
<1>9. \E i \in T : \A j \in T : ActsFirst(f, i, j)
  BY <1>3, <1>8
<1>10. Attacker(f) \in T /\ \A j \in T : ActsFirst(f, Attacker(f), j)
  BY <1>9 DEF Attacker, T
<1>11. \A j \in T : ticks_calc(f.all[Attacker(f)]) <= ticks_calc(f.all[j])
  BY <1>4, <1>10 DEF ActsFirst
<1> QED BY <1>1, <1>2, <1>10, <1>11 DEF Ticks, T

(* Who is hit: a living fighter, and an enemy when there is one.           *)
LEMMA TargetFacts ==
    ASSUME NEW n \in Nat, NEW f, Fit(f, n), Alive(f) # {}
    PROVE  /\ Target(f) \in Alive(f)
           /\ Target(f) \in 1..n
           /\ Enemies(f, Attacker(f)) # {} => Target(f) \in Enemies(f, Attacker(f))
<1> DEFINE a == Attacker(f)
<1> DEFINE T == Enemies(f, a) \cup {a}
<1> DEFINE R == {r \in T \X T : Outranks(f, a, r[1], r[2])}
<1>1. a \in Alive(f) /\ a \in 1..n
  BY AttackerFacts
<1>2. T \subseteq Alive(f) /\ T \subseteq 1..n
  BY <1>1 DEF Alive, Fit, Enemies
<1>3. \A j \in 1..n : threat_calc(f.all[j]) \in Int /\ threat_calc(f.all[j]) >= 0
  <2> SUFFICES ASSUME NEW j \in 1..n PROVE threat_calc(f.all[j]) \in Int /\ threat_calc(f.all[j]) >= 0
    OBVIOUS
  <2>1. f.all[j] \in Fighter /\ threat_calc(f.all[j]) >= 0
    BY DEF Fit
  <2> QED BY <2>1, FighterStats DEF threat_calc
<1>4. /\ Threat(f, a, a) = -1 /\ a \notin Enemies(f, a)
      /\ \A j \in T : Threat(f, a, j) \in Int /\ (j # a => Threat(f, a, j) >= 0)
  BY <1>2, <1>3 DEF Threat, Enemies
<1>5. \A i, j \in T : <<i, j>> \in R <=> Outranks(f, a, i, j)
  OBVIOUS
<1> HIDE DEF R, T, a
<1>6. \A i \in T : i \in Int /\ Threat(f, a, i) \in Int
  BY <1>2, <1>4
<1>7. \A i, j \in T : Outranks(f, a, i, j) \/ Outranks(f, a, j, i)
  BY <1>6 DEF Outranks
<1>8. \A i, j, k \in T : Outranks(f, a, i, j) /\ Outranks(f, a, j, k) => Outranks(f, a, i, k)
  BY <1>6 DEF Outranks
<1>9. T # {}
  BY DEF T
<1>10. \E i \in T : \A j \in T : <<i, j>> \in R
  <2>1. \A i, j \in T : <<i, j>> \in R \/ <<j, i>> \in R
    BY <1>5, <1>7
  <2>2. \A i, j, k \in T : <<i, j>> \in R /\ <<j, k>> \in R => <<i, k>> \in R
    BY <1>5, <1>8
  <2> QED BY <1>2, <1>9, <2>1, <2>2, Best
<1>11. \E i \in T : \A j \in T : Outranks(f, a, i, j)
  BY <1>5, <1>10
<1>12. Target(f) \in T /\ \A j \in T : Outranks(f, a, Target(f), j)
  BY <1>11 DEF Target, Defender, T, a
<1>13. ASSUME Enemies(f, a) # {} PROVE Target(f) \in Enemies(f, a)
  <2>1. PICK j \in Enemies(f, a) : TRUE
    BY <1>13
  <2>2. j \in T /\ j # a
    BY <1>4, <2>1 DEF T
  <2>3. Threat(f, a, Target(f)) >= Threat(f, a, j)
    BY <1>6, <1>12, <2>2 DEF Outranks
  <2>4. Target(f) # a
    BY <1>4, <1>6, <2>2, <2>3
  <2> QED BY <1>12, <2>4 DEF T
<1> QED BY <1>2, <1>12, <1>13 DEF a

(* What is cast: nothing, or a magic the attacker has and may use now.     *)
LEMMA ChosenFacts ==
    ASSUME NEW n \in Nat, NEW f, Fit(f, n), Alive(f) # {}
    PROVE  LET p == f.all[Attacker(f)]
           IN  \/ Chosen(f) = 0
               \/ /\ Chosen(f) \in 1..Len(p.magics)
                  /\ cooldown(p.magics[Chosen(f)], Ticks(f)).cd = 0
<1> DEFINE a == Attacker(f)
<1> DEFINE p == f.all[a]
<1> DEFINE q == Advance(f, Ticks(f))[a]
<1>1. a \in Alive(f) /\ a \in 1..n /\ Ticks(f) \in Nat
  BY AttackerFacts
<1>2. p \in Fighter /\ DOMAIN f.all = 1..n
  BY <1>1 DEF Fit
<1>3. q = [p EXCEPT !.progress = @ + p.stats.speed * Ticks(f),
                    !.magics = [k \in DOMAIN @ |-> cooldown(@[k], Ticks(f))]]
  BY <1>1, <1>2 DEF Advance
<1>4. /\ q \in Fighter
      /\ Len(q.magics) = Len(p.magics)
      /\ \A l \in 1..Len(p.magics) : q.magics[l] = cooldown(p.magics[l], Ticks(f))
  <2> HIDE DEF p, q, a
  <2> QED BY ZenonT(40), <1>1, <1>2, <1>3, Advancing
<1> HIDE DEF q, p
<1>5. DOMAIN q.magics = 1..Len(p.magics) /\ Len(p.magics) \in Nat
  BY <1>2, <1>4, FighterStats, LenProperties
<1>6. Chosen(f) = pick_magic_idx(q)
  BY DEF Chosen, q
<1>7. CASE Usable(q) = {}
  BY <1>6, <1>7 DEF pick_magic_idx, p
<1>8. CASE Usable(q) # {}
  <2> DEFINE T == Usable(q)
  <2>1. T \subseteq 1..Len(p.magics) /\ \A k \in T : q.magics[k].cd = 0
    BY <1>5 DEF Usable
  <2>2. T \subseteq Nat /\ T # {}
    BY <1>5, <1>8, <2>1
  <2>3. \E k \in T : \A l \in T : k <= l
    <3> HIDE DEF T
    <3> QED BY <2>2, Smallest
  <2>4. pick_magic_idx(q) \in T
    BY <1>8, <2>3 DEF pick_magic_idx
  <2> QED BY <1>4, <1>6, <2>1, <2>4 DEF p
<1> QED BY <1>7, <1>8

(* Truncating division of integers gives an integer.                       *)
LEMMA TruncDivType ==
    ASSUME NEW x \in Int, NEW y \in Nat, y > 0
    PROVE  TruncDiv(x, y) \in Int
BY DEF TruncDiv

(* The damage of a turn is an integer.                                     *)
LEMMA DamageType ==
    ASSUME NEW n \in Nat, NEW f, Fit(f, n), Alive(f) # {}, NEW numbers \in Drawn(f)
    PROVE  /\ ChosenMagic(f) \in Magic
           /\ Damage(f, numbers) \in Int
<1> DEFINE a == f.all[Attacker(f)]
<1> DEFINE d == f.all[Target(f)]
<1> DEFINE m == ChosenMagic(f)
<1>1. a \in Fighter /\ d \in Fighter /\ d.stats.defence + DefenceExtension > 0
  BY AttackerFacts, TargetFacts DEF Fit
<1>2. m \in Magic
  <2>1. CASE Chosen(f) = 0
    BY <2>1 DEF ChosenMagic, DefaultMagic, Magic, NoStats, Stats, Properties, Resistances
  <2>2. CASE Chosen(f) # 0
    <3>1. Chosen(f) \in 1..Len(a.magics)
      BY <2>2, ChosenFacts
    <3>2. a.magics[Chosen(f)] \in MagicEx
      BY <1>1, <3>1, FighterStats
    <3> QED BY <2>2, <3>2 DEF ChosenMagic, MagicEx
  <2> QED BY <2>1, <2>2
<1>3. CASE Len(numbers) = 1
  BY <1>2, <1>3 DEF Damage, damage_calc
<1>4. CASE Len(numbers) # 1
  <2>1. numbers \in Seq(Int) /\ Len(numbers) = 2
    BY <1>4, DrawnNumbers
  <2>2. numbers[2] \in Int
    BY <2>1
  <2>3. /\ d.stats.defence \in Int /\ a.stats.inner_power \in Int
        /\ m.multiplier \in Int /\ m.inner_damage \in Int
    BY <1>1, <1>2, FighterStats DEF Magic
  <2>4. Unresisted(m, d) \in Int
    BY <1>1, FighterStats DEF Unresisted
  <2> HIDE DEF a, d, m
  <2> DEFINE def == d.stats.defence + DefenceExtension
  <2> DEFINE physical == numbers[2] * m.multiplier * 100 * InnerBase
  <2> DEFINE inner == m.inner_damage * (InnerBase + a.stats.inner_power)
                        * Unresisted(m, d) * def
  <2>5. def \in Nat /\ def > 0
    BY <1>1, <2>3 DEF DefenceExtension
  <2> HIDE DEF def
  <2>6. physical \in Int /\ inner \in Int
    BY <2>2, <2>3, <2>4, <2>5 DEF InnerBase
  <2>7. 100 * InnerBase * def \in Nat /\ 100 * InnerBase * def > 0
    BY <2>5 DEF InnerBase
  <2> HIDE DEF physical, inner
  <2>8. TruncDiv(physical + inner, 100 * InnerBase * def) \in Int
    BY <2>6, <2>7, TruncDivType
  <2>9. Damage(f, numbers) = TruncDiv(physical + inner, 100 * InnerBase * def)
    BY <1>4 DEF Damage, damage_calc, a, d, m, def, physical, inner
  <2> QED BY <1>2, <2>8, <2>9 DEF m
<1> QED BY <1>3, <1>4

(* What a turn with so much damage makes of fighter i.                     *)
Moved(f, i, q, damage) ==
    LET p == f.all[i]
    IN  /\ q.team = p.team
        /\ \A s \in StatNames \ {"hp", "mp"} : q.stats[s] = p.stats[s]
        /\ q.stats.hp = IF i = Target(f) THEN p.stats.hp - damage ELSE p.stats.hp
        /\ q.progress = IF i = Attacker(f) THEN 0
                        ELSE IF i \in Alive(f) THEN p.progress + p.stats.speed * Ticks(f)
                        ELSE p.progress
        /\ Len(q.magics) = Len(p.magics)
        /\ \A l \in 1..Len(p.magics) :
              q.magics[l] =
                  IF i = Attacker(f) /\ l = Chosen(f) THEN heatup(cooldown(p.magics[l], Ticks(f)))
                  ELSE IF i \in Alive(f) THEN cooldown(p.magics[l], Ticks(f))
                  ELSE p.magics[l]

(* What a turn does to every fighter, to the counters and to the clock.    *)
LEMMA TurnFacts ==
    ASSUME NEW n \in Nat, NEW f, Fit(f, n), Alive(f) # {}, NEW numbers \in Drawn(f)
    PROVE  LET g == AfterTurn(f, numbers)
           IN  /\ DOMAIN g.all = 1..n /\ g.all = [i \in 1..n |-> g.all[i]]
               /\ \A i \in 1..n : g.all[i] \in Fighter /\ Moved(f, i, g.all[i], Damage(f, numbers))
               /\ g.team_alive_count =
                     CountAfter(f, Target(f), f.all[Target(f)].stats.hp - Damage(f, numbers))
               /\ g.elapsed = f.elapsed + Ticks(f)
               /\ g.result = f.result
<1> DEFINE a == Attacker(f)
<1> DEFINE d == Target(f)
<1> DEFINE t == Ticks(f)
<1> DEFINE c == Chosen(f)
<1> DEFINE x == Damage(f, numbers)
<1>1. a \in Alive(f) /\ a \in 1..n /\ t \in Nat
  BY AttackerFacts
<1>2. d \in 1..n
  BY TargetFacts
<1>3. x \in Int
  BY DamageType
<1>4. c = 0 \/ c \in 1..Len(f.all[a].magics)
  BY ChosenFacts
<1>5. DOMAIN f.all = 1..n /\ \A i \in 1..n : f.all[i] \in Fighter
  BY DEF Fit
<1> DEFINE moved == Advance(f, t)
<1> DEFINE acted == Acted(f)
<1> DEFINE all == [acted EXCEPT ![d].stats.hp = @ - x]
<1>6. /\ DOMAIN moved = 1..n
      /\ \A i \in 1..n : i \notin Alive(f) => moved[i] = f.all[i]
      /\ \A i \in Alive(f) :
            moved[i] = [f.all[i] EXCEPT !.progress = @ + f.all[i].stats.speed * t,
                                        !.magics = [k \in DOMAIN @ |-> cooldown(@[k], t)]]
  BY <1>5 DEF Advance, Alive
<1>7. /\ DOMAIN acted = 1..n
      /\ acted[a] = [Cast(moved[a], c) EXCEPT !.progress = 0]
      /\ \A i \in 1..n : i # a => acted[i] = moved[i]
  BY <1>1, <1>6 DEF Acted
<1> HIDE DEF moved, acted
<1>8. /\ DOMAIN all = 1..n /\ all = [i \in 1..n |-> all[i]]
      /\ all[d] = [acted[d] EXCEPT !.stats.hp = @ - x]
      /\ \A i \in 1..n : i # d => all[i] = acted[i]
  BY <1>2, <1>7
<1>9. /\ AfterTurn(f, numbers).all = all
      /\ AfterTurn(f, numbers).team_alive_count = CountAfter(f, d, f.all[d].stats.hp - x)
      /\ AfterTurn(f, numbers).elapsed = f.elapsed + t
      /\ AfterTurn(f, numbers).result = f.result
  BY DEF AfterTurn, acted, Fit
<1> HIDE DEF all, x, t, c
<1>10. ASSUME NEW i \in 1..n PROVE all[i] \in Fighter /\ Moved(f, i, all[i], x)
  <2> DEFINE p == f.all[i]
  <2>1. p \in Fighter
    BY <1>5
  <2>2. /\ moved[i] \in Fighter /\ moved[i].team = p.team /\ moved[i].stats = p.stats
        /\ moved[i].progress = IF i \in Alive(f) THEN p.progress + p.stats.speed * t ELSE p.progress
        /\ Len(moved[i].magics) = Len(p.magics)
        /\ \A l \in 1..Len(p.magics) :
              moved[i].magics[l] = IF i \in Alive(f) THEN cooldown(p.magics[l], t) ELSE p.magics[l]
    <3>1. CASE i \in Alive(f)
      <4>1. moved[i] = [p EXCEPT !.progress = @ + p.stats.speed * t,
                                 !.magics = [k \in DOMAIN @ |-> cooldown(@[k], t)]]
        BY <1>6, <3>1
      <4> HIDE DEF p
      <4>2. /\ moved[i] \in Fighter /\ moved[i].team = p.team /\ moved[i].stats = p.stats
            /\ moved[i].progress = p.progress + p.stats.speed * t
            /\ Len(moved[i].magics) = Len(p.magics)
            /\ \A l \in 1..Len(p.magics) : moved[i].magics[l] = cooldown(p.magics[l], t)
        <5> DEFINE q == moved[i]
        <5>1. t \in Nat /\ q = [p EXCEPT !.progress = @ + p.stats.speed * t,
                                        !.magics = [k \in DOMAIN @ |-> cooldown(@[k], t)]]
          BY <1>1, <4>1
        <5> HIDE DEF q
        <5>2. q \in Fighter /\ q.team = p.team /\ q.stats = p.stats
          BY <2>1, <5>1, Advancing
        <5>3. /\ q.progress = p.progress + p.stats.speed * t
              /\ Len(q.magics) = Len(p.magics)
              /\ \A l \in 1..Len(p.magics) : q.magics[l] = cooldown(p.magics[l], t)
          BY <2>1, <5>1, Advancing
        <5> QED BY <5>2, <5>3 DEF q
      <4> QED BY <3>1, <4>2
    <3>2. CASE i \notin Alive(f)
      BY <1>6, <2>1, <3>2
    <3> QED BY <3>1, <3>2
  <2> HIDE DEF p
  <2>3. /\ acted[i] \in Fighter /\ acted[i].team = p.team
        /\ acted[i].progress = IF i = a THEN 0 ELSE moved[i].progress
        /\ \A s \in StatNames \ {"mp"} : acted[i].stats[s] = p.stats[s]
        /\ Len(acted[i].magics) = Len(p.magics)
        /\ \A l \in 1..Len(p.magics) :
              acted[i].magics[l] = IF i = a /\ l = c THEN heatup(moved[i].magics[l])
                                   ELSE moved[i].magics[l]
    <3>1. CASE i = a
      <4>1. c = 0 \/ c \in 1..Len(moved[i].magics)
        BY <1>4, <2>2, <3>1 DEF p
      <4>2. acted[i] = [Cast(moved[i], c) EXCEPT !.progress = 0]
        BY <1>7, <3>1
      <4> HIDE DEF a
      <4> QED BY <2>2, <3>1, <4>1, <4>2, Acting
    <3>2. CASE i # a
      BY <1>7, <2>2, <3>2
    <3> QED BY <3>1, <3>2
  <2>4. /\ all[i] \in Fighter /\ all[i].team = p.team
        /\ all[i].progress = acted[i].progress
        /\ all[i].magics = acted[i].magics
        /\ all[i].stats.hp = IF i = d THEN acted[i].stats.hp - x ELSE acted[i].stats.hp
        /\ \A s \in StatNames \ {"hp"} : all[i].stats[s] = acted[i].stats[s]
    <3>1. CASE i = d
      <4>1. all[i] = [acted[i] EXCEPT !.stats.hp = @ - x]
        BY <1>8, <3>1
      <4> HIDE DEF d
      <4>2. acted[i] \in Fighter /\ x \in Int
        BY <1>3, <2>3
      <4>3. /\ all[i] \in Fighter
            /\ all[i].team = acted[i].team /\ all[i].progress = acted[i].progress
            /\ all[i].magics = acted[i].magics
            /\ all[i].stats.hp = acted[i].stats.hp - x
            /\ \A s \in StatNames \ {"hp"} : all[i].stats[s] = acted[i].stats[s]
        BY <4>1, <4>2, Hit
      <4> QED BY <2>3, <3>1, <4>3
    <3>2. CASE i # d
      BY <1>8, <2>3, <3>2
    <3> QED BY <3>1, <3>2
  <2>5. acted[i].stats.hp = p.stats.hp
    <3>1. "hp" \in StatNames \ {"mp"}
      BY DEF StatNames
    <3>2. acted[i].stats["hp"] = p.stats["hp"]
      BY <2>3, <3>1
    <3> QED BY <3>2
  <2> QED BY <1>1, <2>2, <2>3, <2>4, <2>5 DEF Moved, p, t, c
<1> QED BY <1>8, <1>9, <1>10 DEF x, t

Counted(f) == \A t \in {0, 1} : f.team_alive_count[t] = Cardinality(Standing(f, t))

(* A team's standing fighters are finitely many.                           *)
LEMMA StandingFinite ==
    ASSUME NEW n \in Nat, NEW f, Fit(f, n), NEW t
    PROVE  IsFiniteSet(Standing(f, t)) /\ Cardinality(Standing(f, t)) \in Nat
<1>1. Standing(f, t) \subseteq 1..n
  BY DEF Standing, Alive, Fit
<1>2. IsFiniteSet(Standing(f, t))
  <2>1. IsFiniteSet(1..n)
    BY FS_Interval
  <2> QED BY <1>1, <2>1, FS_Subset
<1> QED BY <1>2, FS_CardinalityType

(* While both teams are counted as alive, the attacker has an enemy.       *)
LEMMA EnemyExists ==
    ASSUME NEW n \in Nat, NEW f, Fit(f, n), Alive(f) # {}, Counted(f), ~ Over(f)
    PROVE  Enemies(f, Attacker(f)) # {}
<1>1. Attacker(f) \in Alive(f) /\ Attacker(f) \in 1..n
  BY AttackerFacts
<1>2. f.all[Attacker(f)].team \in {0, 1}
  BY <1>1, FighterStats DEF Fit
<1>3. \A t \in {0, 1} : Standing(f, t) # {}
  <2> SUFFICES ASSUME NEW t \in {0, 1}, Standing(f, t) = {} PROVE FALSE
    OBVIOUS
  <2>1. Cardinality(Standing(f, t)) = 0
    BY FS_EmptySet
  <2> QED BY <2>1 DEF Counted, Over
<1>4. PICK t \in {0, 1} : t # f.all[Attacker(f)].team
  BY <1>2
<1>5. Standing(f, t) \subseteq Enemies(f, Attacker(f))
  BY <1>4 DEF Standing, Enemies
<1> QED BY <1>3, <1>5

(* A turn keeps fighters fit and the count right, and the attacker lives.  *)
LEMMA TurnCounts ==
    ASSUME NEW n \in Nat, NEW f, Fit(f, n), Alive(f) # {}, Counted(f), ~ Over(f),
           NEW numbers \in Drawn(f)
    PROVE  LET g == AfterTurn(f, numbers)
           IN  /\ Fit(g, n)
               /\ Counted(g)
               /\ Attacker(f) \in Alive(g)
               /\ Alive(g) \subseteq Alive(f)
<1> DEFINE g == AfterTurn(f, numbers)
<1> DEFINE a == Attacker(f)
<1> DEFINE d == Target(f)
<1> DEFINE x == Damage(f, numbers)
<1>1. a \in Alive(f) /\ a \in 1..n /\ Ticks(f) \in Nat
  BY AttackerFacts
<1>2. d \in Alive(f) /\ d \in 1..n /\ d # a
  <2>1. d \in Enemies(f, a)
    BY EnemyExists, TargetFacts
  <2> QED BY <2>1, TargetFacts DEF Enemies
<1>3. x \in Int
  BY DamageType
<1>4. /\ DOMAIN g.all = 1..n /\ g.all = [i \in 1..n |-> g.all[i]]
      /\ \A i \in 1..n : g.all[i] \in Fighter /\ Moved(f, i, g.all[i], x)
      /\ g.team_alive_count = CountAfter(f, d, f.all[d].stats.hp - x)
      /\ g.elapsed = f.elapsed + Ticks(f)
  BY TurnFacts
<1>5. DOMAIN g = {"all", "team_alive_count", "elapsed", "result", "delay"}
  BY DEF AfterTurn, Fit
<1> HIDE DEF g, x
<1>6. \A i \in 1..n : /\ f.all[i] \in Fighter /\ f.all[i].stats.hp \in Int
                      /\ f.all[i].team \in {0, 1}
  BY FighterStats DEF Fit
<1> DEFINE hp == f.all[d].stats.hp - x
<1>7. hp \in Int
  BY <1>2, <1>3, <1>6
<1>8. Fit(g, n)
  <2>1. \A i \in 1..n : /\ g.all[i].stats.speed = f.all[i].stats.speed
                        /\ g.all[i].stats.attack_min = f.all[i].stats.attack_min
                        /\ g.all[i].stats.attack_max = f.all[i].stats.attack_max
                        /\ g.all[i].stats.defence = f.all[i].stats.defence
    <3> SUFFICES ASSUME NEW i \in 1..n
                 PROVE  \A s \in {"speed", "attack_min", "attack_max", "defence"} :
                            g.all[i].stats[s] = f.all[i].stats[s]
      OBVIOUS
    <3>1. \A s \in {"speed", "attack_min", "attack_max", "defence"} :
             s \in StatNames \ {"hp", "mp"}
      BY DEF StatNames
    <3> QED BY <1>4, <3>1 DEF Moved
  <2>2. g.all \in [1..n -> Fighter]
    BY <1>4
  <2>3. g.team_alive_count \in [{0, 1} -> Int]
    BY <1>2, <1>4, <1>6 DEF CountAfter, Fit
  <2>4. g.elapsed \in Nat
    BY <1>1, <1>4 DEF Fit
  <2> QED BY <1>5, <2>1, <2>2, <2>3, <2>4 DEF Fit, threat_calc
<1>9. DOMAIN f.all = 1..n
  BY DEF Fit
<1>10. \A i \in 1..n : g.all[i].stats.hp = IF i = d THEN hp ELSE f.all[i].stats.hp
  BY <1>4 DEF Moved
<1> HIDE DEF hp, d, a
<1>11. Alive(g) = IF hp <= 0 THEN Alive(f) \ {d} ELSE Alive(f)
  <2>1. \A i \in 1..n : i # d => (i \in Alive(g) <=> i \in Alive(f))
    BY <1>4, <1>9, <1>10 DEF Alive
  <2>2. d \in Alive(g) <=> ~ (hp <= 0)
    BY <1>2, <1>4, <1>7, <1>10 DEF Alive
  <2>3. Alive(f) \subseteq 1..n /\ Alive(g) \subseteq 1..n
    BY <1>4, <1>9 DEF Alive
  <2> QED BY <1>2, <2>1, <2>2, <2>3
<1>12. \A i \in 1..n : g.all[i].team = f.all[i].team
  BY <1>4 DEF Moved
<1>13. Counted(g)
  <2> SUFFICES ASSUME NEW t \in {0, 1} PROVE g.team_alive_count[t] = Cardinality(Standing(g, t))
    BY DEF Counted
  <2>1. Alive(f) \subseteq 1..n
    BY <1>9 DEF Alive
  <2>2. f.team_alive_count[t] = Cardinality(Standing(f, t)) /\ IsFiniteSet(Standing(f, t))
    BY StandingFinite DEF Counted
  <2>3. CASE hp <= 0 /\ t = f.all[d].team
    <3>1. Standing(g, t) = Standing(f, t) \ {d} /\ d \in Standing(f, t)
      BY <1>2, <1>11, <1>12, <2>1, <2>3 DEF Standing
    <3>2. Cardinality(Standing(g, t)) = Cardinality(Standing(f, t)) - 1
      BY <2>2, <3>1, FS_RemoveElement
    <3>3. g.team_alive_count[t] = f.team_alive_count[t] - 1
      <4>1. g.team_alive_count = [f.team_alive_count EXCEPT ![t] = @ - 1]
        BY <1>4, <2>3 DEF CountAfter, hp
      <4>2. f.team_alive_count \in [{0, 1} -> Int]
        BY DEF Fit
      <4> QED BY <4>1, <4>2
    <3> QED BY <2>2, <3>2, <3>3
  <2>4. CASE hp <= 0 /\ t # f.all[d].team
    <3>1. Standing(g, t) = Standing(f, t)
      BY <1>2, <1>11, <1>12, <2>1, <2>4 DEF Standing
    <3>2. g.team_alive_count[t] = f.team_alive_count[t]
      <4>1. g.team_alive_count = [f.team_alive_count EXCEPT ![f.all[d].team] = @ - 1]
        BY <1>4, <2>4 DEF CountAfter, hp
      <4>2. f.team_alive_count \in [{0, 1} -> Int]
        BY DEF Fit
      <4> QED BY <2>4, <4>1, <4>2
    <3> QED BY <2>2, <3>1, <3>2
  <2>5. CASE ~ (hp <= 0)
    <3>1. Standing(g, t) = Standing(f, t)
      BY <1>11, <1>12, <2>1, <2>5 DEF Standing
    <3>2. g.team_alive_count = f.team_alive_count
      BY <1>4, <2>5 DEF CountAfter, hp
    <3> QED BY <2>2, <3>1, <3>2
  <2> QED BY <2>3, <2>4, <2>5
<1> QED BY <1>1, <1>2, <1>8, <1>11, <1>13 DEF g, a

Ahead(f) == \A i \in Alive(f) : f.all[i].progress < MaxProg + f.all[i].stats.speed

(* A turn never carries anybody past MaxProg by a tick: all wait as long   *)
(* as the one that has to wait least.                                      *)
LEMMA TurnAhead ==
    ASSUME NEW n \in Nat, NEW f, Fit(f, n), Alive(f) # {}, Counted(f), ~ Over(f), Ahead(f),
           NEW numbers \in Drawn(f)
    PROVE  Ahead(AfterTurn(f, numbers))
<1> DEFINE g == AfterTurn(f, numbers)
<1> DEFINE t == Ticks(f)
<1> SUFFICES ASSUME NEW i \in Alive(g)
             PROVE  g.all[i].progress < MaxProg + g.all[i].stats.speed
  BY DEF Ahead
<1>1. i \in Alive(f) /\ i \in 1..n
  BY TurnCounts DEF Alive, Fit
<1>2. Moved(f, i, g.all[i], Damage(f, numbers))
  BY <1>1, TurnFacts
<1>3. t \in Nat /\ t <= ticks_calc(f.all[i])
  BY <1>1, AttackerFacts
<1>4. f.all[i] \in Fighter /\ f.all[i].stats.speed > 0 /\ f.all[i].stats.speed \in Int
  BY <1>1, FighterStats DEF Fit
<1>5. g.all[i].stats.speed = f.all[i].stats.speed
  <2>1. "speed" \in StatNames \ {"hp", "mp"}
    BY DEF StatNames
  <2>2. g.all[i].stats["speed"] = f.all[i].stats["speed"]
    BY <1>2, <2>1 DEF Moved
  <2> QED BY <2>2
<1>6. g.all[i].progress = IF i = Attacker(f) THEN 0 ELSE f.all[i].progress + f.all[i].stats.speed * t
  BY <1>1, <1>2 DEF Moved
<1> HIDE DEF g, t
<1>7. f.all[i].progress < MaxProg + f.all[i].stats.speed
  BY <1>1 DEF Ahead
<1>8. f.all[i].progress + f.all[i].stats.speed * t < MaxProg + f.all[i].stats.speed
  BY <1>3, <1>4, <1>7, TicksFacts
<1>9. 0 < MaxProg + f.all[i].stats.speed
  BY <1>4 DEF MaxProg
<1> QED BY <1>5, <1>6, <1>8, <1>9 DEF g

(* What is left of a cooldown and what has elapsed since the magic was     *)
(* used at c[i][k] make at least the whole cooldown.                       *)
Cooling(f, c, n) ==
    /\ c = [i \in 1..n |-> c[i]]
    /\ \A i \in 1..n : c[i] = [k \in 1..Len(f.all[i].magics) |-> c[i][k]]
    /\ \A i \in 1..n : \A k \in 1..Len(f.all[i].magics) :
          \/ c[i][k] = Never
          \/ /\ c[i][k] \in Int
             /\ f.elapsed - c[i][k] + f.all[i].magics[k].cd >= f.all[i].magics[k].real_magic.cd

(* cast_at after a turn.                                                   *)
Casting(f, c) ==
    IF Chosen(f) = 0 THEN c
    ELSE [c EXCEPT ![Attacker(f)][Chosen(f)] = f.elapsed + Ticks(f)]

(* A turn enters the use of the chosen magic and no other.                 *)
LEMMA CastingFacts ==
    ASSUME NEW n \in Nat, NEW f, Fit(f, n), Alive(f) # {}, NEW c, Cooling(f, c, n)
    PROVE  LET new == Casting(f, c)
           IN  /\ new = [i \in 1..n |-> new[i]]
               /\ \A i \in 1..n : /\ new[i] = [k \in 1..Len(f.all[i].magics) |-> new[i][k]]
                                  /\ \A k \in 1..Len(f.all[i].magics) :
                                        new[i][k] = IF i = Attacker(f) /\ k = Chosen(f)
                                                    THEN f.elapsed + Ticks(f) ELSE c[i][k]
<1> DEFINE a == Attacker(f)
<1> DEFINE l == Chosen(f)
<1> DEFINE e == f.elapsed + Ticks(f)
<1>1. a \in 1..n
  BY AttackerFacts
<1>2. \A i \in 1..n : Len(f.all[i].magics) \in Nat
  BY FighterStats DEF Fit
<1>3. CASE l = 0
  <2>1. Casting(f, c) = c
    BY <1>3 DEF Casting
  <2>2. \A i \in 1..n : \A k \in 1..Len(f.all[i].magics) : k # l
    BY <1>2, <1>3
  <2> QED BY <2>1, <2>2 DEF Cooling
<1>4. CASE l # 0
  <2>1. l \in 1..Len(f.all[a].magics)
    BY <1>4, ChosenFacts
  <2> DEFINE new == [c EXCEPT ![a][l] = e]
  <2>2. Casting(f, c) = new
    BY <1>4 DEF Casting
  <2> HIDE DEF a, l, e
  <2>3. c = [i \in 1..n |-> c[i]] /\ \A i \in 1..n : c[i] = [k \in 1..Len(f.all[i].magics) |-> c[i][k]]
    BY DEF Cooling
  <2>4. /\ new = [i \in 1..n |-> new[i]]
        /\ new[a] = [c[a] EXCEPT ![l] = e]
        /\ \A i \in 1..n : i # a => new[i] = c[i]
    BY <1>1, <2>3
  <2> HIDE DEF new
  <2>5. ASSUME NEW i \in 1..n
        PROVE  /\ new[i] = [k \in 1..Len(f.all[i].magics) |-> new[i][k]]
               /\ \A k \in 1..Len(f.all[i].magics) :
                     new[i][k] = IF i = a /\ k = l THEN e ELSE c[i][k]
    <3>1. CASE i = a
      <4>1. c[a] = [k \in 1..Len(f.all[a].magics) |-> c[a][k]]
        BY <1>1, <2>3
      <4> QED BY <2>1, <2>4, <3>1, <4>1
    <3>2. CASE i # a
      BY <2>3, <2>4, <3>2
    <3> QED BY <3>1, <3>2
  <2> QED BY <2>2, <2>4, <2>5 DEF a, l, e
<1> QED BY <1>3, <1>4

(* A turn keeps cooldowns and the times of use in agreement.               *)
LEMMA TurnCooling ==
    ASSUME NEW n \in Nat, NEW f, Fit(f, n), Alive(f) # {}, NEW numbers \in Drawn(f),
           NEW c, Cooling(f, c, n)
    PROVE  Cooling(AfterTurn(f, numbers), Casting(f, c), n)
<1> DEFINE g == AfterTurn(f, numbers)
<1> DEFINE new == Casting(f, c)
<1> DEFINE t == Ticks(f)
<1>1. t \in Nat /\ f.elapsed \in Nat /\ g.elapsed = f.elapsed + t
  BY AttackerFacts, TurnFacts DEF Fit
<1>2. \A i \in 1..n : f.all[i] \in Fighter /\ Moved(f, i, g.all[i], Damage(f, numbers))
  BY TurnFacts DEF Fit
<1>3. /\ new = [i \in 1..n |-> new[i]]
      /\ \A i \in 1..n : /\ new[i] = [k \in 1..Len(f.all[i].magics) |-> new[i][k]]
                         /\ \A k \in 1..Len(f.all[i].magics) :
                               new[i][k] = IF i = Attacker(f) /\ k = Chosen(f)
                                           THEN f.elapsed + t ELSE c[i][k]
  BY CastingFacts
<1> HIDE DEF g, new, t
<1>4. ASSUME NEW i \in 1..n, NEW k \in 1..Len(f.all[i].magics)
      PROVE  \/ new[i][k] = Never
             \/ /\ new[i][k] \in Int
                /\ g.elapsed - new[i][k] + g.all[i].magics[k].cd >= g.all[i].magics[k].real_magic.cd
  <2> DEFINE m == f.all[i].magics[k]
  <2>1. m \in MagicEx /\ m.cd \in Int /\ m.real_magic.cd \in Int
    <3>1. m \in MagicEx
      BY <1>2, FighterStats
    <3> QED BY <3>1 DEF MagicEx, Magic
  <2>2. /\ \A x \in Int : cooldown(m, x).real_magic = m.real_magic
        /\ heatup(cooldown(m, t)).real_magic = m.real_magic
        /\ heatup(cooldown(m, t)).cd = m.real_magic.cd
        /\ cooldown(m, t).cd = IF m.cd > t THEN m.cd - t ELSE 0
    BY <1>1, <2>1 DEF MagicEx, cooldown, heatup
  <2>3. g.all[i].magics[k] =
            IF i = Attacker(f) /\ k = Chosen(f) THEN heatup(cooldown(m, t))
            ELSE IF i \in Alive(f) THEN cooldown(m, t) ELSE m
    BY <1>2 DEF Moved, t
  <2>4. CASE i = Attacker(f) /\ k = Chosen(f)
    <3>1. new[i][k] = f.elapsed + t /\ g.all[i].magics[k] = heatup(cooldown(m, t))
      BY <1>3, <2>3, <2>4
    <3>2. g.all[i].magics[k].cd = m.real_magic.cd /\ g.all[i].magics[k].real_magic = m.real_magic
      BY <2>2, <3>1
    <3>3. \A u \in Nat, v \in Int : u \in Int /\ u - u + v >= v
      OBVIOUS
    <3>4. f.elapsed + t \in Nat /\ g.elapsed = f.elapsed + t
      BY <1>1
    <3> HIDE DEF m
    <3> QED BY <2>1, <3>1, <3>2, <3>3, <3>4
  <2>5. CASE ~ (i = Attacker(f) /\ k = Chosen(f))
    <3>1. new[i][k] = c[i][k]
      BY <1>3, <2>5
    <3>2. /\ g.all[i].magics[k].real_magic = m.real_magic
          /\ g.all[i].magics[k].cd \in Int
          /\ g.all[i].magics[k].cd >= m.cd - t
      <4>1. g.all[i].magics[k] = cooldown(m, t) \/ g.all[i].magics[k] = m
        BY <2>3, <2>5
      <4>2. cooldown(m, t).real_magic = m.real_magic
        BY <1>1, <2>2
      <4>3. cooldown(m, t).cd \in Int /\ cooldown(m, t).cd >= m.cd - t /\ m.cd >= m.cd - t
        <5>1. \A x \in Int : LET y == IF x > t THEN x - t ELSE 0
                              IN  y \in Int /\ y >= x - t /\ x >= x - t
          BY <1>1
        <5> HIDE DEF m
        <5> QED BY <2>1, <2>2, <5>1
      <4> QED BY <2>1, <4>1, <4>2, <4>3
    <3>3. \/ c[i][k] = Never
          \/ c[i][k] \in Int /\ f.elapsed - c[i][k] + m.cd >= m.real_magic.cd
      BY DEF Cooling
    <3>4. \A u, v, w, x, y \in Int : u - v + w >= y /\ x >= w - t => (u + t) - v + x >= y
      BY <1>1
    <3> HIDE DEF m
    <3>5. CASE c[i][k] = Never
      BY <3>1, <3>5
    <3>6. CASE c[i][k] \in Int /\ f.elapsed - c[i][k] + m.cd >= m.real_magic.cd
      <4> DEFINE x == g.all[i].magics[k].cd
      <4>1. f.elapsed \in Int /\ c[i][k] \in Int /\ m.cd \in Int /\ x \in Int /\ m.real_magic.cd \in Int
        BY <1>1, <2>1, <3>2, <3>6
      <4>2. f.elapsed - c[i][k] + m.cd >= m.real_magic.cd /\ x >= m.cd - t
        BY <3>2, <3>6
      <4> HIDE DEF x
      <4>3. (f.elapsed + t) - c[i][k] + x >= m.real_magic.cd
        BY <3>4, <4>1, <4>2
      <4> QED BY <1>1, <3>1, <3>2, <4>1, <4>3 DEF x
    <3> QED BY <3>3, <3>5, <3>6
  <2> QED BY <2>4, <2>5
<1>5. \A i \in 1..n : Len(g.all[i].magics) = Len(f.all[i].magics)
  BY <1>2 DEF Moved
<1>6. Cooling(g, new, n)
  BY <1>3, <1>4, <1>5 DEF Cooling
<1> QED BY <1>6 DEF g, new

-----------------------------------------------------------------------------
(* The inductive invariant of a fight that begins fit.                     *)

(* The winner is the team that is not counted out.                         *)
Decided(f) ==
    /\ f.result = "friends" => f.team_alive_count[1] = 0
    /\ f.result = "enemies" => f.team_alive_count[0] = 0

GoesOn(f, c, n) ==
    /\ Fit(f, n)
    /\ Alive(f) # {}
    /\ Counted(f)
    /\ Decided(f)
    /\ Ahead(f)
    /\ Cooling(f, c, n)

Course == \E n \in Nat : GoesOn(server, cast_at, n)

(* What the constructor makes of a roster of n that it sorts by p.         *)
Begun(n, p) ==
    /\ n > 0 /\ Permutes(p, n)
    /\ DOMAIN server = {"all", "team_alive_count", "elapsed", "result", "delay"}
    /\ server.all \in [1..n -> Fighter]
    /\ server.team_alive_count = [t \in {0, 1} |-> IF t = 0 THEN 1 ELSE n - 1]
    /\ server.elapsed = 0 /\ Fighting(server)
    /\ \A i \in 1..n : /\ server.all[i].progress = 0
                       /\ server.all[i].team = IF p[i] = 1 THEN 0 ELSE 1
                       /\ p[i] = 1 => max_hp = server.all[i].stats.hp
    /\ cast_at = [i \in 1..n |-> [k \in DOMAIN server.all[i].magics |-> Never]]

(* Init makes a fight of the roster of prep_fight in this way.             *)
LEMMA InitFighters ==
    ASSUME Init
    PROVE  \E n \in Nat : \E p : Begun(n, p)
<1>1. PICK attrs \in PlayerAttrs, load \in Loadouts, foes \in Foes :
         LET roster == prep_fight(attrs, load, foes)
         IN  /\ \E order \in Orders(roster) : server = NewFight(roster, order)
             /\ max_hp = roster[1].stats.hp
             /\ cast_at = [i \in DOMAIN roster |-> [k \in DOMAIN server.all[i].magics |-> Never]]
  BY DEF Init
<1> DEFINE roster == prep_fight(attrs, load, foes)
<1> DEFINE n == Len(foes) + 1
<1>2. PICK p \in Orders(roster) : server = NewFight(roster, p)
  BY <1>1
<1>3. n \in Nat /\ n > 0 /\ roster \in [1..n -> Fightable]
  BY PrepFightType
<1> HIDE DEF roster, n
<1>4. \A i \in 1..n : /\ roster[i].stats \in Stats
                      /\ roster[i].magics \in Seq(MagicEx)
                      /\ roster[i].stats.speed \in Int
  BY <1>3 DEF Fightable, Stats, StatNames
<1>5. DOMAIN roster = 1..n /\ Len(roster) = n
  <2>1. roster = [i \in 1..n |-> roster[i]] /\ \A i \in 1..n : roster[i] \in Fightable
    BY <1>3
  <2>2. [i \in 1..n |-> roster[i]] \in Seq(Fightable)
    BY <1>3, <2>1, IsASeq
  <2>3. roster \in Seq(Fightable)
    BY <2>1, <2>2
  <2>4. Len(roster) \in Nat /\ DOMAIN roster = 1..Len(roster) /\ DOMAIN roster = 1..n
    BY <2>1, <2>3, LenProperties
  <2> QED BY <1>3, <2>4
<1>6. Permutes(p, n)
  BY <1>3, <1>4, <1>5, OrderPermutes
<1>7. p \in [1..n -> 1..n]
  BY <1>6 DEF Permutes
<1>8. /\ DOMAIN server = {"all", "team_alive_count", "elapsed", "result", "delay"}
      /\ server.all = Sorted(roster, p)
      /\ server.team_alive_count = [t \in {0, 1} |-> IF t = 0 THEN 1 ELSE n - 1]
      /\ server.elapsed = 0 /\ Fighting(server)
  BY <1>2, <1>5 DEF NewFight, Fighting
<1>9. ASSUME NEW i \in 1..n
      PROVE  /\ server.all[i] \in Fighter
             /\ server.all[i].progress = 0
             /\ server.all[i].team = IF p[i] = 1 THEN 0 ELSE 1
             /\ server.all[i].stats = roster[p[i]].stats
  <2> DEFINE q == [stats |-> roster[p[i]].stats, progress |-> 0,
                   magics |-> roster[p[i]].magics, team |-> IF p[i] = 1 THEN 0 ELSE 1]
  <2>1. server.all[i] = q
    BY <1>5, <1>8 DEF Sorted
  <2>2. q \in Fighter
    <3>1. roster[p[i]].stats \in Stats /\ roster[p[i]].magics \in Seq(MagicEx)
      BY <1>4, <1>7
    <3> QED BY <3>1 DEF Fighter
  <2> QED BY <2>1, <2>2
<1>10. server.all \in [1..n -> Fighter]
  <2>1. server.all = [i \in 1..n |-> server.all[i]]
    BY <1>5, <1>8 DEF Sorted
  <2> QED BY <1>9, <2>1
<1>11. max_hp = roster[1].stats.hp
       /\ cast_at = [i \in 1..n |-> [k \in DOMAIN server.all[i].magics |-> Never]]
  BY <1>1, <1>5 DEF roster
<1>12. \A i \in 1..n : p[i] = 1 => max_hp = server.all[i].stats.hp
  BY <1>9, <1>11
<1>13. Begun(n, p)
  BY <1>3, <1>6, <1>8, <1>9, <1>10, <1>11, <1>12 DEF Begun
<1> QED BY <1>3, <1>13

(* A fight whose fighters are fit takes its course from the start.         *)
LEMMA InitCourse == Init /\ FitToFight => Course
<1> SUFFICES ASSUME Init, FitToFight PROVE Course
  OBVIOUS
<1>0. PICK n \in Nat : \E p : Begun(n, p)
  BY InitFighters
<1>1. PICK p :
              /\ n > 0 /\ Permutes(p, n)
              /\ DOMAIN server = {"all", "team_alive_count", "elapsed", "result", "delay"}
              /\ server.all \in [1..n -> Fighter]
              /\ server.team_alive_count = [t \in {0, 1} |-> IF t = 0 THEN 1 ELSE n - 1]
              /\ server.elapsed = 0 /\ Fighting(server)
              /\ \A i \in 1..n : /\ server.all[i].progress = 0
                                 /\ server.all[i].team = IF p[i] = 1 THEN 0 ELSE 1
              /\ cast_at = [i \in 1..n |-> [k \in DOMAIN server.all[i].magics |-> Never]]
  BY <1>0 DEF Begun
<1>2. DOMAIN server.all = 1..n /\ \A i \in 1..n : server.all[i] \in Fighter
  BY <1>1
<1>3. \A i \in 1..n : /\ server.all[i].stats.hp > 0
                      /\ server.all[i].stats.speed > 0
                      /\ threat_calc(server.all[i]) >= 0
                      /\ server.all[i].stats.defence + DefenceExtension > 0
  BY <1>2 DEF FitToFight
<1>4. Fit(server, n)
  BY <1>1, <1>3 DEF Fit
<1>5. Alive(server) = 1..n /\ 1 \in 1..n
  BY <1>1, <1>2, <1>3 DEF Alive
<1>6. Counted(server)
  <2>1. PICK j \in 1..n : p[j] = 1
    BY <1>1, <1>5 DEF Permutes
  <2>2. \A i \in 1..n : p[i] = 1 <=> i = j
    <3>1. \A i, k \in 1..n : p[i] = p[k] => i = k
      BY <1>1 DEF Permutes
    <3> QED BY <2>1, <3>1
  <2>3. Standing(server, 0) = {j} /\ Standing(server, 1) = (1..n) \ {j}
    BY <1>1, <1>5, <2>2 DEF Standing
  <2>4. IsFiniteSet(1..n) /\ Cardinality(1..n) = n
    BY <1>1, FS_Interval
  <2>5. Cardinality(Standing(server, 0)) = 1
    BY <2>3, FS_Singleton
  <2>6. Cardinality(Standing(server, 1)) = n - 1
    BY <2>1, <2>3, <2>4, FS_RemoveElement
  <2> QED BY <1>1, <2>5, <2>6 DEF Counted
<1>7. Decided(server)
  BY <1>1 DEF Decided, Fighting
<1>8. Ahead(server)
  <2> SUFFICES ASSUME NEW i \in 1..n
               PROVE  server.all[i].progress < MaxProg + server.all[i].stats.speed
    BY <1>5 DEF Ahead
  <2>1. server.all[i].progress = 0 /\ server.all[i].stats.speed > 0
        /\ server.all[i].stats.speed \in Int
    BY <1>1, <1>2, <1>3, FighterStats
  <2> QED BY <2>1 DEF MaxProg
<1>9. Cooling(server, cast_at, n)
  <2>1. \A i \in 1..n : DOMAIN server.all[i].magics = 1..Len(server.all[i].magics)
    BY <1>2, FighterStats, LenProperties
  <2>2. \A i \in 1..n : cast_at[i] = [k \in 1..Len(server.all[i].magics) |-> Never]
    BY <1>1, <2>1
  <2> QED BY <1>1, <2>2 DEF Cooling
<1> QED BY <1>4, <1>5, <1>6, <1>7, <1>8, <1>9 DEF Course, GoesOn

(* Every step keeps a fight on its course.                                 *)
LEMMA NextCourse == Course /\ [Next]_vars => Course'
<1> SUFFICES ASSUME Course, [Next]_vars PROVE Course'
  OBVIOUS
<1>1. PICK n \in Nat : GoesOn(server, cast_at, n)
  BY DEF Course
<1>2. /\ Fit(server, n) /\ Alive(server) # {} /\ Counted(server)
      /\ Decided(server) /\ Ahead(server) /\ Cooling(server, cast_at, n)
  BY <1>1 DEF GoesOn
<1>3. CASE Turn
  <2>1. PICK numbers \in Drawn(server) : server' = AfterTurn(server, numbers)
    BY <1>3 DEF Turn
  <2>2. Fighting(server) /\ ~ Over(server) /\ cast_at' = Casting(server, cast_at)
    BY <1>3 DEF Turn, Casting
  <2> DEFINE g == AfterTurn(server, numbers)
  <2>3. Fit(g, n) /\ Counted(g) /\ Attacker(server) \in Alive(g)
    BY <1>2, <2>2, TurnCounts
  <2>4. Ahead(g)
    BY <1>2, <2>2, TurnAhead
  <2>5. Cooling(g, Casting(server, cast_at), n)
    BY <1>2, TurnCooling
  <2>6. Decided(g)
    <3>1. g.result = server.result
      BY <1>2, TurnFacts
    <3> QED BY <2>2, <3>1 DEF Decided, Fighting
  <2> HIDE DEF g
  <2>7. GoesOn(g, Casting(server, cast_at), n)
    BY <2>3, <2>4, <2>5, <2>6 DEF GoesOn
  <2>8. GoesOn(server', cast_at', n)
    BY <2>1, <2>2, <2>7 DEF g
  <2> QED BY <2>8 DEF Course
<1>4. CASE Finish
  <2>1. Over(server) /\ server' = AfterEnd(server) /\ cast_at' = cast_at
    BY <1>4 DEF Finish
  <2> DEFINE g == AfterEnd(server)
  <2>2. /\ DOMAIN g = DOMAIN server /\ g.all = server.all /\ g.elapsed = server.elapsed
        /\ g.team_alive_count = server.team_alive_count
        /\ g.result = IF server.team_alive_count[1] = 0 THEN "friends" ELSE "enemies"
    BY <1>2 DEF AfterEnd, Fit
  <2> HIDE DEF g
  <2>3. Alive(g) = Alive(server) /\ \A t : Standing(g, t) = Standing(server, t)
    BY <2>2 DEF Alive, Standing
  <2>4. Fit(g, n)
    BY <1>2, <2>2 DEF Fit
  <2>5. Counted(g)
    BY <1>2, <2>2, <2>3 DEF Counted
  <2>6. Decided(g)
    BY <2>1, <2>2 DEF Decided, Over
  <2>7. Ahead(g)
    BY <1>2, <2>2, <2>3 DEF Ahead
  <2>8. Cooling(g, cast_at, n)
    BY <1>2, <2>2 DEF Cooling
  <2>9. GoesOn(g, cast_at, n)
    BY <1>2, <2>3, <2>4, <2>5, <2>6, <2>7, <2>8 DEF GoesOn
  <2>10. GoesOn(server', cast_at', n)
    BY <2>1, <2>9 DEF g
  <2> QED BY <2>10 DEF Course
<1>5. CASE UNCHANGED <<server, cast_at>>
  BY <1>1, <1>5 DEF Course
<1>6. Turn \/ Finish \/ UNCHANGED <<server, cast_at>>
  BY DEF Next, ReplayTurn, ReplayEnd, vars
<1> QED BY <1>3, <1>4, <1>5, <1>6

(***************************************************************************)
(* A fight that begins fit goes on fit, counted and in time.               *)
(***************************************************************************)
THEOREM FightCourse == FitSpec => []Course
BY InitCourse, NextCourse, PTL DEF FitSpec, FitInit

(***************************************************************************)
(* For every player, every number of enemies and all their magics and      *)
(* stats: team_alive_count is the number of fighters alive in each team.   *)
(***************************************************************************)
THEOREM FightAliveCounted == FitSpec => []AliveCounted
<1>1. Course => AliveCounted
  BY DEF Course, GoesOn, Counted, AliveCounted
<1> QED BY <1>1, FightCourse, PTL

(***************************************************************************)
(* The assertion after the choice of a target holds in every turn of a fit *)
(* fight: the attacker is never its own target.                            *)
(***************************************************************************)
THEOREM FightAttackerHasTarget == FitSpec => []AttackerHasTarget
<1>1. Course => AttackerHasTarget
  <2> SUFFICES ASSUME Course, ~ Over(server)
               PROVE  server.all[Target(server)].team # server.all[Attacker(server)].team
    BY DEF AttackerHasTarget
  <2>1. PICK n \in Nat : /\ Fit(server, n) /\ Alive(server) # {} /\ Counted(server)
    BY DEF Course, GoesOn
  <2>2. Target(server) \in Enemies(server, Attacker(server))
    BY <2>1, EnemyExists, TargetFacts
  <2> QED BY <2>2 DEF Enemies
<1> QED BY <1>1, FightCourse, PTL

(***************************************************************************)
(* The team that fight::go returns stands, and the other one has fallen.   *)
(***************************************************************************)
THEOREM FightWinnerStands == FitSpec => []WinnerStands
<1>1. Course => WinnerStands
  <2> SUFFICES ASSUME Course PROVE WinnerStands
    OBVIOUS
  <2>1. PICK n \in Nat : /\ Fit(server, n) /\ Alive(server) # {} /\ Counted(server)
                         /\ Decided(server)
    BY DEF Course, GoesOn
  <2>2. \A t \in {0, 1} : server.team_alive_count[t] = 0 => Standing(server, t) = {}
    <3> SUFFICES ASSUME NEW t \in {0, 1}, server.team_alive_count[t] = 0
                 PROVE  Standing(server, t) = {}
      OBVIOUS
    <3>1. Cardinality(Standing(server, t)) = 0 /\ IsFiniteSet(Standing(server, t))
      BY <2>1, StandingFinite DEF Counted
    <3> QED BY <3>1, FS_EmptySet
  <2>3. Standing(server, 0) # {} \/ Standing(server, 1) # {}
    <3>1. PICK i \in Alive(server) : TRUE
      BY <2>1
    <3>2. server.all[i].team \in {0, 1}
      <4>1. i \in 1..n
        BY <2>1 DEF Alive, Fit
      <4> QED BY <2>1, <4>1, FighterStats DEF Fit
    <3> QED BY <3>2 DEF Standing
  <2> QED BY <2>1, <2>2, <2>3 DEF WinnerStands, Decided
<1> QED BY <1>1, FightCourse, PTL

(***************************************************************************)
(* No living fighter is ever a whole tick of its own past MaxProg.         *)
(***************************************************************************)
THEOREM FightNoOvershoot == FitSpec => []NoOvershoot
<1>1. Course => NoOvershoot
  BY DEF Course, GoesOn, Ahead, NoOvershoot
<1> QED BY <1>1, FightCourse, PTL

(* A turn that changes the last use c[i][k] of a magic comes late enough.  *)
LEMMA TurnWaits ==
    ASSUME NEW n \in Nat, NEW f, Fit(f, n), Alive(f) # {}, NEW c, Cooling(f, c, n),
           NEW i \in 1..n, NEW k \in 1..Len(f.all[i].magics),
           c[i][k] # Never, Casting(f, c)[i][k] # c[i][k]
    PROVE  Casting(f, c)[i][k] - c[i][k] >= f.all[i].magics[k].real_magic.cd
<1> DEFINE m == f.all[i].magics[k]
<1> DEFINE t == Ticks(f)
<1> DEFINE new == Casting(f, c)
<1>1. /\ c[i][k] \in Int
      /\ f.elapsed - c[i][k] + m.cd >= m.real_magic.cd
  BY DEF Cooling
<1>2. /\ new = [x \in 1..n |-> new[x]]
      /\ \A x \in 1..n : /\ new[x] = [y \in 1..Len(f.all[x].magics) |-> new[x][y]]
                         /\ \A y \in 1..Len(f.all[x].magics) :
                               new[x][y] = IF x = Attacker(f) /\ y = Chosen(f)
                                           THEN f.elapsed + t ELSE c[x][y]
  BY CastingFacts
<1>3. i = Attacker(f) /\ k = Chosen(f) /\ new[i][k] = f.elapsed + t
  <2> HIDE DEF new
  <2>1. new[i][k] # c[i][k]
    BY DEF new
  <2> QED BY <1>2, <2>1
<1>4. cooldown(m, t).cd = 0
  <2>1. Chosen(f) # 0
    <3>1. f.all[i] \in Fighter
      BY DEF Fit
    <3>2. k # 0
      BY <3>1, FighterStats
    <3> QED BY <1>3, <3>2
  <2> QED BY <1>3, <2>1, ChosenFacts
<1>5. t \in Nat /\ f.elapsed \in Nat
  BY AttackerFacts DEF Fit
<1>6. m \in MagicEx /\ m.cd \in Int /\ m.real_magic.cd \in Int
  <2>1. m \in MagicEx
    BY FighterStats DEF Fit
  <2> QED BY <2>1 DEF MagicEx, Magic
<1>7. m.cd <= t
  BY <1>4, <1>5, <1>6 DEF cooldown, MagicEx
<1>8. \A u, v, w, x, y \in Int : u - v + w >= y /\ w <= x => (u + x) - v >= y
  OBVIOUS
<1> HIDE DEF m, t, new
<1>9. (f.elapsed + t) - c[i][k] >= m.real_magic.cd
  BY <1>1, <1>5, <1>6, <1>7, <1>8
<1> QED BY <1>3, <1>9 DEF m, new

(***************************************************************************)
(* No magic is used again before its cooldown has elapsed.                 *)
(***************************************************************************)
THEOREM FightCooldownRespected == FitSpec => CooldownRespected
<1> DEFINE Waits ==
      \A i \in DOMAIN cast_at : \A k \in DOMAIN cast_at[i] :
          cast_at[i][k] # Never /\ cast_at'[i][k] # cast_at[i][k] =>
              cast_at'[i][k] - cast_at[i][k] >= server.all[i].magics[k].real_magic.cd
<1>1. Course /\ [Next]_vars => [Waits]_vars
  <2> SUFFICES ASSUME Course, Next PROVE Waits
    OBVIOUS
  <2>1. CASE ~ Turn
    <3>1. cast_at' = cast_at
      BY <2>1 DEF Next, Finish, ReplayTurn, ReplayEnd
    <3> QED BY <3>1
  <2>2. CASE Turn
    <3>1. PICK n \in Nat : /\ Fit(server, n) /\ Alive(server) # {}
                           /\ Cooling(server, cast_at, n)
      BY DEF Course, GoesOn
    <3>2. cast_at' = Casting(server, cast_at)
      BY <2>2 DEF Turn, Casting
    <3> SUFFICES ASSUME NEW i \in DOMAIN cast_at, NEW k \in DOMAIN cast_at[i],
                        cast_at[i][k] # Never, cast_at'[i][k] # cast_at[i][k]
                 PROVE  cast_at'[i][k] - cast_at[i][k] >= server.all[i].magics[k].real_magic.cd
      OBVIOUS
    <3>3. i \in 1..n /\ k \in 1..Len(server.all[i].magics)
      BY <3>1 DEF Cooling
    <3>4. Casting(server, cast_at)[i][k] # cast_at[i][k]
      BY <3>2
    <3>5. Casting(server, cast_at)[i][k] - cast_at[i][k] >= server.all[i].magics[k].real_magic.cd
      BY <3>1, <3>3, <3>4, TurnWaits
    <3> QED BY <3>2, <3>5
  <2> QED BY <2>1, <2>2
<1> QED BY <1>1, FightCourse, PTL DEF FitSpec, FitInit, CooldownRespected

-----------------------------------------------------------------------------
(* The hp of the player and the delay.                                     *)

(* Only the player is in team 0, it never has more hp than it began with,  *)
(* and the delay is what follows from the outcome.                         *)
Wounded(f, max) ==
    /\ max \in Int /\ max > 0
    /\ \A i \in DOMAIN f.all : Harmful(f.all[i])
    /\ \A i \in DOMAIN f.all : f.all[i].team = 0 => f.all[i].stats.hp <= max
    /\ \A i, j \in DOMAIN f.all : f.all[i].team = 0 /\ f.all[j].team = 0 => i = j
    /\ ~ Fighting(f) => f.delay = fight_delay(max, f.all[1].stats.hp, f.elapsed)

(* The product of natural numbers.                                         *)
LEMMA NatProduct == \A u, v \in Nat : u * v \in Nat
OBVIOUS

(* Truncating division of natural numbers gives a natural number.          *)
LEMMA TruncDivNat ==
    ASSUME NEW u \in Nat, NEW v \in Nat, v > 0
    PROVE  TruncDiv(u, v) \in Nat
BY DivFacts DEF TruncDiv

(* damage_calc on stats and magics that never heal.                        *)
LEMMA DamageNat ==
    ASSUME NEW n \in Nat, NEW f, Fit(f, n), Alive(f) # {}, NEW numbers \in Drawn(f),
           \A i \in DOMAIN f.all : Harmful(f.all[i])
    PROVE  Damage(f, numbers) \in Nat
<1> DEFINE a == f.all[Attacker(f)]
<1> DEFINE d == f.all[Target(f)]
<1> DEFINE m == ChosenMagic(f)
<1>1. /\ a \in Fighter /\ d \in Fighter /\ d.stats.defence + DefenceExtension > 0
      /\ Harmful(a) /\ Harmful(d)
  BY AttackerFacts, TargetFacts DEF Fit
<1>2. m \in Magic
  BY DamageType
<1>3. m.multiplier \in Nat /\ m.inner_damage \in Nat
  <2>1. CASE Chosen(f) = 0
    BY <2>1 DEF ChosenMagic, DefaultMagic
  <2>2. CASE Chosen(f) # 0
    <3>1. Chosen(f) \in 1..Len(a.magics)
      BY <2>2, ChosenFacts
    <3>2. Chosen(f) \in DOMAIN a.magics
      BY <1>1, <3>1, FighterStats, LenProperties
    <3>3. m = a.magics[Chosen(f)].real_magic
      BY <2>2 DEF ChosenMagic
    <3>4. m.multiplier >= 0 /\ m.inner_damage >= 0
      BY <1>1, <3>2, <3>3 DEF Harmful
    <3> QED BY <1>2, <3>4 DEF Magic
  <2> QED BY <2>1, <2>2
<1>4. CASE Len(numbers) = 1
  BY <1>4 DEF Damage, damage_calc
<1>5. CASE Len(numbers) # 1
  <2>1. numbers[2] \in Nat
    <3>1. numbers[2] \in a.stats.attack_min..a.stats.attack_max
      BY <1>5 DEF Drawn
    <3>2. a.stats.attack_min \in Int /\ a.stats.attack_max \in Int /\ a.stats.attack_min >= 0
      BY <1>1, FighterStats DEF Harmful
    <3> QED BY <3>1, <3>2
  <2>3. Unresisted(m, d) \in Nat
    <3>1. CASE m.inner_property \in Resistances
      <4>1. d.stats[m.inner_property] \in Int
        BY <1>1, <3>1, FighterStats
      <4>2. d.stats[m.inner_property] <= 100
        BY <1>1, <3>1 DEF Harmful
      <4> QED BY <3>1, <4>1, <4>2 DEF Unresisted
    <3>2. CASE m.inner_property \notin Resistances
      BY <3>2 DEF Unresisted
    <3> QED BY <3>1, <3>2
  <2>4. InnerBase + a.stats.inner_power \in Nat
    <3>1. a.stats.inner_power \in Int
      BY <1>1, FighterStats
    <3> QED BY <1>1, <3>1 DEF Harmful, InnerBase
  <2> DEFINE def == d.stats.defence + DefenceExtension
  <2>5. def \in Nat /\ def > 0
    <3>1. d.stats.defence \in Int
      BY <1>1, FighterStats
    <3> QED BY <1>1, <3>1 DEF DefenceExtension
  <2> DEFINE physical == numbers[2] * m.multiplier * 100 * InnerBase
  <2> DEFINE inner == m.inner_damage * (InnerBase + a.stats.inner_power)
                        * Unresisted(m, d) * def
  <2>6. physical \in Nat
    BY <1>3, <2>1, NatProduct DEF InnerBase
  <2>7. inner \in Nat
    BY <1>3, <2>3, <2>4, <2>5, NatProduct
  <2>8. 100 * InnerBase * def \in Nat /\ 100 * InnerBase * def > 0
    BY <2>5 DEF InnerBase
  <2>9. Damage(f, numbers) = TruncDiv(physical + inner, 100 * InnerBase * def)
    BY <1>5 DEF Damage, damage_calc
  <2> HIDE DEF physical, inner, def, a, d, m
  <2>10. physical + inner \in Nat
    BY <2>6, <2>7
  <2>11. TruncDiv(physical + inner, 100 * InnerBase * def) \in Nat
    BY <2>8, <2>10, TruncDivNat
  <2> QED BY <2>9, <2>11
<1> QED BY <1>4, <1>5

(* A turn never raises the player's hp.                                    *)
LEMMA TurnWounds ==
    ASSUME NEW n \in Nat, NEW f, Fit(f, n), Alive(f) # {}, NEW numbers \in Drawn(f),
           NEW max, Wounded(f, max), Fighting(f)
    PROVE  Wounded(AfterTurn(f, numbers), max)
<1> DEFINE g == AfterTurn(f, numbers)
<1> DEFINE x == Damage(f, numbers)
<1>1. x \in Nat
  BY DamageNat DEF Wounded
<1>2. DOMAIN f.all = 1..n /\ \A i \in 1..n : f.all[i] \in Fighter
  BY DEF Fit
<1>3. /\ DOMAIN g.all = 1..n /\ g.result = f.result
      /\ \A i \in 1..n : g.all[i] \in Fighter /\ Moved(f, i, g.all[i], x)
  BY TurnFacts
<1> HIDE DEF g, x
<1>4. ASSUME NEW i \in 1..n
      PROVE  /\ Harmful(g.all[i])
             /\ g.all[i].team = f.all[i].team
             /\ f.all[i].stats.hp \in Int
             /\ g.all[i].stats.hp = f.all[i].stats.hp \/ g.all[i].stats.hp = f.all[i].stats.hp - x
  <2> DEFINE q == g.all[i]
  <2> DEFINE p == f.all[i]
  <2>1. q \in Fighter /\ p \in Fighter /\ Moved(f, i, q, x) /\ Harmful(p)
    BY <1>2, <1>3 DEF Wounded
  <2>2. /\ q.stats.attack_min = p.stats.attack_min
        /\ q.stats.inner_power = p.stats.inner_power
        /\ \A r \in Resistances : q.stats[r] = p.stats[r]
    BY <2>1 DEF Moved, StatNames, Resistances
  <2>3. DOMAIN q.magics = 1..Len(p.magics) /\ DOMAIN p.magics = 1..Len(p.magics)
    <3>1. q.magics \in Seq(MagicEx) /\ p.magics \in Seq(MagicEx) /\ Len(q.magics) = Len(p.magics)
      BY <2>1, FighterStats DEF Moved
    <3> QED BY <3>1, LenProperties
  <2>4. \A k \in 1..Len(p.magics) : q.magics[k].real_magic = p.magics[k].real_magic
    <3> SUFFICES ASSUME NEW k \in 1..Len(p.magics)
                 PROVE  q.magics[k].real_magic = p.magics[k].real_magic
      OBVIOUS
    <3>1. p.magics[k] \in MagicEx
      BY <2>1, FighterStats
    <3>2. \A m \in MagicEx : \A t : /\ cooldown(m, t).real_magic = m.real_magic
                                    /\ heatup(cooldown(m, t)).real_magic = m.real_magic
      BY DEF cooldown, heatup, MagicEx
    <3>3. \/ q.magics[k] = heatup(cooldown(p.magics[k], Ticks(f)))
          \/ q.magics[k] = cooldown(p.magics[k], Ticks(f))
          \/ q.magics[k] = p.magics[k]
      BY <2>1 DEF Moved
    <3>4. /\ cooldown(p.magics[k], Ticks(f)).real_magic = p.magics[k].real_magic
          /\ heatup(cooldown(p.magics[k], Ticks(f))).real_magic = p.magics[k].real_magic
      BY Zenon, <3>1, <3>2
    <3> HIDE DEF p, q
    <3> QED BY Zenon, <3>3, <3>4
  <2> HIDE DEF p, q
  <2>5. Harmful(q)
    BY <2>1, <2>2, <2>3, <2>4 DEF Harmful
  <2>6. q.team = p.team /\ (q.stats.hp = p.stats.hp \/ q.stats.hp = p.stats.hp - x)
    BY <2>1 DEF Moved, p
  <2>7. p.stats.hp \in Int
    BY <2>1, FighterStats
  <2> QED BY <2>5, <2>6, <2>7 DEF p, q
<1>5. \A i \in 1..n : g.all[i].team = 0 => g.all[i].stats.hp <= max
  <2> SUFFICES ASSUME NEW i \in 1..n, g.all[i].team = 0 PROVE g.all[i].stats.hp <= max
    OBVIOUS
  <2>1. f.all[i].stats.hp <= max /\ max \in Int
    BY <1>2, <1>4 DEF Wounded
  <2>2. \A u, v \in Int : \A w \in Nat : u <= v => u - w <= v
    OBVIOUS
  <2> QED BY <1>1, <1>4, <2>1, <2>2
<1>6. \A i, j \in 1..n : g.all[i].team = 0 /\ g.all[j].team = 0 => i = j
  BY <1>2, <1>4 DEF Wounded
<1>7. Fighting(g)
  BY <1>3 DEF Fighting
<1>8. max \in Int /\ max > 0
  BY DEF Wounded
<1>9. Wounded(g, max)
  BY <1>3, <1>4, <1>5, <1>6, <1>7, <1>8 DEF Wounded
<1> QED BY <1>9 DEF g

(* What the integer division comes to for hp no larger than max.           *)
LEMMA DelayFacts ==
    ASSUME NEW max \in Int, max > 0, NEW hp \in Int, hp <= max, NEW ticks \in Nat
    PROVE  fight_delay(max, hp, ticks) = ticks * FightTick + IF hp <= 0 THEN 100 * PerHp ELSE 0
<1>1. CASE hp <= 0
  <2>1. max \div max = 1
    OBVIOUS
  <2>2. TruncDiv(max - 0, max) = 1
    BY <2>1 DEF TruncDiv
  <2> QED BY <1>1, <2>2 DEF fight_delay, PerHp, FightTick
<1>2. CASE hp > 0
  <2>1. max - hp >= 0 /\ max - hp < max /\ max - hp \in Nat
    BY <1>2
  <2>2. \A y, s \in Nat : y < s => y \div s = 0
    OBVIOUS
  <2>3. TruncDiv(max - hp, max) = 0
    BY <2>1, <2>2 DEF TruncDiv
  <2> QED BY <1>2, <2>3 DEF fight_delay, PerHp, FightTick
<1> QED BY <1>1, <1>2

(* At the start the player has the hp that max_hp records.                 *)
LEMMA InitWounds == Init /\ FitToFight /\ HarmOnly => Wounded(server, max_hp)
<1> SUFFICES ASSUME Init, FitToFight, HarmOnly PROVE Wounded(server, max_hp)
  OBVIOUS
<1>0. PICK n \in Nat : \E p : Begun(n, p)
  BY InitFighters
<1>1. PICK p :
              /\ n > 0 /\ Permutes(p, n)
              /\ DOMAIN server = {"all", "team_alive_count", "elapsed", "result", "delay"}
              /\ server.all \in [1..n -> Fighter]
              /\ server.team_alive_count = [t \in {0, 1} |-> IF t = 0 THEN 1 ELSE n - 1]
              /\ server.elapsed = 0 /\ Fighting(server)
              /\ \A i \in 1..n : /\ server.all[i].progress = 0
                                 /\ server.all[i].team = IF p[i] = 1 THEN 0 ELSE 1
                                 /\ p[i] = 1 => max_hp = server.all[i].stats.hp
              /\ cast_at = [i \in 1..n |-> [k \in DOMAIN server.all[i].magics |-> Never]]
  BY <1>0 DEF Begun
<1>2. DOMAIN server.all = 1..n /\ \A i \in 1..n : server.all[i] \in Fighter
  BY <1>1
<1>3. \A i, j \in 1..n : p[i] = p[j] => i = j
  BY <1>1 DEF Permutes
<1>4. \A i \in 1..n : server.all[i].team = 0 => p[i] = 1
  BY <1>1
<1>5. PICK j \in 1..n : p[j] = 1
  BY <1>1 DEF Permutes
<1>6. max_hp = server.all[j].stats.hp /\ server.all[j].stats.hp \in Int
  BY <1>1, <1>2, <1>5, FighterStats
<1>7. max_hp \in Int /\ max_hp > 0
  BY <1>2, <1>6 DEF FitToFight
<1>8. \A i \in 1..n : server.all[i].team = 0 => server.all[i].stats.hp <= max_hp
  BY <1>3, <1>4, <1>5, <1>6, <1>7
<1>9. \A i, k \in 1..n : server.all[i].team = 0 /\ server.all[k].team = 0 => i = k
  BY <1>3, <1>4
<1> QED BY <1>1, <1>2, <1>7, <1>8, <1>9 DEF Wounded, HarmOnly

(* Every step keeps Wounded.                                               *)
LEMMA NextWounds ==
    Course /\ Wounded(server, max_hp) /\ [Next]_vars => Wounded(server, max_hp)'
<1> SUFFICES ASSUME Course, Wounded(server, max_hp), [Next]_vars
             PROVE  Wounded(server', max_hp')
  OBVIOUS
<1>1. PICK n \in Nat : Fit(server, n) /\ Alive(server) # {}
  BY DEF Course, GoesOn
<1>2. CASE Turn
  <2>1. PICK numbers \in Drawn(server) : server' = AfterTurn(server, numbers)
    BY <1>2 DEF Turn
  <2>2. Fighting(server) /\ max_hp' = max_hp
    BY <1>2 DEF Turn
  <2>3. Wounded(AfterTurn(server, numbers), max_hp)
    BY <1>1, <2>2, TurnWounds
  <2> QED BY <2>1, <2>2, <2>3
<1>3. CASE Finish
  <2> DEFINE g == AfterEnd(server)
  <2>1. server' = g /\ max_hp' = max_hp
    BY <1>3 DEF Finish
  <2>2. /\ g.all = server.all /\ g.elapsed = server.elapsed
        /\ g.delay = fight_delay(max_hp, server.all[1].stats.hp, server.elapsed)
    BY <1>1 DEF AfterEnd, Fit
  <2> HIDE DEF g
  <2>3. Wounded(g, max_hp)
    BY <2>2 DEF Wounded
  <2> QED BY <2>1, <2>3
<1>4. CASE UNCHANGED <<server, max_hp>>
  BY <1>4
<1>5. Turn \/ Finish \/ UNCHANGED <<server, max_hp>>
  BY DEF Next, ReplayTurn, ReplayEnd, vars
<1> QED BY <1>2, <1>3, <1>4, <1>5

(***************************************************************************)
(* Where no attack heals, the delay of a player that no enemy is slower    *)
(* than stays within its bounds, whatever the last hit did to its hp.      *)
(***************************************************************************)
THEOREM FightDelayWithinBounds == FitSpec /\ HarmOnly => []DelayWithinBounds
<1>1. Course /\ Wounded(server, max_hp) => DelayWithinBounds
  <2> DEFINE forHp == server.delay - server.elapsed * FightTick
  <2> SUFFICES ASSUME Course, Wounded(server, max_hp),
                      ~ Fighting(server), server.all[1].team = 0
               PROVE  /\ 0 <= forHp /\ forHp <= 100 * PerHp
                      /\ Standing(server, 0) = {} => forHp = 100 * PerHp
    BY DEF DelayWithinBounds
  <2>1. PICK n \in Nat : Fit(server, n) /\ Alive(server) # {}
    BY DEF Course, GoesOn
  <2>2. DOMAIN server.all = 1..n /\ (\A i \in 1..n : server.all[i] \in Fighter)
        /\ server.elapsed \in Nat
    BY <2>1 DEF Fit
  <2>3. 1 \in 1..n
    BY <2>1, <2>2 DEF Alive
  <2> DEFINE hp == server.all[1].stats.hp
  <2>4. hp \in Int
    BY <2>2, <2>3, FighterStats
  <2>5. hp <= max_hp /\ max_hp \in Int /\ max_hp > 0
    BY <2>2, <2>3 DEF Wounded
  <2>6. Standing(server, 0) = {} <=> hp <= 0
    <3>1. \A i \in 1..n : server.all[i].team = 0 => i = 1
      BY <2>2, <2>3 DEF Wounded
    <3>2. Standing(server, 0) = {i \in {1} : hp > 0}
      BY <2>2, <2>3, <3>1 DEF Standing, Alive
    <3> HIDE DEF hp
    <3> QED BY <2>4, <3>2
  <2>7. server.delay = fight_delay(max_hp, hp, server.elapsed)
    BY DEF Wounded
  <2> HIDE DEF hp
  <2>8. fight_delay(max_hp, hp, server.elapsed) =
            server.elapsed * FightTick + IF hp <= 0 THEN 100 * PerHp ELSE 0
    BY <2>2, <2>4, <2>5, DelayFacts
  <2>9. forHp = IF hp <= 0 THEN 100 * PerHp ELSE 0
    BY <2>2, <2>7, <2>8 DEF FightTick, PerHp
  <2> HIDE DEF forHp
  <2> QED BY <2>6, <2>9 DEF PerHp
<1>2. FitSpec /\ HarmOnly => []Wounded(server, max_hp)
  BY InitWounds, NextWounds, FightCourse, PTL DEF FitSpec, FitInit
<1> QED BY <1>1, <1>2, FightCourse, PTL
=============================================================================
