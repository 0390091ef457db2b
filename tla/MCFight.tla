------------------------------ MODULE MCFight -------------------------------
(***************************************************************************)
(* Instances of Fight for TLC.                                             *)
(***************************************************************************)
EXTENDS Fight

(* What message_createchar::validate lets through.                         *)
CreatecharAttrs ==
    {a \in [strength : 0..5, dexterity : 0..5, physique : 0..5, spirit : 0..5] :
        a.strength + a.dexterity + a.physique + a.spirit <= 5}

(* Characters that can move and are alive when the fight begins.           *)
Fit == {a \in CreatecharAttrs : a.dexterity > 0 /\ a.physique > 0}

(* Characters that can move.                                               *)
Mobile == {a \in CreatecharAttrs : a.dexterity > 0}

Spell(id, cd, cost, multiplier, inner, property, hp, speed) ==
    [id |-> id, cd |-> cd, mp_cost |-> cost, multiplier |-> multiplier,
     inner_damage |-> inner, inner_property |-> property,
     stats |-> [NoStats EXCEPT !.hp = hp, !.speed = speed]]

Strike == Spell(1, 400, 4, 300, 0, "gold_res", 0, 2)
Curse  == Spell(3, 300, 2, 250, 1, "unknown", 0, 0)
Flame  == Spell(2, 150, 0, 50, 9, "fire_res", 2, 0)

Books ==
    {[magics |-> <<>>, equipped |-> <<>>],
     [magics |-> <<Strike, Flame>>, equipped |-> <<2>>],
     [magics |-> <<Strike, Flame>>, equipped |-> <<2, 1>>]}

Foe(hp, speed, attack, resistance, magics) ==
    [attrs |-> [strength |-> 0, dexterity |-> speed, physique |-> 0, spirit |-> 1],
     stats |-> [NoStats EXCEPT !.hp = hp, !.attack_min = attack,
                               !.attack_max = attack + 1, !.fire_res = resistance],
     active_magic |-> magics,
     equipments |-> <<[stats |-> [NoStats EXCEPT !.defence = 5]]>>]

(* One enemy, as prep_fight builds it, or two, as fight's constructor      *)
(* allows; slower and faster than the player, with and without magics.     *)
Enemies1 ==
    {<<Foe(8, 1, 7, 20, <<>>)>>, <<Foe(6, 7, 5, 0, <<Curse>>)>>}
Enemies2 ==
    {<<Foe(5, 2, 6, 0, <<>>), Foe(4, 3, 6, 50, <<>>)>>}
SomeFoes == Enemies1 \cup Enemies2
=============================================================================
