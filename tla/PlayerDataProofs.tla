-------------------------- MODULE PlayerDataProofs --------------------------
(***************************************************************************)
(* Proofs about PlayerData: whatever the requests, crashes and late        *)
(* statements, server and client keep the same lists without duplicates;   *)
(* while no database call failed, these are also what the tables hold.     *)
(* Where a fusion may have its primary behind the secondary (AnyFuse) this *)
(* is false (run player_data_fuse), so only the types are proved for it.   *)
(***************************************************************************)
EXTENDS PlayerData, ListsProofs, SequenceTheorems, FiniteSetTheorems, TLAPS

(* No id twice.                                                            *)
Distinct(seq) == \A i, j \in DOMAIN seq : seq[i].id = seq[j].id => i = j

-----------------------------------------------------------------------------
(* Lists of magics.                                                        *)

(* Positions and elements of a list.                                       *)
LEMMA SeqFacts ==
    ASSUME NEW S, NEW seq \in Seq(S)
    PROVE  /\ Len(seq) \in Nat /\ DOMAIN seq = 1..Len(seq)
           /\ \A k \in 1..Len(seq) : seq[k] \in S
OBVIOUS

(* An id of a list is the id of one of its positions.                      *)
LEMMA InIds ==
    ASSUME NEW seq \in Seq(Magic), NEW id
    PROVE  /\ id \in Ids(seq) <=> \E k \in 1..Len(seq) : seq[k].id = id
           /\ Ids(seq) \subseteq MagicIds
<1>1. DOMAIN seq = 1..Len(seq) /\ \A k \in 1..Len(seq) : seq[k] \in Magic
  BY SeqFacts
<1>2. Ids(seq) = {m.id : m \in {seq[k] : k \in 1..Len(seq)}}
  BY <1>1 DEF Ids, Range
<1>3. \A m \in Magic : m.id \in MagicIds
  BY DEF Magic
<1> QED BY <1>1, <1>2, <1>3

(* find_if finds the only magic with its id.                               *)
LEMMA FindOnly ==
    ASSUME NEW seq \in Seq(Magic), Distinct(seq), NEW i \in 1..Len(seq)
    PROVE  Find(seq, seq[i].id) = i
<1> DEFINE P == {k \in DOMAIN seq : seq[k].id = seq[i].id}
<1>1. DOMAIN seq = 1..Len(seq) /\ Len(seq) \in Nat
  BY SeqFacts
<1>2. P = {i}
  BY <1>1 DEF Distinct
<1>3. Find(seq, seq[i].id) = IF P = {} THEN 0 ELSE CHOOSE k \in P : \A l \in P : k <= l
  BY DEF Find
<1> HIDE DEF P
<1>4. \A k \in P : k = i
  BY <1>2
<1>5. i \in P /\ \A l \in P : i <= l
  BY <1>1, <1>2
<1>6. (CHOOSE k \in P : \A l \in P : k <= l) \in P
  BY <1>5
<1> QED BY <1>3, <1>4, <1>5, <1>6

(* find_if finds a magic that is there.                                    *)
LEMMA FindSome ==
    ASSUME NEW seq \in Seq(Magic), NEW id \in Ids(seq)
    PROVE  Find(seq, id) \in 1..Len(seq) /\ seq[Find(seq, id)].id = id
<1> DEFINE P == {k \in DOMAIN seq : seq[k].id = id}
<1>1. DOMAIN seq = 1..Len(seq) /\ Len(seq) \in Nat
  BY SeqFacts
<1>2. P # {} /\ P \subseteq 1..Len(seq) /\ P \subseteq Nat /\ \A k \in P : seq[k].id = id
  BY <1>1, InIds
<1>3. Find(seq, id) = IF P = {} THEN 0 ELSE CHOOSE k \in P : \A l \in P : k <= l
  BY DEF Find
<1> HIDE DEF P
<1>4. \E k \in P : \A l \in P : k <= l
  BY <1>2, Smallest
<1>5. (CHOOSE k \in P : \A l \in P : k <= l) \in P
  BY <1>4
<1> QED BY <1>2, <1>3, <1>5

(* The elements of a selection.                                            *)
LEMMA SelectRange ==
    ASSUME NEW S, NEW seq \in Seq(S), NEW K, K \subseteq DOMAIN seq
    PROVE  Range(Select(seq, K)) = {seq[k] : k \in K}
<1> DEFINE r == Select(seq, K)
<1>1. r \in Seq(S) /\ DOMAIN r = 1..Len(r) /\ DOMAIN seq = 1..Len(seq)
  BY SelectEnumerates, SeqFacts
<1>2. PICK e : Enumerates(e, r, seq, K, Len(seq))
  BY SelectEnumerates
<1> HIDE DEF r
<1>3. ASSUME NEW i \in 1..Len(r) PROVE \E k \in K : r[i] = seq[k]
  BY <1>2 DEF Enumerates
<1>4. ASSUME NEW k \in K PROVE \E i \in 1..Len(r) : r[i] = seq[k]
  <2>1. PICK i \in 1..Len(r) : e[i] = k
    BY <1>1, <1>2 DEF Enumerates
  <2> QED BY <1>2, <2>1 DEF Enumerates
<1>5. Range(r) = {r[i] : i \in 1..Len(r)}
  BY <1>1 DEF Range
<1>6. Range(r) = {seq[k] : k \in K}
  <2> DEFINE T == {seq[k] : k \in K}
  <2>1. \A x \in Range(r) : x \in T
    BY <1>3, <1>5
  <2>2. \A x \in T : x \in Range(r)
    BY <1>4, <1>5
  <2> HIDE DEF T
  <2>3. Range(r) = T
    BY <2>1, <2>2
  <2> QED BY <2>3 DEF T
<1> QED BY <1>6 DEF r

(* Choosing from a list brings in no duplicates.                           *)
LEMMA SelectDistinct ==
    ASSUME NEW seq \in Seq(Magic), Distinct(seq), NEW K
    PROVE  Distinct(Select(seq, K))
<1> DEFINE r == Select(seq, K)
<1>1. r \in Seq(Magic) /\ DOMAIN r = 1..Len(r) /\ DOMAIN seq = 1..Len(seq) /\ Len(r) \in Nat
  BY SelectEnumerates, SeqFacts
<1>2. PICK e : Enumerates(e, r, seq, K, Len(seq))
  BY SelectEnumerates
<1> HIDE DEF r
<1>3. ASSUME NEW i \in 1..Len(r), NEW j \in 1..Len(r), r[i].id = r[j].id PROVE i = j
  <2>1. /\ e[i] \in 1..Len(seq) /\ e[j] \in 1..Len(seq)
        /\ r[i] = seq[e[i]] /\ r[j] = seq[e[j]]
    BY <1>2 DEF Enumerates
  <2>2. e[i] = e[j]
    BY <1>1, <1>3, <2>1 DEF Distinct
  <2>3. /\ i < j => e[i] < e[j]
        /\ j < i => e[j] < e[i]
    BY <1>2 DEF Enumerates
  <2>4. Len(seq) \in Nat
    BY SeqFacts
  <2> QED BY <1>1, <2>1, <2>2, <2>3, <2>4
<1>4. Distinct(r)
  BY <1>1, <1>3 DEF Distinct
<1> QED BY <1>4 DEF r

(* Unequipping takes out one id and keeps the others.                      *)
LEMMA UnequipFacts ==
    ASSUME NEW ids \in Seq(MagicIds), NEW id
    PROVE  /\ Unequip(ids, id) \in Seq(MagicIds)
           /\ Range(Unequip(ids, id)) = Range(ids) \ {id}
<1> DEFINE K == {k \in DOMAIN ids : ids[k] # id}
<1>1. Unequip(ids, id) = Select(ids, K)
  BY DEF Unequip
<1>2. K \subseteq DOMAIN ids
  OBVIOUS
<1>3. Range(ids) \ {id} = {ids[k] : k \in K}
  BY DEF Range
<1> HIDE DEF K
<1>4. Select(ids, K) \in Seq(MagicIds)
  BY SelectEnumerates
<1>5. Range(Select(ids, K)) = {ids[k] : k \in K}
  BY <1>2, SelectRange
<1> QED BY <1>1, <1>3, <1>4, <1>5

(* A magic that is not in the list is appended without making duplicates.  *)
LEMMA AppendFacts ==
    ASSUME NEW seq \in Seq(Magic), Distinct(seq), NEW m \in Magic, m.id \notin Ids(seq)
    PROVE  /\ Append(seq, m) \in Seq(Magic)
           /\ Distinct(Append(seq, m))
           /\ Range(Append(seq, m)) = Range(seq) \cup {m}
<1> DEFINE new == Append(seq, m)
<1> DEFINE L == Len(seq)
<1>1. /\ new \in Seq(Magic) /\ DOMAIN new = 1..(L + 1) /\ DOMAIN seq = 1..L /\ L \in Nat
      /\ new[L + 1] = m /\ \A k \in 1..L : new[k] = seq[k]
  BY SeqFacts
<1> HIDE DEF new, L
<1>2. \A k \in 1..(L + 1) : k \in 1..L \/ k = L + 1
  BY <1>1
<1>3. \A k \in 1..L : seq[k].id # m.id
  BY InIds DEF L
<1>4. \A i, j \in 1..L : seq[i].id = seq[j].id => i = j
  BY <1>1 DEF Distinct
<1>5. Distinct(new)
  BY <1>1, <1>2, <1>3, <1>4 DEF Distinct
<1>6. Range(new) = {new[k] : k \in 1..(L + 1)} /\ Range(seq) = {seq[k] : k \in 1..L}
  BY <1>1 DEF Range
<1>7. L + 1 \in 1..(L + 1) /\ 1..L \subseteq 1..(L + 1)
  BY <1>1
<1>8. Range(new) = Range(seq) \cup {m}
  BY <1>1, <1>2, <1>6, <1>7
<1> QED BY <1>1, <1>5, <1>8 DEF new

(* What a fusion of i and j into m keeps.                                  *)
Kept(seq, i, j, m) == {seq[k] : k \in (1..Len(seq)) \ {i, j}} \cup {m}

(* A fusion with the primary at i, before the secondary at j: the server's *)
(* iterator still denotes the primary, and the client does the same.       *)
LEMMA FuseFacts ==
    ASSUME NEW seq \in Seq(Magic), Distinct(seq),
           NEW i \in 1..Len(seq), NEW j \in 1..Len(seq), i < j,
           NEW m \in Magic, m.id = seq[i].id
    PROVE  LET new == FuseInMemory(seq, m, seq[j].id)
           IN  /\ new \in Seq(Magic)
               /\ Distinct(new)
               /\ Range(new) = Kept(seq, i, j, m)
               /\ \A ids : ClientFuse([magics |-> seq, equipped_magic_ids |-> ids], m, seq[j].id)
                             = [magics |-> new,
                                equipped_magic_ids |-> Unequip(ids, seq[j].id)]
<1> DEFINE L == Len(seq)
<1> DEFINE K == {k \in DOMAIN seq : seq[k].id # seq[j].id}
<1> DEFINE r == Without(seq, seq[j].id)
<1>1. L \in Nat /\ DOMAIN seq = 1..L /\ \A k \in 1..L : seq[k] \in Magic
  BY SeqFacts
<1>2. r = Select(seq, K)
  BY DEF Without
<1>3. K = (1..L) \ {j}
  BY <1>1 DEF Distinct
<1>4. 1..i \subseteq K /\ i \in 0..Len(seq)
  BY <1>1, <1>3
<1> HIDE DEF K, r
<1>5. r \in Seq(Magic)
  BY <1>2, SelectEnumerates
<1>6. i <= Len(r) /\ \A k \in 1..i : r[k] = seq[k]
  BY <1>2, <1>4, SelectPrefix
<1>7. Distinct(r)
  BY <1>2, SelectDistinct
<1>8. Range(r) = {seq[k] : k \in (1..L) \ {j}}
  BY <1>1, <1>2, <1>3, SelectRange
<1>9. Len(r) \in Nat /\ DOMAIN r = 1..Len(r) /\ \A k \in 1..Len(r) : r[k] \in Magic
  BY <1>5, SeqFacts
<1>10. i \in 1..Len(r) /\ r[i] = seq[i] /\ r[i].id = m.id
  BY <1>6, <1>9
<1>11. Find(seq, m.id) = i
  BY FindOnly
<1>12. Find(r, m.id) = i
  BY <1>5, <1>7, <1>10, FindOnly
<1> DEFINE new == [r EXCEPT ![i] = m]
<1>13. FuseInMemory(seq, m, seq[j].id) = new
  BY <1>6, <1>11 DEF FuseInMemory, r
<1>14. /\ new \in Seq(Magic) /\ DOMAIN new = 1..Len(r) /\ new[i] = m
       /\ \A k \in 1..Len(r) : k # i => new[k] = r[k]
  <2>1. /\ DOMAIN new = 1..Len(r) /\ new = [k \in 1..Len(r) |-> new[k]] /\ new[i] = m
        /\ \A k \in 1..Len(r) : k # i => new[k] = r[k]
    BY <1>9, <1>10
  <2> HIDE DEF new
  <2>2. \A k \in 1..Len(r) : new[k] \in Magic
    BY <1>9, <2>1
  <2>3. [k \in 1..Len(r) |-> new[k]] \in Seq(Magic)
    BY <1>9, <2>2, IsASeq
  <2> QED BY <2>1, <2>3
<1> HIDE DEF new
<1>15. Distinct(new)
  <2>1. \A k \in 1..Len(r) : new[k].id = r[k].id
    BY <1>10, <1>14
  <2> QED BY <1>7, <1>9, <1>14, <2>1 DEF Distinct
<1>16. Range(new) = Kept(seq, i, j, m)
  <2> DEFINE T == {seq[k] : k \in (1..L) \ {i, j}}
  <2>1. Range(new) = {new[k] : k \in 1..Len(r)} /\ Range(r) = {r[k] : k \in 1..Len(r)}
    BY <1>9, <1>14 DEF Range
  <2>2. ASSUME NEW k \in 1..Len(r), k # i PROVE new[k] \in T
    <3>1. PICK l \in (1..L) \ {j} : r[k] = seq[l]
      BY <1>8, <2>1
    <3>2. l # i
      BY <1>7, <1>9, <1>10, <2>2, <3>1 DEF Distinct
    <3> QED BY <1>14, <2>2, <3>1, <3>2
  <2>3. ASSUME NEW l \in (1..L) \ {i, j} PROVE seq[l] \in Range(new)
    <3>1. PICK k \in 1..Len(r) : r[k] = seq[l]
      BY <1>8, <2>1
    <3>2. k # i
      BY <1>1, <1>10, <3>1 DEF Distinct
    <3> QED BY <1>14, <2>1, <3>1, <3>2
  <2>4. m \in Range(new)
    BY <1>10, <1>14, <2>1
  <2>5. \A x \in Range(new) : x \in T \cup {m}
    BY <1>14, <2>1, <2>2
  <2>6. \A x \in T : x \in Range(new)
    BY <2>3
  <2> HIDE DEF T
  <2>7. Range(new) = T \cup {m}
    BY <2>4, <2>5, <2>6
  <2> QED BY <2>7 DEF T, Kept
<1>17. ASSUME NEW ids
       PROVE  ClientFuse([magics |-> seq, equipped_magic_ids |-> ids], m, seq[j].id)
                = [magics |-> new, equipped_magic_ids |-> Unequip(ids, seq[j].id)]
  <2>1. i # 0
    BY <1>10
  <2> QED BY <1>12, <2>1 DEF ClientFuse, new, r
<1> QED BY <1>13, <1>14, <1>15, <1>16, <1>17 DEF L

(* Ids and magics of a list without duplicates, counted.                   *)
LEMMA DistinctCount ==
    ASSUME NEW seq \in Seq(Magic), Distinct(seq)
    PROVE  /\ Cardinality(Ids(seq)) = Len(seq)
           /\ Cardinality(Range(seq)) = Len(seq)
<1> DEFINE L == Len(seq)
<1>1. L \in Nat /\ DOMAIN seq = 1..L
  BY SeqFacts
<1>2. IsFiniteSet(1..L) /\ Cardinality(1..L) = L
  BY <1>1, FS_Interval
<1> DEFINE f == [k \in 1..L |-> seq[k].id]
<1>3. f \in Bijection(1..L, Ids(seq))
  <2>1. \A k \in 1..L : f[k] \in Ids(seq)
    BY InIds
  <2>2. \A a, b \in 1..L : f[a] = f[b] => a = b
    BY <1>1 DEF Distinct
  <2>3. \A id \in Ids(seq) : \E k \in 1..L : f[k] = id
    BY InIds
  <2> QED BY <2>1, <2>2, <2>3 DEF Bijection, Injection, Surjection, IsInjective
<1> DEFINE g == [k \in 1..L |-> seq[k]]
<1>4. g \in Bijection(1..L, Range(seq))
  <2>1. Range(seq) = {seq[k] : k \in 1..L}
    BY <1>1 DEF Range
  <2>2. \A a, b \in 1..L : g[a] = g[b] => a = b
    BY <1>1 DEF Distinct
  <2> QED BY <2>1, <2>2 DEF Bijection, Injection, Surjection, IsInjective
<1> HIDE DEF f, g, L
<1>5. Cardinality(Ids(seq)) = L
  BY <1>2, <1>3, FS_Bijection DEF ExistsBijection
<1>6. Cardinality(Range(seq)) = L
  BY <1>2, <1>4, FS_Bijection DEF ExistsBijection
<1> QED BY <1>5, <1>6 DEF L

-----------------------------------------------------------------------------
(* Rows of the table player_magic.                                         *)

Table == [MagicIds -> {NoRow} \cup 0..MaxVersion]
RowsOf(table) == {m \in Magic : table[m.id] = m.version}

(* The table has finitely many rows.                                       *)
LEMMA RowsFinite ==
    ASSUME NEW table \in Table
    PROVE  IsFiniteSet(RowsOf(table))
<1> DEFINE f == [m \in RowsOf(table) |-> m.id]
<1>1. f \in [RowsOf(table) -> MagicIds]
  BY DEF RowsOf, Magic
<1>2. ASSUME NEW a \in RowsOf(table), NEW b \in RowsOf(table), f[a] = f[b] PROVE a = b
  BY <1>2 DEF RowsOf, Magic
<1>3. f \in Injection(RowsOf(table), MagicIds)
  BY <1>1, <1>2 DEF Injection, IsInjective
<1> HIDE DEF f
<1> QED BY <1>3, FS_Injection, MagicAssumption

(* Whatever the order in which get_aux receives the rows.                  *)
LEMMA OrdersFacts ==
    ASSUME NEW table \in Table, NEW q \in Orders(RowsOf(table))
    PROVE  q \in Seq(Magic) /\ Distinct(q) /\ Range(q) = RowsOf(table)
<1> DEFINE S == RowsOf(table)
<1> DEFINE C == Cardinality(S)
<1>1. IsFiniteSet(S) /\ C \in Nat
  BY RowsFinite, FS_CardinalityType
<1>2. S \subseteq Magic /\ \A a, b \in S : a.id = b.id => a = b
  BY DEF RowsOf, Magic
<1> HIDE DEF S
<1>3. PICK n \in 0..C : q \in [1..n -> S]
  BY DEF Orders, S
<1>4. Range(q) = S /\ Len(q) = C
  BY DEF Orders, S
<1>5. q \in Seq(Magic)
  <2>1. q = [k \in 1..n |-> q[k]] /\ \A k \in 1..n : q[k] \in Magic
    BY <1>2, <1>3
  <2>2. n \in Nat
    BY <1>1, <1>3
  <2>3. [k \in 1..n |-> q[k]] \in Seq(Magic)
    BY <2>1, <2>2, IsASeq
  <2> QED BY <2>1, <2>3
<1>6. DOMAIN q = 1..C
  BY <1>4, <1>5, SeqFacts
<1>7. q \in [1..C -> S]
  BY <1>3, <1>6
<1>8. q \in Surjection(1..C, S)
  <2>1. S = {q[k] : k \in 1..C}
    BY <1>4, <1>6 DEF Range
  <2> QED BY <1>7, <2>1 DEF Surjection
<1>9. IsFiniteSet(1..C) /\ Cardinality(1..C) = C
  BY <1>1, FS_Interval
<1>10. q \in Injection(1..C, S)
  BY <1>8, <1>9, FS_SurjSameCardinalityImpliesInj
<1>11. \A a, b \in 1..C : q[a] = q[b] => a = b
  BY <1>10 DEF Injection, IsInjective
<1>12. Distinct(q)
  BY <1>2, <1>6, <1>7, <1>11 DEF Distinct
<1> QED BY <1>4, <1>5, <1>12 DEF S

(* The INSERT of learnmagic adds one row.                                  *)
LEMMA LearnRows ==
    ASSUME NEW table \in Table, NEW id \in MagicIds, table[id] = NoRow
    PROVE  LET new == [table EXCEPT ![id] = 0]
           IN  new \in Table /\ RowsOf(new) = RowsOf(table) \cup {[id |-> id, version |-> 0]}
<1> DEFINE new == [table EXCEPT ![id] = 0]
<1> DEFINE m == [id |-> id, version |-> 0]
<1>1. MaxVersion \in Nat
  BY MagicAssumption
<1>2. new \in Table
  BY <1>1 DEF Table
<1>3. new[id] = 0 /\ \A x \in MagicIds : x # id => new[x] = table[x]
  BY DEF Table
<1>4. m \in Magic /\ \A x \in Magic : x.id = id /\ x.version = 0 => x = m
  BY <1>1 DEF Magic
<1>5. \A x \in Magic : x.id \in MagicIds /\ x.version # NoRow
  BY <1>1 DEF Magic, NoRow
<1> HIDE DEF new
<1>6. ASSUME NEW x \in Magic
      PROVE  new[x.id] = x.version <=> table[x.id] = x.version \/ x = m
  <2>1. CASE x.id = id
    BY <1>3, <1>4, <1>5, <2>1
  <2>2. CASE x.id # id
    BY <1>3, <1>5, <2>2
  <2> QED BY <2>1, <2>2
<1> HIDE DEF m
<1>7. RowsOf(new) = RowsOf(table) \cup {m}
  BY <1>4, <1>6 DEF RowsOf
<1> QED BY <1>2, <1>7 DEF new, m

Fused(table, magic, secondary) ==
    [[table EXCEPT ![magic.id] = IF @ = NoRow THEN NoRow ELSE magic.version]
        EXCEPT ![secondary] = NoRow]

(* What the UPDATE and the DELETE of a fusion do to each row.              *)
LEMMA FusedFacts ==
    ASSUME NEW table \in Table, NEW m \in Magic, NEW s \in MagicIds
    PROVE  LET new == Fused(table, m, s)
           IN  /\ new \in Table
               /\ new[s] = NoRow
               /\ m.id # s /\ table[m.id] # NoRow => new[m.id] = m.version
               /\ \A x \in MagicIds : x # m.id /\ x # s => new[x] = table[x]
<1>1. MaxVersion \in Nat
  BY MagicAssumption
<1>2. m.id \in MagicIds /\ m.version \in 0..MaxVersion
  BY DEF Magic
<1> DEFINE v == IF table[m.id] = NoRow THEN NoRow ELSE m.version
<1> DEFINE first == [table EXCEPT ![m.id] = v]
<1>3. v \in {NoRow} \cup 0..MaxVersion /\ (table[m.id] # NoRow => v = m.version)
  BY <1>2
<1> HIDE DEF v
<1>4. first \in Table /\ first[m.id] = v /\ \A x \in MagicIds : x # m.id => first[x] = table[x]
  BY <1>2, <1>3 DEF Table
<1> HIDE DEF first
<1>5. Fused(table, m, s) = [first EXCEPT ![s] = NoRow]
  BY DEF Fused, first, v
<1> DEFINE new == [first EXCEPT ![s] = NoRow]
<1>6. new \in Table /\ new[s] = NoRow /\ \A x \in MagicIds : x # s => new[x] = first[x]
  BY <1>4 DEF Table
<1> HIDE DEF new
<1> QED BY <1>2, <1>3, <1>4, <1>5, <1>6 DEF new

(* A fusion leaves in the table what it leaves in the list.                *)
LEMMA FuseRows ==
    ASSUME NEW table \in Table, NEW seq \in Seq(Magic), Distinct(seq),
           Range(seq) = RowsOf(table),
           NEW i \in 1..Len(seq), NEW j \in 1..Len(seq), i < j,
           NEW m \in Magic, m.id = seq[i].id
    PROVE  RowsOf(Fused(table, m, seq[j].id)) = Kept(seq, i, j, m)
<1> DEFINE s == seq[j].id
<1> DEFINE new == Fused(table, m, s)
<1> DEFINE T == {seq[k] : k \in (1..Len(seq)) \ {i, j}}
<1>1. /\ Len(seq) \in Nat /\ DOMAIN seq = 1..Len(seq)
      /\ \A k \in 1..Len(seq) : seq[k] \in Magic
  BY SeqFacts
<1>2. Range(seq) = {seq[k] : k \in 1..Len(seq)}
  BY <1>1 DEF Range
<1>3. \A k \in 1..Len(seq) : seq[k] \in RowsOf(table)
  BY <1>2
<1>4. \A x \in Magic : x.id \in MagicIds /\ x.version # NoRow
  BY MagicAssumption DEF Magic, NoRow
<1>5. i # j /\ m.id # s /\ s \in MagicIds
  BY <1>1, <1>4 DEF Distinct
<1>6. table[m.id] # NoRow
  <2>1. seq[i] \in Magic /\ table[seq[i].id] = seq[i].version
    BY <1>3 DEF RowsOf
  <2> QED BY <1>4, <2>1
<1>7. /\ new[s] = NoRow /\ new[m.id] = m.version
      /\ \A x \in MagicIds : x # m.id /\ x # s => new[x] = table[x]
  BY <1>5, <1>6, FusedFacts
<1> HIDE DEF new
<1>8. ASSUME NEW x \in RowsOf(new) PROVE x \in T \cup {m}
  <2>1. x \in Magic /\ new[x.id] = x.version /\ x.id # s
    BY <1>4, <1>7 DEF RowsOf
  <2>2. CASE x.id = m.id
    <3>1. x = m
      BY <1>7, <2>1, <2>2 DEF Magic
    <3> QED BY <3>1
  <2>3. CASE x.id # m.id
    <3>1. x \in RowsOf(table)
      BY <1>4, <1>7, <2>1, <2>3 DEF RowsOf
    <3>2. PICK k \in 1..Len(seq) : x = seq[k]
      BY <1>2, <3>1
    <3>3. k # i /\ k # j
      BY <2>1, <2>3, <3>2
    <3> QED BY <3>2, <3>3
  <2> QED BY <2>2, <2>3
<1>9. ASSUME NEW k \in (1..Len(seq)) \ {i, j} PROVE seq[k] \in RowsOf(new)
  <2>1. seq[k] \in Magic /\ table[seq[k].id] = seq[k].version
    BY <1>3 DEF RowsOf
  <2>2. seq[k].id # m.id /\ seq[k].id # s
    BY <1>1 DEF Distinct
  <2> QED BY <1>4, <1>7, <2>1, <2>2 DEF RowsOf
<1>10. m \in RowsOf(new)
  BY <1>7 DEF RowsOf
<1>11. \A x \in T : x \in RowsOf(new)
  BY <1>9
<1> HIDE DEF T
<1>12. RowsOf(new) = T \cup {m}
  BY <1>8, <1>10, <1>11
<1> QED BY <1>12 DEF new, T, Kept

-----------------------------------------------------------------------------
(* Types.                                                                  *)

(* What a request carries.                                                 *)
LEMMA RequestFacts ==
    ASSUME NEW r \in Request
    PROVE  /\ r.op \in WriteOps
           /\ r.op = "learn" => /\ r.magic \in Magic /\ r.magic.id \in MagicIds
                                /\ r.magic = [id |-> r.magic.id, version |-> 0]
           /\ r.op = "fuse" => /\ r.magic \in Magic /\ r.magic.id \in MagicIds
                               /\ r.secondary \in MagicIds
           /\ r.op \in {"fuse", "reorder"} => r.equipped \in Seq(MagicIds)
<1>1. MaxVersion \in Nat
  BY MagicAssumption
<1>2. CASE r \in [op : {"learn"}, magic : [id : MagicIds, version : {0}]]
  <2>1. r.op = "learn" /\ r.magic \in [id : MagicIds, version : {0}]
    BY <1>2
  <2> QED BY <1>1, <2>1 DEF WriteOps, Magic
<1>3. CASE r \in [op : {"fuse"}, magic : Magic, secondary : MagicIds, equipped : Seq(MagicIds)]
  BY <1>3 DEF WriteOps, Magic
<1>4. CASE r \in [op : {"reorder"}, equipped : Seq(MagicIds)]
  BY <1>4 DEF WriteOps
<1> QED BY <1>2, <1>3, <1>4 DEF Request

(* Assigning to a position, or past the end, keeps the type of a list.     *)
LEMMA ExceptType ==
    ASSUME NEW S, NEW seq \in Seq(S), NEW m \in S, NEW i
    PROVE  [seq EXCEPT ![i] = m] \in Seq(S)
<1> DEFINE new == [seq EXCEPT ![i] = m]
<1>1. Len(seq) \in Nat /\ DOMAIN seq = 1..Len(seq) /\ \A k \in 1..Len(seq) : seq[k] \in S
  BY SeqFacts
<1>2. new = [k \in 1..Len(seq) |-> new[k]] /\ \A k \in 1..Len(seq) : new[k] = m \/ new[k] = seq[k]
  BY <1>1
<1> HIDE DEF new
<1>3. \A k \in 1..Len(seq) : new[k] \in S
  BY <1>1, <1>2
<1>4. [k \in 1..Len(seq) |-> new[k]] \in Seq(S)
  BY <1>1, <1>3, IsASeq
<1> QED BY <1>2, <1>4 DEF new

(* A fusion keeps the types of both copies, wherever its iterator points.  *)
LEMMA FuseType ==
    ASSUME NEW seq \in Seq(Magic), NEW ids \in Seq(MagicIds), NEW m \in Magic, NEW s
    PROVE  /\ FuseInMemory(seq, m, s) \in Seq(Magic)
           /\ ClientFuse([magics |-> seq, equipped_magic_ids |-> ids], m, s) \in Copy
<1> DEFINE r == Without(seq, s)
<1>1. r \in Seq(Magic)
  BY SelectEnumerates DEF Without
<1>2. Unequip(ids, s) \in Seq(MagicIds)
  BY UnequipFacts
<1> HIDE DEF r
<1>3. \A i : [r EXCEPT ![i] = m] \in Seq(Magic)
  BY <1>1, ExceptType
<1>4. FuseInMemory(seq, m, s) = r \/ \E i : FuseInMemory(seq, m, s) = [r EXCEPT ![i] = m]
  BY DEF FuseInMemory, r
<1> DEFINE c == ClientFuse([magics |-> seq, equipped_magic_ids |-> ids], m, s)
<1> DEFINE i == Find(r, m.id)
<1> DEFINE new == IF i # 0 THEN [r EXCEPT ![i] = m] ELSE r
<1>5. c = [magics |-> new, equipped_magic_ids |-> Unequip(ids, s)]
  BY DEF ClientFuse, r
<1>6. new \in Seq(Magic)
  BY <1>1, <1>3
<1> HIDE DEF c, new
<1>7. c \in Copy
  BY <1>2, <1>5, <1>6 DEF Copy
<1> QED BY <1>1, <1>3, <1>4, <1>7 DEF c

(* A response keeps the type of the client's copy.                         *)
LEMMA AnsweredType ==
    ASSUME NEW c \in Copy, NEW r \in Request
    PROVE  Answered(c, r) \in Copy
<1>1. /\ c.magics \in Seq(Magic) /\ c.equipped_magic_ids \in Seq(MagicIds)
      /\ c = [magics |-> c.magics, equipped_magic_ids |-> c.equipped_magic_ids]
  BY DEF Copy
<1>2. CASE r.op = "learn"
  <2>1. Answered(c, r) = [c EXCEPT !.magics = Append(@, r.magic)]
    BY <1>2 DEF Answered
  <2>2. Append(c.magics, r.magic) \in Seq(Magic)
    <3>1. r.magic \in Magic
      BY <1>2, RequestFacts
    <3> QED BY <1>1, <3>1, AppendProperties
  <2> QED BY <2>1, <2>2 DEF Copy
<1>3. CASE r.op = "fuse"
  <2>1. Answered(c, r) = ClientFuse(c, r.magic, r.secondary)
    BY <1>3 DEF Answered
  <2>2. r.magic \in Magic
    BY <1>3, RequestFacts
  <2>3. ClientFuse([magics |-> c.magics, equipped_magic_ids |-> c.equipped_magic_ids],
                   r.magic, r.secondary) \in Copy
    BY <1>1, <2>2, FuseType
  <2> QED BY <1>1, <2>1, <2>3
<1>4. CASE r.op = "reorder"
  <2>1. Answered(c, r) = [c EXCEPT !.equipped_magic_ids = r.equipped]
    BY <1>4 DEF Answered
  <2>2. r.equipped \in Seq(MagicIds)
    BY <1>4, RequestFacts
  <2> QED BY <2>1, <2>2 DEF Copy
<1> QED BY <1>2, <1>3, <1>4, RequestFacts DEF WriteOps

(* The awaited request is the one that pc names.                           *)
Typed ==
    /\ TypeOK
    /\ pc \in WriteOps \cup {"answer"} => req \in Request
    /\ pc \in WriteOps => req.op = pc

(* A request that passed validate, as it is sent to the database.          *)
LEMMA Requests ==
    ASSUME Typed, Learn \/ Fuse \/ Reorder
    PROVE  \E r \in Request : Begin(r)
<1>1. magics \in Seq(Magic) /\ equipped_magic_ids \in Seq(MagicIds)
  BY DEF Typed, TypeOK
<1>2. CASE Learn
  <2>1. PICK id \in MagicIds : Begin([op |-> "learn", magic |-> [id |-> id, version |-> 0]])
    BY <1>2 DEF Learn
  <2>2. [op |-> "learn", magic |-> [id |-> id, version |-> 0]] \in Request
    BY DEF Request
  <2> QED BY <2>1, <2>2
<1>3. CASE Fuse
  <2>1. PICK primary \in Ids(magics), secondary \in Ids(magics) :
           LET old == magics[Find(magics, primary)] IN
           /\ old.version < MaxVersion
           /\ Begin([op |-> "fuse", magic |-> [old EXCEPT !.version = @ + 1],
                     secondary |-> secondary,
                     equipped |-> Unequip(equipped_magic_ids, secondary)])
    BY <1>3 DEF Fuse
  <2> DEFINE old == magics[Find(magics, primary)]
  <2> DEFINE m == [old EXCEPT !.version = @ + 1]
  <2> DEFINE eq == Unequip(equipped_magic_ids, secondary)
  <2>2. old \in Magic
    BY <1>1, FindSome, SeqFacts
  <2>3. m \in Magic
    BY <2>1, <2>2, MagicAssumption DEF Magic
  <2>4. secondary \in MagicIds /\ eq \in Seq(MagicIds)
    BY <1>1, InIds, UnequipFacts
  <2> HIDE DEF m, eq
  <2>5. [op |-> "fuse", magic |-> m, secondary |-> secondary, equipped |-> eq] \in Request
    BY <2>3, <2>4 DEF Request
  <2> QED BY <2>1, <2>5 DEF m, eq
<1>4. CASE Reorder
  <2>1. PICK n \in 0..(MaxActive + 1) : \E ids \in [1..n -> Ids(magics)] :
           Begin([op |-> "reorder", equipped |-> ids])
    BY <1>4 DEF Reorder
  <2>2. PICK ids \in [1..n -> Ids(magics)] : Begin([op |-> "reorder", equipped |-> ids])
    BY <2>1
  <2>3. ids \in Seq(MagicIds)
    <3>1. n \in Nat
      BY MagicAssumption
    <3>2. ids = [k \in 1..n |-> ids[k]] /\ \A k \in 1..n : ids[k] \in MagicIds
      BY <1>1, InIds
    <3>3. [k \in 1..n |-> ids[k]] \in Seq(MagicIds)
      BY <3>1, <3>2, IsASeq
    <3> QED BY <3>2, <3>3
  <2>4. [op |-> "reorder", equipped |-> ids] \in Request
    BY <2>3 DEF Request
  <2> QED BY <2>2, <2>4
<1> QED BY <1>2, <1>3, <1>4

(* What a statement leaves in the tables.                                  *)
NewTable(r, table) ==
    CASE r.op = "learn"   -> [table EXCEPT ![r.magic.id] = 0]
      [] r.op = "fuse"    -> Fused(table, r.magic, r.secondary)
      [] r.op = "reorder" -> table

NewList(r, ids) == IF r.op = "learn" THEN ids ELSE r.equipped

(* What a statement makes of the tables.                                   *)
LEMMA ExecuteFacts ==
    ASSUME NEW r, Execute(r)
    PROVE  /\ player_magic' = NewTable(r, player_magic)
           /\ character_equipped_magic' = NewList(r, character_equipped_magic)
<1>1. CASE r.op = "learn"
  BY <1>1 DEF Execute, NewTable, NewList
<1>2. CASE r.op = "fuse"
  BY <1>2 DEF Execute, NewTable, NewList, Fused
<1>3. CASE r.op = "reorder"
  BY <1>3 DEF Execute, NewTable, NewList
<1> QED BY <1>1, <1>2, <1>3 DEF Execute

(* A statement keeps the type of the table.                                *)
LEMMA NewTableType ==
    ASSUME NEW r \in Request, NEW table \in Table, NEW ids \in Seq(MagicIds)
    PROVE  NewTable(r, table) \in Table /\ NewList(r, ids) \in Seq(MagicIds)
<1>1. CASE r.op = "learn"
  <2>1. NewTable(r, table) = [table EXCEPT ![r.magic.id] = 0] /\ NewList(r, ids) = ids
    BY <1>1 DEF NewTable, NewList
  <2>2. 0 \in 0..MaxVersion
    BY MagicAssumption
  <2>3. r.magic.id \in MagicIds
    BY <1>1, RequestFacts
  <2> QED BY <2>1, <2>2, <2>3 DEF Table
<1>2. CASE r.op = "fuse"
  BY <1>2, RequestFacts, FusedFacts DEF NewTable, NewList
<1>3. CASE r.op = "reorder"
  BY <1>3, RequestFacts DEF NewTable, NewList
<1> QED BY <1>1, <1>2, <1>3, RequestFacts DEF WriteOps

(* Typed holds at the start.                                               *)
LEMMA InitTyped == Init => Typed
<1> SUFFICES ASSUME Init PROVE Typed
  OBVIOUS
<1>1. <<>> \in Seq(Magic) /\ <<>> \in Seq(MagicIds)
  OBVIOUS
<1>2. client \in Copy
  BY <1>1 DEF Init, Copy
<1> QED BY <1>1, <1>2, MagicAssumption DEF Init, Typed, TypeOK, WriteOps

(* Every step keeps Typed.                                                 *)
LEMMA NextTyped == Typed /\ [Next]_vars => Typed'
<1> SUFFICES ASSUME Typed, [Next]_vars PROVE Typed'
  OBVIOUS
<1>1. /\ pc \in {"offline", "idle", "answer"} \cup WriteOps
      /\ req \in Request \cup {NoReq}
      /\ result \in {"pending", "ok", "error"}
      /\ player_magic \in Table
      /\ character_equipped_magic \in Seq(MagicIds)
      /\ magics \in Seq(Magic) /\ equipped_magic_ids \in Seq(MagicIds)
      /\ client \in Copy
      /\ orphans \subseteq Request
      /\ faults \in 0..MaxFaults /\ MaxFaults \in Nat
      /\ pc \in WriteOps \cup {"answer"} => req \in Request
      /\ pc \in WriteOps => req.op = pc
  BY MagicAssumption DEF Typed, TypeOK, Table
<1>2. <<>> \in Seq(Magic) /\ <<>> \in Seq(MagicIds)
  OBVIOUS
<1>3. CASE Load
  <2>1. Rows = RowsOf(player_magic)
    BY DEF Rows, RowsOf
  <2>2. \A q \in Orders(Rows) : q \in Seq(Magic)
    BY <1>1, <2>1, OrdersFacts
  <2>3. /\ magics' \in Seq(Magic) /\ equipped_magic_ids' \in Seq(MagicIds)
        /\ faults' \in 0..MaxFaults
    <3>1. PICK q \in Orders(Rows) :
             \/ magics' = q /\ equipped_magic_ids' = character_equipped_magic /\ faults' = faults
             \/ /\ faults < MaxFaults /\ faults' = faults + 1
                /\ magics' \in {<<>>, q} /\ equipped_magic_ids' = <<>>
      BY <1>3 DEF Load
    <3>2. q \in Seq(Magic)
      BY <2>2
    <3>3. magics' = q \/ magics' = <<>>
      BY <3>1
    <3>4. equipped_magic_ids' = character_equipped_magic \/ equipped_magic_ids' = <<>>
      BY <3>1
    <3>5. faults' \in 0..MaxFaults
      BY <1>1, <3>1
    <3>6. magics' \in Seq(Magic)
      BY <1>2, <3>2, <3>3
    <3>7. equipped_magic_ids' \in Seq(MagicIds)
      BY <1>1, <1>2, <3>4
    <3> QED BY <3>5, <3>6, <3>7
  <2>4. client' \in Copy
    BY <1>3, <2>3 DEF Load, Copy
  <2> QED BY <1>1, <1>3, <2>3, <2>4 DEF Load, Typed, TypeOK, Table, dataVars, WriteOps
<1>4. CASE Forget /\ orphans' \subseteq Request /\ faults' \in 0..MaxFaults
  <2>1. client' \in Copy
    BY <1>2, <1>4 DEF Forget, Copy
  <2> QED BY <1>1, <1>2, <1>4, <2>1 DEF Forget, Typed, TypeOK, Table, dataVars, WriteOps
<1>5. CASE Unload
  BY <1>1, <1>4, <1>5 DEF Unload
<1>6. CASE Crash
  <2>1. orphans' \subseteq Request /\ faults' \in 0..MaxFaults
    BY <1>1, <1>6 DEF Crash
  <2> QED BY <1>4, <1>6, <2>1 DEF Crash
<1>7. CASE Learn \/ Fuse \/ Reorder
  <2>1. PICK r \in Request : Begin(r)
    BY <1>7, Requests
  <2>2. r.op \in WriteOps
    BY RequestFacts
  <2> QED BY <1>1, <2>1, <2>2 DEF Begin, Typed, TypeOK, Table, dataVars
<1>8. CASE DbExecute
  <2>1. req \in Request /\ Execute(req)
    BY <1>1, <1>8 DEF DbExecute, Awaiting
  <2>2. player_magic' \in Table /\ character_equipped_magic' \in Seq(MagicIds)
    BY <1>1, <2>1, ExecuteFacts, NewTableType
  <2> QED BY <1>1, <1>8, <2>2 DEF DbExecute, Typed, TypeOK, Table
<1>9. CASE DbReject
  BY <1>1, <1>9 DEF DbReject, Typed, TypeOK, Table, dataVars
<1>10. CASE DbFail
  <2>1. orphans' \subseteq Request /\ faults' \in 0..MaxFaults
    BY <1>1, <1>10 DEF DbFail, Awaiting
  <2> QED BY <1>1, <1>10, <2>1 DEF DbFail, Typed, TypeOK, Table, dataVars
<1>11. CASE DbLate
  <2>1. PICK r \in orphans : /\ Execute(r) \/ UNCHANGED dataVars
                             /\ orphans' = orphans \ {r}
    BY <1>11 DEF DbLate
  <2>2. r \in Request
    BY <1>1
  <2>3. player_magic' \in Table /\ character_equipped_magic' \in Seq(MagicIds)
    BY <1>1, <2>1, <2>2, ExecuteFacts, NewTableType DEF dataVars
  <2> QED BY <1>1, <1>11, <2>1, <2>3 DEF DbLate, Typed, TypeOK, Table
<1>12. CASE Resume
  <2>1. req \in Request
    BY <1>1, <1>12 DEF Resume
  <2>2. req.op = "learn" => Append(magics, req.magic) \in Seq(Magic)
    <3>1. req.op = "learn" => req.magic \in Magic
      BY <2>1, RequestFacts
    <3> QED BY <1>1, <3>1, AppendProperties
  <2>3. req.op = "fuse" => FuseInMemory(magics, req.magic, req.secondary) \in Seq(Magic)
    BY <1>1, <2>1, RequestFacts, FuseType
  <2>4. req.op \in {"fuse", "reorder"} => req.equipped \in Seq(MagicIds)
    BY <2>1, RequestFacts
  <2>5. magics' \in Seq(Magic) /\ equipped_magic_ids' \in Seq(MagicIds)
    BY <1>1, <1>12, <2>2, <2>3, <2>4 DEF Resume
  <2> QED BY <1>1, <1>12, <2>1, <2>5 DEF Resume, Typed, TypeOK, Table, dataVars, WriteOps
<1>13. CASE ClientApply
  <2>1. client' \in Copy
    BY <1>1, <1>13, AnsweredType DEF ClientApply
  <2> QED BY <1>1, <1>13, <2>1 DEF ClientApply, Typed, TypeOK, Table, dataVars, WriteOps
<1>14. CASE UNCHANGED vars
  BY <1>1, <1>14 DEF vars, dataVars, Typed, TypeOK, Table
<1> QED BY <1>3, <1>5, <1>6, <1>7, <1>8, <1>9, <1>10, <1>11, <1>12, <1>13, <1>14 DEF Next

(***************************************************************************)
(* Tables, copies, requests and late statements keep their types, for any  *)
(* number of magics, faults and fusions, in either order.                  *)
(***************************************************************************)
THEOREM PlayerDataTyped == Spec => []Typed
BY InitTyped, NextTyped, PTL DEF Spec

(***************************************************************************)
(* What server, client and tables hold has its type.                       *)
(***************************************************************************)
THEOREM PlayerDataTypeOK == Spec => []TypeOK
<1>1. Typed => TypeOK
  BY DEF Typed
<1> QED BY <1>1, PlayerDataTyped, PTL

-----------------------------------------------------------------------------
(* Server, client and tables stay in step.                                 *)

(* What validate and process made sure of when they sent the request, and  *)
(* what is still so when the answer of the database arrives.               *)
Pending(r, seq, ids) ==
    /\ r.op = "learn" => r.magic.id \notin Ids(seq)
    /\ r.op = "fuse" =>
          /\ \E i, j \in 1..Len(seq) :
                i < j /\ r.magic.id = seq[i].id /\ r.secondary = seq[j].id
          /\ r.equipped = Unequip(ids, r.secondary)
    /\ r.op = "reorder" => Range(r.equipped) \subseteq Ids(seq)

(* What Resume makes of the server's magics.                               *)
NewMagics(r, seq) ==
    CASE r.op = "learn"   -> Append(seq, r.magic)
      [] r.op = "fuse"    -> FuseInMemory(seq, r.magic, r.secondary)
      [] r.op = "reorder" -> seq

Copied(seq, ids) == [magics |-> seq, equipped_magic_ids |-> ids]

(* Server and client make the same of a request.                           *)
LEMMA Served ==
    ASSUME NEW seq \in Seq(Magic), Distinct(seq), NEW ids \in Seq(MagicIds),
           NEW r \in Request, Pending(r, seq, ids)
    PROVE  /\ Distinct(NewMagics(r, seq))
           /\ Answered(Copied(seq, ids), r) = Copied(NewMagics(r, seq), NewList(r, ids))
<1>1. CASE r.op = "learn"
  <2>1. NewMagics(r, seq) = Append(seq, r.magic) /\ NewList(r, ids) = ids
    BY <1>1 DEF NewMagics, NewList
  <2>2. r.magic \in Magic /\ r.magic.id \notin Ids(seq)
    BY <1>1, RequestFacts DEF Pending
  <2>3. Distinct(Append(seq, r.magic))
    BY <2>2, AppendFacts
  <2>4. Answered(Copied(seq, ids), r) = Copied(Append(seq, r.magic), ids)
    BY <1>1 DEF Answered, Copied
  <2> QED BY <2>1, <2>3, <2>4
<1>2. CASE r.op = "fuse"
  <2>1. NewMagics(r, seq) = FuseInMemory(seq, r.magic, r.secondary)
        /\ NewList(r, ids) = Unequip(ids, r.secondary)
    BY <1>2 DEF NewMagics, NewList, Pending
  <2>2. PICK i \in 1..Len(seq), j \in 1..Len(seq) :
           i < j /\ r.magic.id = seq[i].id /\ r.secondary = seq[j].id
    BY <1>2 DEF Pending
  <2>3. r.magic \in Magic
    BY <1>2, RequestFacts
  <2> DEFINE new == FuseInMemory(seq, r.magic, seq[j].id)
  <2>4. /\ Distinct(new)
        /\ \A x : ClientFuse([magics |-> seq, equipped_magic_ids |-> x], r.magic, seq[j].id)
                    = [magics |-> new, equipped_magic_ids |-> Unequip(x, seq[j].id)]
    BY <2>2, <2>3, FuseFacts
  <2>5. Answered(Copied(seq, ids), r) = ClientFuse(Copied(seq, ids), r.magic, r.secondary)
    BY <1>2 DEF Answered
  <2> HIDE DEF new
  <2>6. Answered(Copied(seq, ids), r) = Copied(new, Unequip(ids, seq[j].id))
    BY <2>2, <2>4, <2>5 DEF Copied
  <2> QED BY <2>1, <2>2, <2>4, <2>6 DEF new
<1>3. CASE r.op = "reorder"
  BY <1>3 DEF NewMagics, NewList, Answered, Copied
<1> QED BY <1>1, <1>2, <1>3, RequestFacts DEF WriteOps

Owned(table, ids) == \A id \in Range(ids) : table[id] # NoRow

(* A list that holds the rows of a table: its ids are the ids with a row.  *)
LEMMA RowIds ==
    ASSUME NEW table \in Table, NEW seq \in Seq(Magic), Range(seq) = RowsOf(table),
           NEW id \in MagicIds
    PROVE  id \in Ids(seq) <=> table[id] # NoRow
<1>1. DOMAIN seq = 1..Len(seq) /\ Range(seq) = {seq[k] : k \in 1..Len(seq)}
  BY SeqFacts DEF Range
<1>2. MaxVersion \in Nat
  BY MagicAssumption
<1>3. ASSUME id \in Ids(seq) PROVE table[id] # NoRow
  <2>1. PICK k \in 1..Len(seq) : seq[k].id = id
    BY <1>3, InIds
  <2>2. seq[k] \in RowsOf(table)
    BY <1>1
  <2> QED BY <1>2, <2>1, <2>2 DEF RowsOf, Magic, NoRow
<1>4. ASSUME table[id] # NoRow PROVE id \in Ids(seq)
  <2> DEFINE m == [id |-> id, version |-> table[id]]
  <2>1. table[id] \in 0..MaxVersion
    BY <1>4 DEF Table
  <2>2. m \in RowsOf(table) /\ m.id = id
    BY <2>1 DEF RowsOf, Magic
  <2> HIDE DEF m
  <2>3. PICK k \in 1..Len(seq) : seq[k] = m
    BY <1>1, <2>2
  <2> QED BY <2>2, <2>3, InIds
<1> QED BY <1>3, <1>4

(* The database and the server's copy make the same of a request.          *)
LEMMA Stored ==
    ASSUME NEW seq \in Seq(Magic), Distinct(seq), NEW ids \in Seq(MagicIds),
           NEW r \in Request, Pending(r, seq, ids),
           NEW table \in Table, Range(seq) = RowsOf(table), Owned(table, ids)
    PROVE  /\ r.op = "learn" => table[r.magic.id] = NoRow
           /\ Range(NewMagics(r, seq)) = RowsOf(NewTable(r, table))
           /\ Owned(NewTable(r, table), NewList(r, ids))
<1>0. Range(ids) \subseteq MagicIds
  BY SeqFacts DEF Range
<1>1. CASE r.op = "learn"
  <2> DEFINE id == r.magic.id
  <2> DEFINE new == [table EXCEPT ![id] = 0]
  <2>1. NewMagics(r, seq) = Append(seq, r.magic) /\ NewList(r, ids) = ids
        /\ NewTable(r, table) = new
    BY <1>1 DEF NewMagics, NewList, NewTable
  <2>2. r.magic \in Magic /\ id \in MagicIds /\ r.magic = [id |-> id, version |-> 0]
    BY <1>1, RequestFacts
  <2>3. id \notin Ids(seq)
    BY <1>1 DEF Pending
  <2>4. table[id] = NoRow
    BY <2>2, <2>3, RowIds
  <2>5. Range(Append(seq, r.magic)) = RowsOf(table) \cup {r.magic}
    BY <2>2, <2>3, AppendFacts
  <2>6. RowsOf(new) = RowsOf(table) \cup {r.magic}
    BY <2>2, <2>4, LearnRows
  <2>7. \A x \in MagicIds : table[x] # NoRow => new[x] # NoRow
    BY DEF Table, NoRow
  <2> QED BY <1>0, <2>1, <2>4, <2>5, <2>6, <2>7 DEF Owned
<1>2. CASE r.op = "fuse"
  <2>1. /\ NewMagics(r, seq) = FuseInMemory(seq, r.magic, r.secondary)
        /\ NewTable(r, table) = Fused(table, r.magic, r.secondary)
        /\ NewList(r, ids) = Unequip(ids, r.secondary)
    BY <1>2 DEF NewMagics, NewTable, NewList, Pending
  <2>2. PICK i \in 1..Len(seq), j \in 1..Len(seq) :
           i < j /\ r.magic.id = seq[i].id /\ r.secondary = seq[j].id
    BY <1>2 DEF Pending
  <2>3. r.magic \in Magic /\ r.magic.id \in MagicIds /\ r.secondary \in MagicIds
    BY <1>2, RequestFacts
  <2>4. Range(FuseInMemory(seq, r.magic, seq[j].id)) = Kept(seq, i, j, r.magic)
    BY <2>2, <2>3, FuseFacts
  <2>5. RowsOf(Fused(table, r.magic, seq[j].id)) = Kept(seq, i, j, r.magic)
    BY <2>2, <2>3, FuseRows
  <2> DEFINE new == Fused(table, r.magic, r.secondary)
  <2>6. ASSUME NEW id \in Range(Unequip(ids, r.secondary)) PROVE new[id] # NoRow
    <3>1. id \in MagicIds /\ id # r.secondary /\ table[id] # NoRow
      BY <1>0, UnequipFacts DEF Owned
    <3>2. CASE id = r.magic.id
      <4>1. r.magic.id # r.secondary /\ table[r.magic.id] # NoRow
        BY <3>1, <3>2
      <4>2. Fused(table, r.magic, r.secondary)[r.magic.id] = r.magic.version
        BY ZenonT(40), <2>3, <4>1, FusedFacts
      <4>3. new[id] = r.magic.version
        BY <3>2, <4>2
      <4> HIDE DEF new
      <4> QED BY <2>3, <4>3, MagicAssumption DEF Magic, NoRow
    <3>3. CASE id # r.magic.id
      BY <2>3, <3>1, <3>3, FusedFacts
    <3> QED BY <3>2, <3>3
  <2> HIDE DEF new
  <2>7. Owned(new, Unequip(ids, r.secondary))
    BY <2>6 DEF Owned
  <2> QED BY <1>2, <2>1, <2>2, <2>4, <2>5, <2>7 DEF new
<1>3. CASE r.op = "reorder"
  <2>1. NewMagics(r, seq) = seq /\ NewTable(r, table) = table /\ NewList(r, ids) = r.equipped
    BY <1>3 DEF NewMagics, NewTable, NewList
  <2>2. Range(r.equipped) \subseteq Ids(seq) /\ Ids(seq) \subseteq MagicIds
    BY <1>3, InIds DEF Pending
  <2>3. Owned(table, r.equipped)
    BY <2>2, RowIds DEF Owned
  <2> QED BY <1>3, <2>1, <2>3
<1> QED BY <1>1, <1>2, <1>3, RequestFacts DEF WriteOps

(* The lists of server and client: the same between requests and until the *)
(* database answers, and the same again once the client has the response.  *)
InSync ==
    /\ Distinct(magics) /\ Distinct(client.magics)
    /\ pc \in WriteOps => Pending(req, magics, equipped_magic_ids)
    /\ pc \in WriteOps \cup {"idle"} => client = Copied(magics, equipped_magic_ids)
    /\ pc = "answer" => (IF result = "ok" THEN Answered(client, req) ELSE client)
                            = Copied(magics, equipped_magic_ids)

(* A request that passed validate, with what it knows of the lists until   *)
(* they change.                                                            *)
LEMMA RequestsPending ==
    ASSUME ~ AnyFuse, Typed, InSync, Learn \/ Fuse \/ Reorder
    PROVE  \E r \in Request : Begin(r) /\ Pending(r, magics, equipped_magic_ids)
<1>1. magics \in Seq(Magic) /\ equipped_magic_ids \in Seq(MagicIds) /\ Distinct(magics)
  BY DEF Typed, TypeOK, InSync
<1>2. CASE Learn
  <2>1. PICK id \in MagicIds \ Ids(magics) :
           Begin([op |-> "learn", magic |-> [id |-> id, version |-> 0]])
    BY <1>2 DEF Learn
  <2>2. [op |-> "learn", magic |-> [id |-> id, version |-> 0]] \in Request
    BY DEF Request
  <2>3. Pending([op |-> "learn", magic |-> [id |-> id, version |-> 0]],
                magics, equipped_magic_ids)
    BY DEF Pending
  <2> QED BY <2>1, <2>2, <2>3
<1>3. CASE Fuse
  <2>1. PICK primary \in Ids(magics), secondary \in Ids(magics) :
           LET old == magics[Find(magics, primary)] IN
           /\ FuseAllowed(primary, secondary)
           /\ old.version < MaxVersion
           /\ Begin([op |-> "fuse", magic |-> [old EXCEPT !.version = @ + 1],
                     secondary |-> secondary,
                     equipped |-> Unequip(equipped_magic_ids, secondary)])
    BY <1>3 DEF Fuse
  <2> DEFINE i == Find(magics, primary)
  <2> DEFINE j == Find(magics, secondary)
  <2> DEFINE m == [magics[i] EXCEPT !.version = @ + 1]
  <2> DEFINE eq == Unequip(equipped_magic_ids, secondary)
  <2> DEFINE r == [op |-> "fuse", magic |-> m, secondary |-> secondary, equipped |-> eq]
  <2>2. /\ i \in 1..Len(magics) /\ magics[i].id = primary /\ magics[i] \in Magic
        /\ j \in 1..Len(magics) /\ magics[j].id = secondary
    BY <1>1, FindSome, SeqFacts
  <2>3. i < j
    BY <2>1 DEF FuseAllowed
  <2>4. m \in Magic /\ m.id = primary
    BY <2>1, <2>2, MagicAssumption DEF Magic
  <2>5. secondary \in MagicIds /\ eq \in Seq(MagicIds)
    BY <1>1, InIds, UnequipFacts
  <2>6. Begin(r)
    BY <2>1
  <2> HIDE DEF m, i, j
  <2>7. r \in Request
    BY <2>4, <2>5 DEF Request
  <2>8. Pending(r, magics, equipped_magic_ids)
    BY <2>2, <2>3, <2>4 DEF Pending
  <2> HIDE DEF r
  <2> QED BY <2>6, <2>7, <2>8
<1>4. CASE Reorder
  <2>1. PICK n \in 0..(MaxActive + 1) : \E ids \in [1..n -> Ids(magics)] :
           Begin([op |-> "reorder", equipped |-> ids])
    BY <1>4 DEF Reorder
  <2>2. PICK ids \in [1..n -> Ids(magics)] : Begin([op |-> "reorder", equipped |-> ids])
    BY <2>1
  <2>3. ids \in Seq(MagicIds)
    <3>1. n \in Nat
      BY MagicAssumption
    <3>2. ids = [k \in 1..n |-> ids[k]] /\ \A k \in 1..n : ids[k] \in MagicIds
      BY <1>1, InIds
    <3>3. [k \in 1..n |-> ids[k]] \in Seq(MagicIds)
      BY <3>1, <3>2, IsASeq
    <3> QED BY <3>2, <3>3
  <2>4. Range(ids) \subseteq Ids(magics)
    BY DEF Range
  <2>5. [op |-> "reorder", equipped |-> ids] \in Request
    BY <2>3 DEF Request
  <2>6. Pending([op |-> "reorder", equipped |-> ids], magics, equipped_magic_ids)
    BY <2>4 DEF Pending
  <2> QED BY <2>2, <2>5, <2>6
<1> QED BY <1>2, <1>3, <1>4

(* What the server makes of its copy after the database call.              *)
LEMMA ResumeFacts ==
    ASSUME Typed, Resume
    PROVE  /\ req \in Request /\ pc' = "answer" /\ client' = client
           /\ req' = req /\ result' = result /\ result \in {"ok", "error"}
           /\ result = "ok" =>
                 /\ magics' = NewMagics(req, magics)
                 /\ equipped_magic_ids' = NewList(req, equipped_magic_ids)
           /\ result = "error" => UNCHANGED <<magics, equipped_magic_ids>>
<1>1. req \in Request /\ result \in {"ok", "error"}
  BY DEF Resume, Typed, TypeOK
<1>2. CASE req.op = "learn"
  BY <1>1, <1>2 DEF Resume, NewMagics, NewList
<1>3. CASE req.op = "fuse"
  BY <1>1, <1>3 DEF Resume, NewMagics, NewList
<1>4. CASE req.op = "reorder"
  BY <1>1, <1>4 DEF Resume, NewMagics, NewList
<1> QED BY <1>1, <1>2, <1>3, <1>4, RequestFacts DEF WriteOps

(* InSync holds at the start.                                              *)
LEMMA InitInSync == Init => InSync
BY DEF Init, InSync, Distinct, WriteOps

(* Every step keeps the lists of server and client in sync.                *)
LEMMA NextInSync == ~ AnyFuse /\ Typed /\ InSync /\ [Next]_vars => InSync'
<1> SUFFICES ASSUME ~ AnyFuse, Typed, InSync, [Next]_vars PROVE InSync'
  OBVIOUS
<1>1. /\ magics \in Seq(Magic) /\ equipped_magic_ids \in Seq(MagicIds)
      /\ player_magic \in Table
      /\ pc \in WriteOps \cup {"answer"} => req \in Request
      /\ result \in {"pending", "ok", "error"}
  BY DEF Typed, TypeOK, Table
<1>2. CASE Load
  <2>1. PICK q \in Orders(Rows) : magics' = q \/ magics' = <<>>
    BY <1>2 DEF Load
  <2>2. Rows = RowsOf(player_magic)
    BY DEF Rows, RowsOf
  <2>3. Distinct(q)
    BY <1>1, <2>2, OrdersFacts
  <2>4. Distinct(magics')
    BY <2>1, <2>3 DEF Distinct
  <2>5. client' = Copied(magics', equipped_magic_ids') /\ pc' = "idle"
    BY <1>2 DEF Load, Copied
  <2>6. client'.magics = magics'
    BY <2>5 DEF Copied
  <2> QED BY <2>4, <2>5, <2>6 DEF InSync, WriteOps
<1>3. CASE Unload \/ Crash
  <2>1. pc' = "offline" /\ magics' = <<>> /\ client'.magics = <<>>
    BY <1>3 DEF Unload, Crash, Forget
  <2> QED BY <2>1 DEF InSync, Distinct, WriteOps
<1>4. CASE Learn \/ Fuse \/ Reorder
  <2>1. PICK r \in Request : Begin(r) /\ Pending(r, magics, equipped_magic_ids)
    BY <1>4, RequestsPending
  <2>2. /\ pc = "idle" /\ pc' = r.op /\ req' = r /\ r.op \in WriteOps
        /\ UNCHANGED <<magics, equipped_magic_ids, client>>
    BY <2>1, RequestFacts DEF Begin
  <2> QED BY <2>1, <2>2 DEF InSync, WriteOps
<1>5. CASE DbExecute \/ DbReject \/ DbFail
  <2>1. pc \in WriteOps /\ UNCHANGED <<pc, req, magics, equipped_magic_ids, client>>
    BY <1>5 DEF DbExecute, DbReject, DbFail, Awaiting
  <2> QED BY <2>1 DEF InSync, WriteOps
<1>6. CASE DbLate \/ UNCHANGED vars
  <2>1. UNCHANGED <<pc, req, result, magics, equipped_magic_ids, client>>
    BY <1>6 DEF DbLate, vars
  <2> QED BY <2>1 DEF InSync
<1>7. CASE Resume
  <2>1. /\ req \in Request /\ pc' = "answer" /\ client' = client
        /\ req' = req /\ result' = result /\ result \in {"ok", "error"}
        /\ result = "ok" =>
              /\ magics' = NewMagics(req, magics)
              /\ equipped_magic_ids' = NewList(req, equipped_magic_ids)
        /\ result = "error" => UNCHANGED <<magics, equipped_magic_ids>>
    BY <1>7, ResumeFacts
  <2>2. /\ Distinct(magics) /\ Distinct(client.magics)
        /\ Pending(req, magics, equipped_magic_ids)
        /\ client = Copied(magics, equipped_magic_ids)
    BY <1>7 DEF Resume, InSync
  <2>3. /\ Distinct(NewMagics(req, magics))
        /\ Answered(client, req)
             = Copied(NewMagics(req, magics), NewList(req, equipped_magic_ids))
    BY <1>1, <2>1, <2>2, Served
  <2>4. Distinct(magics')
    BY <2>1, <2>2, <2>3
  <2>5. (IF result' = "ok" THEN Answered(client', req') ELSE client')
            = Copied(magics', equipped_magic_ids')
    <3>1. CASE result = "ok"
      BY <2>1, <2>3, <3>1
    <3>2. CASE result = "error"
      BY <2>1, <2>2, <3>2
    <3> QED BY <2>1, <3>1, <3>2
  <2> QED BY <2>1, <2>2, <2>4, <2>5 DEF InSync, WriteOps
<1>8. CASE ClientApply
  <2>1. /\ pc = "answer" /\ pc' = "idle" /\ UNCHANGED <<magics, equipped_magic_ids>>
        /\ client' = IF result = "ok" THEN Answered(client, req) ELSE client
    BY <1>8 DEF ClientApply
  <2>2. client' = Copied(magics, equipped_magic_ids) /\ Distinct(magics)
    BY <2>1 DEF InSync
  <2>3. client'.magics = magics
    BY <2>2 DEF Copied
  <2> QED BY <2>1, <2>2, <2>3 DEF InSync, WriteOps
<1> QED BY <1>2, <1>3, <1>4, <1>5, <1>6, <1>7, <1>8 DEF Next

(* Tables and the server's copy, as long as no database call has failed.   *)
Agree(seq, ids) == Range(seq) = RowsOf(player_magic) /\ ids = character_equipped_magic

DbInSync ==
    faults = 0 =>
        /\ orphans = {}
        /\ Owned(player_magic, character_equipped_magic)
        /\ pc \in {"idle", "answer"} => Agree(magics, equipped_magic_ids)
        /\ pc \in WriteOps =>
              /\ result # "error"
              /\ result = "pending" => Agree(magics, equipped_magic_ids)
              /\ result = "ok" => Agree(NewMagics(req, magics), NewList(req, equipped_magic_ids))

(* DbInSync holds at the start.                                            *)
LEMMA InitDbInSync == Init => DbInSync
BY DEF Init, DbInSync, Owned, Range, WriteOps

(* Every step keeps the tables and the server's copy in sync.              *)
LEMMA NextDbInSync == Typed /\ InSync /\ DbInSync /\ [Next]_vars => DbInSync'
<1> SUFFICES ASSUME Typed, InSync, DbInSync, [Next]_vars, faults' = 0 PROVE DbInSync'
  BY DEF DbInSync
<1>1. /\ magics \in Seq(Magic) /\ equipped_magic_ids \in Seq(MagicIds)
      /\ player_magic \in Table /\ character_equipped_magic \in Seq(MagicIds)
      /\ pc \in WriteOps \cup {"answer"} => req \in Request
      /\ result \in {"pending", "ok", "error"}
      /\ faults \in Nat
  BY MagicAssumption DEF Typed, TypeOK, Table
<1>2. faults = 0
  <2>1. faults' = faults \/ faults' = faults + 1
    BY DEF Next, Load, Unload, Crash, Learn, Fuse, Reorder, Begin, DbExecute, DbReject,
           DbFail, DbLate, Resume, ClientApply, vars
  <2> QED BY <1>1, <2>1
<1>3. faults' # faults + 1
  BY <1>1, <1>2
<1>4. /\ orphans = {}
      /\ Owned(player_magic, character_equipped_magic)
      /\ pc \in {"idle", "answer"} => Agree(magics, equipped_magic_ids)
      /\ pc \in WriteOps =>
            /\ result # "error"
            /\ result = "pending" => Agree(magics, equipped_magic_ids)
            /\ result = "ok" => Agree(NewMagics(req, magics), NewList(req, equipped_magic_ids))
  BY <1>2 DEF DbInSync
<1>5. CASE Load
  <2>1. PICK q \in Orders(Rows) : magics' = q /\ equipped_magic_ids' = character_equipped_magic
    BY <1>3, <1>5 DEF Load
  <2>2. Rows = RowsOf(player_magic)
    BY DEF Rows, RowsOf
  <2>3. Range(q) = RowsOf(player_magic)
    BY <1>1, <2>2, OrdersFacts
  <2>4. pc' = "idle" /\ orphans' = orphans /\ UNCHANGED <<player_magic, character_equipped_magic>>
    BY <1>5 DEF Load, dataVars
  <2> QED BY <1>4, <2>1, <2>3, <2>4 DEF DbInSync, Agree, WriteOps
<1>6. CASE Unload \/ Crash
  <2>1. /\ pc' = "offline" /\ orphans' = orphans
        /\ UNCHANGED <<player_magic, character_equipped_magic>>
    BY <1>3, <1>6 DEF Unload, Crash, Forget, dataVars
  <2> QED BY <1>4, <2>1 DEF DbInSync, WriteOps
<1>7. CASE Learn \/ Fuse \/ Reorder
  <2>1. PICK r \in Request : Begin(r)
    BY <1>7, Requests
  <2>2. /\ pc = "idle" /\ pc' \in WriteOps /\ result' = "pending"
        /\ UNCHANGED <<magics, equipped_magic_ids, orphans, player_magic,
                       character_equipped_magic>>
    BY <2>1, RequestFacts DEF Begin, dataVars
  <2> QED BY <1>4, <2>2 DEF DbInSync, Agree, WriteOps
<1>8. CASE DbExecute \/ DbReject
  <2>1. /\ pc \in WriteOps /\ result = "pending" /\ req \in Request
        /\ UNCHANGED <<pc, req, magics, equipped_magic_ids, orphans>>
    BY <1>1, <1>8 DEF DbExecute, DbReject, Awaiting
  <2>2. /\ Range(magics) = RowsOf(player_magic)
        /\ equipped_magic_ids = character_equipped_magic
        /\ Owned(player_magic, equipped_magic_ids)
    BY <1>4, <2>1 DEF Agree
  <2>3. Distinct(magics) /\ Pending(req, magics, equipped_magic_ids)
    BY <2>1 DEF InSync
  <2>4. /\ req.op = "learn" => player_magic[req.magic.id] = NoRow
        /\ Range(NewMagics(req, magics)) = RowsOf(NewTable(req, player_magic))
        /\ Owned(NewTable(req, player_magic), NewList(req, equipped_magic_ids))
    BY <1>1, <2>1, <2>2, <2>3, Stored
  <2>5. ~ DbReject
    BY <2>4 DEF DbReject, Rejected
  <2>6. /\ player_magic' = NewTable(req, player_magic)
        /\ character_equipped_magic' = NewList(req, equipped_magic_ids)
        /\ result' = "ok"
    BY <1>8, <2>2, <2>5, ExecuteFacts DEF DbExecute
  <2>7. /\ Range(NewMagics(req', magics')) = RowsOf(player_magic')
        /\ Owned(player_magic', character_equipped_magic')
        /\ NewList(req', equipped_magic_ids') = character_equipped_magic'
    BY <2>1, <2>4, <2>6
  <2> QED BY <1>4, <2>1, <2>6, <2>7 DEF DbInSync, Agree, WriteOps
<1>9. CASE DbFail
  BY <1>3, <1>9 DEF DbFail
<1>10. CASE DbLate
  BY <1>4, <1>10 DEF DbLate
<1>11. CASE Resume
  <2>1. /\ pc' = "answer" /\ result \in {"ok", "error"}
        /\ result = "ok" =>
              /\ magics' = NewMagics(req, magics)
              /\ equipped_magic_ids' = NewList(req, equipped_magic_ids)
    BY <1>11, ResumeFacts
  <2>2. pc \in WriteOps /\ UNCHANGED <<player_magic, character_equipped_magic, orphans>>
    BY <1>11 DEF Resume, dataVars
  <2>3. result = "ok"
    BY <1>4, <2>1, <2>2
  <2>4. Agree(magics, equipped_magic_ids)'
    BY <1>4, <2>1, <2>2, <2>3 DEF Agree
  <2> QED BY <1>4, <2>1, <2>2, <2>4 DEF DbInSync, WriteOps
<1>12. CASE ClientApply
  <2>1. /\ pc = "answer" /\ pc' = "idle"
        /\ UNCHANGED <<magics, equipped_magic_ids, orphans, player_magic,
                       character_equipped_magic>>
    BY <1>12 DEF ClientApply, dataVars
  <2> QED BY <1>4, <2>1 DEF DbInSync, Agree, WriteOps
<1>13. CASE UNCHANGED vars
  BY <1>4, <1>13 DEF vars, dataVars, DbInSync, Agree
<1> QED BY <1>5, <1>6, <1>7, <1>8, <1>9, <1>10, <1>11, <1>12, <1>13 DEF Next

(***************************************************************************)
(* Where primaries come before secondaries, the lists of server and client *)
(* are in step through every request, fault, crash and late statement.     *)
(***************************************************************************)
THEOREM PlayerDataInSync ==
    ASSUME ~ AnyFuse
    PROVE  Spec => [](Typed /\ InSync /\ DbInSync)
<1>1. Init => Typed /\ InSync /\ DbInSync
  BY InitTyped, InitInSync, InitDbInSync
<1>2. Typed /\ InSync /\ DbInSync /\ [Next]_vars => (Typed /\ InSync /\ DbInSync)'
  BY NextTyped, NextInSync, NextDbInSync
<1> QED BY <1>1, <1>2, PTL DEF Spec

(***************************************************************************)
(* Between requests the client has the server's magics and equipped ids,   *)
(* although server and client fuse with different code.                    *)
(***************************************************************************)
THEOREM PlayerDataClientMatches ==
    ASSUME ~ AnyFuse
    PROVE  Spec => []ClientMatchesServer
<1>1. InSync => ClientMatchesServer
  BY DEF InSync, ClientMatchesServer, Copied
<1> QED BY <1>1, PlayerDataInSync, PTL

(***************************************************************************)
(* Neither copy ever lists a magic twice, also after failed database calls *)
(* and statements that executed late.                                      *)
(***************************************************************************)
THEOREM PlayerDataNoDuplicates ==
    ASSUME ~ AnyFuse
    PROVE  Spec => []NoDuplicates
<1>1. Typed /\ InSync => NoDuplicates
  <2> SUFFICES ASSUME Typed, InSync PROVE NoDuplicates
    OBVIOUS
  <2>1. magics \in Seq(Magic) /\ client.magics \in Seq(Magic)
    BY DEF Typed, TypeOK, Copy
  <2>2. Distinct(magics) /\ Distinct(client.magics)
    BY DEF InSync
  <2> QED BY <2>1, <2>2, DistinctCount DEF NoDuplicates
<1> QED BY <1>1, PlayerDataInSync, PTL

(***************************************************************************)
(* Between requests, while no database call has failed, the server's copy  *)
(* holds the rows of the table, each once, and its list of equipped ids.   *)
(***************************************************************************)
THEOREM PlayerDataMemoryMatchesDb ==
    ASSUME ~ AnyFuse
    PROVE  Spec => []MemoryMatchesDb
<1>1. Typed /\ InSync /\ DbInSync => MemoryMatchesDb
  <2> SUFFICES ASSUME Typed, InSync, DbInSync, pc = "idle", faults = 0
               PROVE  /\ Range(magics) = Rows
                      /\ Len(magics) = Cardinality(Rows)
                      /\ equipped_magic_ids = character_equipped_magic
    BY DEF MemoryMatchesDb
  <2>1. Range(magics) = Rows /\ equipped_magic_ids = character_equipped_magic
    BY DEF DbInSync, Agree, Rows, RowsOf
  <2>2. Cardinality(Range(magics)) = Len(magics)
    BY DistinctCount DEF Typed, TypeOK, InSync
  <2> QED BY <2>1, <2>2
<1> QED BY <1>1, PlayerDataInSync, PTL

(***************************************************************************)
(* Only owned magics are equipped, in the tables and in the server's copy, *)
(* while no database call has failed.                                      *)
(***************************************************************************)
THEOREM PlayerDataEquippedAreOwned ==
    ASSUME ~ AnyFuse
    PROVE  Spec => []EquippedAreOwned
<1>1. Typed /\ DbInSync => EquippedAreOwned
  <2> SUFFICES ASSUME Typed, DbInSync, faults = 0
               PROVE  /\ Owned(player_magic, character_equipped_magic)
                      /\ pc = "idle" => Range(equipped_magic_ids) \subseteq Ids(magics)
    BY DEF EquippedAreOwned, Owned
  <2>1. Owned(player_magic, character_equipped_magic)
    BY DEF DbInSync
  <2>2. ASSUME pc = "idle", NEW id \in Range(equipped_magic_ids) PROVE id \in Ids(magics)
    <3>1. Range(magics) = RowsOf(player_magic) /\ equipped_magic_ids = character_equipped_magic
      BY <2>2 DEF DbInSync, Agree
    <3>2. player_magic \in Table /\ magics \in Seq(Magic) /\ equipped_magic_ids \in Seq(MagicIds)
      BY DEF Typed, TypeOK, Table
    <3>3. id \in MagicIds
      BY <3>2, SeqFacts DEF Range
    <3>4. player_magic[id] # NoRow
      BY <2>1, <3>1 DEF Owned
    <3> QED BY <3>1, <3>2, <3>3, <3>4, RowIds
  <2> QED BY <2>1, <2>2
<1> QED BY <1>1, PlayerDataInSync, PTL
=============================================================================
