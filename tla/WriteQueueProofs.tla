-------------------------- MODULE WriteQueueProofs --------------------------
(***************************************************************************)
(* Proofs about WriteQueue, for any sets of messages.                      *)
(***************************************************************************)
EXTENDS WriteQueue, ListsProofs, SequenceTheorems, TLAPS

Inv == TypeOK /\ OneWriteFromFront /\ WriterWhileOpen /\ NothingLostWhileOpen

(* Sequences of length one.                                                *)
LEMMA Singleton ==
    \A x \in Msgs : /\ <<x>> \in Seq(Msgs) /\ <<x>> # <<>>
                    /\ Head(<<x>>) = x /\ Tail(<<x>>) = <<>>
                    /\ Append(<<>>, x) = <<x>>
  OBVIOUS

(* Enqueue keeps the discipline: it starts a write only for an empty queue.*)
LEMMA EnqueueInv ==
    ASSUME TypeOK, OneWriteFromFront, NEW m \in Msgs, Enqueue(m)
    PROVE  /\ write_queue' \in Seq(Msgs)
           /\ writing' \in Seq(Msgs)
           /\ OneWriteFromFront'
           /\ writing' = <<>> => write_queue # <<>> /\ writing = <<>>
<1>1. write_queue \in Seq(Msgs) /\ writing \in Seq(Msgs)
  BY DEF TypeOK
<1>2. /\ write_queue' \in Seq(Msgs) /\ write_queue' # <<>>
      /\ Head(write_queue') = IF write_queue = <<>> THEN m ELSE Head(write_queue)
  BY <1>1 DEF Enqueue
<1>3. CASE write_queue = <<>>
  <2>1. writing = <<>> /\ Len(write_queue) + 1 = 1
    BY <1>3 DEF OneWriteFromFront
  <2>2. writing' = Append(<<>>, m)
    BY <2>1, Zenon DEF Enqueue
  <2>3. writing' = <<m>> /\ writing' # <<>> /\ writing' \in Seq(Msgs)
    BY <2>2, Singleton, Zenon
  <2> QED BY <1>2, <1>3, <2>3, Zenon DEF OneWriteFromFront
<1>4. CASE write_queue # <<>>
  <2>1. Len(write_queue) + 1 # 1
    BY <1>1, <1>4
  <2>2. writing' = writing
    BY <2>1 DEF Enqueue
  <2> QED BY <1>1, <1>2, <1>4, <2>2, Zenon DEF OneWriteFromFront
<1> QED BY <1>3, <1>4

(* The initial state satisfies the invariant.                              *)
LEMMA InitInv == Init => Inv
  BY DEF Init, Inv, TypeOK, OneWriteFromFront, WriterWhileOpen, NothingLostWhileOpen

(* What a completed write finds: its message is the front of the queue.    *)
LEMMA FrontFacts ==
    ASSUME TypeOK, OneWriteFromFront, writing # <<>>
    PROVE  /\ Head(writing) = Head(write_queue)
           /\ write_queue # <<>>
           /\ Tail(writing) = <<>>
           /\ Tail(write_queue) \in Seq(Msgs)
           /\ Tail(write_queue) # <<>> => Head(Tail(write_queue)) \in Msgs
           /\ Head(writing) \in Msgs
<1>1. write_queue \in Seq(Msgs) /\ write_queue # <<>> /\ writing = <<Head(write_queue)>>
  BY DEF TypeOK, OneWriteFromFront
<1>2. Head(write_queue) \in Msgs
  BY <1>1
<1>3. Tail(write_queue) \in Seq(Msgs)
  BY <1>1
<1> QED BY <1>1, <1>2, <1>3, Singleton

(* Every step preserves the invariant.                                     *)
LEMMA NextInv == Inv /\ [Next]_vars => Inv'
<1> SUFFICES ASSUME Inv, [Next]_vars PROVE Inv'
  OBVIOUS
<1> USE DEF Inv, OneWriteFromFront, WriterWhileOpen, NothingLostWhileOpen
<1>1. ASSUME NEW m \in Responses, Respond(m) PROVE Inv'
  <2>1. m \in Msgs /\ Enqueue(m)
    BY <1>1 DEF Respond, Msgs
  <2>2. OneWriteFromFront' /\ WriterWhileOpen'
    BY <1>1, <2>1, EnqueueInv, Zenon DEF Respond
  <2> QED BY <1>1, <2>1, <2>2, EnqueueInv DEF Respond, TypeOK
<1>2. ASSUME NEW m \in Echoes, Send(m) PROVE Inv'
  BY <1>2 DEF Send, TypeOK
<1>3. CASE RunPosted
  <2>1. /\ Head(posted) \in Echoes /\ Head(posted) \in Msgs
        /\ Tail(posted) \in Seq(Echoes)
    BY <1>3 DEF RunPosted, TypeOK, Msgs
  <2>2. OneWriteFromFront' /\ WriterWhileOpen'
    BY <1>3, <2>1, EnqueueInv, Zenon DEF RunPosted
  <2> QED BY <1>3, <2>1, <2>2, EnqueueInv DEF RunPosted, TypeOK
<1>4. CASE Written
  <2>1. /\ sent' \in Seq(Msgs) /\ write_queue' \in Seq(Msgs)
        /\ UNCHANGED <<phase, posted, stream, posts, lost>>
    BY <1>4, FrontFacts DEF Written, TypeOK
  <2>2. writing' = IF write_queue' = <<>> THEN <<>> ELSE <<Head(write_queue')>>
    <3>1. Tail(writing) = <<>> /\ write_queue' = Tail(write_queue)
      BY <1>4, FrontFacts DEF Written
    <3>2. writing' = IF write_queue' = <<>> THEN <<>> ELSE Append(<<>>, Head(write_queue'))
      BY <1>4, <3>1, Zenon DEF Written
    <3>3. write_queue' # <<>> => Head(write_queue') \in Msgs
      BY <2>1
    <3> QED BY <3>2, <3>3, Singleton, Zenon
  <2>3. write_queue' # <<>> => Head(write_queue') \in Msgs
    BY <2>1
  <2> QED BY <2>1, <2>2, <2>3 DEF TypeOK
<1>5. CASE WriteFailed
  BY <1>5, FrontFacts DEF WriteFailed, TypeOK
<1>6. CASE Break \/ Leave \/ Register \/ UNCHANGED vars
  BY <1>6 DEF Break, Leave, Register, vars, TypeOK
<1> QED BY <1>1, <1>2, <1>3, <1>4, <1>5, <1>6 DEF Next

(* In every reachable state the invariant holds.                           *)
THEOREM QueueInvariant == Spec => []Inv
  BY InitInv, NextInv, PTL DEF Spec

(***************************************************************************)
(* Every variable of the write queue keeps its type.                       *)
(***************************************************************************)
THEOREM QueueTypeOK == Spec => []TypeOK
  BY QueueInvariant, PTL DEF Inv

(***************************************************************************)
(* At most one async_write is outstanding, on the front of the queue.      *)
(***************************************************************************)
THEOREM QueueOneWrite == Spec => []OneWriteFromFront
  BY QueueInvariant, PTL DEF Inv

(***************************************************************************)
(* On an open stream a non-empty queue has a writer.                       *)
(***************************************************************************)
THEOREM QueueWriterWhileOpen == Spec => []WriterWhileOpen
  BY QueueInvariant, PTL DEF Inv

-----------------------------------------------------------------------------
(* Concatenation associates, quantified to be used at primed sequences.    *)
LEMMA ConcatAssoc ==
    \A a, b, c \in Seq(Msgs) : (a \o b) \o c = a \o (b \o c)
  BY ConcatAssociative

(* Appending to the last of three sequences appends to the whole.          *)
LEMMA ConcatAppend ==
    ASSUME NEW S, NEW a \in Seq(S), NEW b \in Seq(S), NEW c \in Seq(S), NEW x \in S
    PROVE  a \o b \o Append(c, x) = Append(a \o b \o c, x)
  OBVIOUS

(* Appending to the second sequence appends to the whole.                  *)
LEMMA AppendLast ==
    ASSUME NEW S, NEW a \in Seq(S), NEW b \in Seq(S), NEW x \in S
    PROVE  a \o Append(b, x) = Append(a \o b, x)
  OBVIOUS

(* Moving the front of the second sequence to the end of the first one     *)
(* leaves the whole as it is.                                              *)
LEMMA ConcatMove ==
    ASSUME NEW S, NEW a \in Seq(S), NEW c \in Seq(S), c # <<>>
    PROVE  /\ Append(a, Head(c)) \o Tail(c) = a \o c
           /\ Len(a) < Len(a \o c)
           /\ (a \o c)[Len(a) + 1] = Head(c)
  OBVIOUS

(* What was enqueued, in the order of write_queue_.                        *)
Log == sent \o lost \o write_queue

(* Enqueueing a message puts it at the end of the log.                     *)
LEMMA EnqueueLog ==
    ASSUME Inv, NEW m \in Msgs, Enqueue(m), UNCHANGED <<sent, lost>>
    PROVE  Log' = Append(Log, m)
<1>1. sent \in Seq(Msgs) /\ lost \in Seq(Msgs) /\ write_queue \in Seq(Msgs)
  BY DEF Inv, TypeOK
<1>2. sent \o lost \o Append(write_queue, m) = Append(sent \o lost \o write_queue, m)
  BY <1>1, ConcatAppend
<1>3. sent' = sent /\ lost' = lost /\ write_queue' = Append(write_queue, m)
  BY DEF Enqueue
<1> QED BY Zenon, <1>2, <1>3 DEF Log

(* A completed write, successful or not, takes nothing from the log.       *)
LEMMA WriteKeepsLog ==
    ASSUME Inv, Written \/ WriteFailed
    PROVE  Log' = Log
<1>1. sent \in Seq(Msgs) /\ lost \in Seq(Msgs) /\ write_queue \in Seq(Msgs)
  BY DEF Inv, TypeOK
<1>2. CASE Written
  <2>1. /\ sent' = Append(sent, Head(write_queue)) /\ write_queue' = Tail(write_queue)
        /\ write_queue # <<>> /\ lost = <<>> /\ lost' = <<>>
    BY <1>2, FrontFacts DEF Written, Inv, NothingLostWhileOpen
  <2>2. Log = sent \o write_queue /\ Log' = sent' \o write_queue'
    BY <1>1, <2>1 DEF Log
  <2> QED BY <1>1, <2>1, <2>2, ConcatMove
<1>3. CASE WriteFailed
  <2>1. /\ lost' = Append(lost, Head(write_queue)) /\ write_queue' = Tail(write_queue)
        /\ write_queue # <<>> /\ sent' = sent
    BY <1>3, FrontFacts DEF WriteFailed, Inv
  <2>2. lost' \o write_queue' = lost \o write_queue
    BY <1>1, <2>1, ConcatMove
  <2>3. Log = sent \o (lost \o write_queue)
    BY <1>1, ConcatAssociative DEF Log
  <2>4. Log' = sent \o (lost' \o write_queue')
    <3>1. lost' \in Seq(Msgs) /\ write_queue' \in Seq(Msgs)
      BY <1>1, <2>1
    <3>2. (sent \o lost') \o write_queue' = sent \o (lost' \o write_queue')
      BY <1>1, <3>1, ConcatAssoc, Zenon
    <3> QED BY <2>1, <3>2 DEF Log
  <2> QED BY <2>2, <2>3, <2>4
<1> QED BY <1>2, <1>3

(***************************************************************************)
(* Messages go out in the order in which they were enqueued, without gaps. *)
(***************************************************************************)
THEOREM QueueRefinesOutbox == Spec => ImplementsOutbox
<1>1. Init => O!Init
  BY DEF Init, O!Init
<1>2. ASSUME Inv, [Next]_vars PROVE [O!Next]_<<Log, sent>>
  <2>0. /\ sent \in Seq(Msgs) /\ lost \in Seq(Msgs) /\ write_queue \in Seq(Msgs)
        /\ posted \in Seq(Echoes)
    BY <1>2 DEF Inv, TypeOK
  <2>1. ASSUME NEW m \in Msgs, Enqueue(m), UNCHANGED <<sent, lost>> PROVE O!Next
    <3>1. Log' = Append(Log, m)
      BY <1>2, <2>1, EnqueueLog
    <3> QED BY <2>1, <3>1 DEF O!Next, O!Take, Log
  <2>2. CASE Written
    <3>1. /\ sent' = Append(sent, Head(write_queue)) /\ write_queue # <<>> /\ lost = <<>>
      BY <1>2, <2>2, FrontFacts DEF Written, Inv, NothingLostWhileOpen
    <3>2. Log' = Log
      BY <1>2, <2>2, WriteKeepsLog
    <3>3. Log = sent \o write_queue
      BY <2>0, <3>1 DEF Log
    <3>4. Len(sent) < Len(Log) /\ Log[Len(sent) + 1] = Head(write_queue)
      BY <2>0, <3>1, <3>3, ConcatMove
    <3> QED BY <3>1, <3>2, <3>4 DEF O!Next, O!Deliver, Log
  <2>3. CASE WriteFailed
    BY <1>2, <2>3, WriteKeepsLog DEF WriteFailed
  <2>4. ASSUME NEW m \in Responses, Respond(m) PROVE O!Next
    BY <2>1, <2>4 DEF Respond, Msgs
  <2>5. CASE RunPosted
    <3>1. Head(posted) \in Msgs
      BY <2>0, <2>5 DEF RunPosted, Msgs
    <3> QED BY <2>1, <2>5, <3>1 DEF RunPosted
  <2>6. CASE (\E m \in Echoes : Send(m)) \/ Break \/ Leave \/ Register \/ UNCHANGED vars
    BY <2>6 DEF Send, Break, Leave, Register, vars, Log
  <2> QED BY <1>2, <2>2, <2>3, <2>4, <2>5, <2>6 DEF Next
<1> QED
  BY <1>1, <1>2, QueueInvariant, PTL DEF Spec, ImplementsOutbox, O!Spec, Log

-----------------------------------------------------------------------------
(* The echoes of the log and those that wait for the strand are the echoes *)
(* session_map::write took, in its order.                                  *)
EchoesKept == Echoed(Log) \o posted = posts

(* The echoes of a list of messages.                                       *)
LEMMA EchoedType ==
    ASSUME NEW seq \in Seq(Msgs)
    PROVE  Echoed(seq) \in Seq(Echoes)
<1> DEFINE K == {k \in DOMAIN seq : seq[k] \in Echoes}
<1> DEFINE r == Select(seq, K)
<1>1. r \in Seq(Msgs) /\ Len(r) \in Nat /\ r = [i \in 1..Len(r) |-> r[i]]
  <2>1. r \in Seq(Msgs)
    BY SelectEnumerates
  <2> HIDE DEF r
  <2> QED BY <2>1
<1>2. PICK e : Enumerates(e, r, seq, K, Len(seq))
  BY SelectEnumerates
<1> HIDE DEF r
<1>3. \A i \in 1..Len(r) : r[i] \in Echoes
  BY <1>2 DEF Enumerates
<1>4. [i \in 1..Len(r) |-> r[i]] \in Seq(Echoes)
  BY <1>1, <1>3, IsASeq
<1> QED BY <1>1, <1>4 DEF Echoed, r

(* An echo that is appended is the last of the echoes; a response is none  *)
(* of them.                                                                *)
LEMMA EchoedAppend ==
    ASSUME NEW seq \in Seq(Msgs), NEW m \in Msgs
    PROVE  Echoed(Append(seq, m)) =
               IF m \in Echoes THEN Append(Echoed(seq), m) ELSE Echoed(seq)
<1> DEFINE t == Append(seq, m)
<1> DEFINE K == {k \in DOMAIN seq : seq[k] \in Echoes}
<1> DEFINE H == {k \in DOMAIN t : t[k] \in Echoes}
<1>1. /\ DOMAIN seq = 1..Len(seq) /\ Len(seq) \in Nat /\ DOMAIN t = 1..(Len(seq) + 1)
      /\ t[Len(seq) + 1] = m /\ \A k \in 1..Len(seq) : t[k] = seq[k]
  OBVIOUS
<1>2. \A k \in 1..Len(seq) : k \in H <=> k \in K
  <2> HIDE DEF t
  <2>1. \A k \in 1..Len(seq) : k \in DOMAIN t /\ k \in DOMAIN seq
    BY <1>1
  <2> QED BY <1>1, <2>1
<1>3. Len(seq) + 1 \in H <=> m \in Echoes
  <2> HIDE DEF t
  <2> QED BY <1>1
<1>4. Echoed(t) = Select(t, H) /\ Echoed(seq) = Select(seq, K)
  BY DEF Echoed
<1> HIDE DEF H, K
<1>5. Select(Append(seq, m), H) =
          IF Len(seq) + 1 \in H THEN Append(Select(seq, K), m) ELSE Select(seq, K)
  BY <1>2, SelectAppend
<1> QED BY <1>3, <1>4, <1>5

(* The echoes of an initial part are an initial part of the echoes.        *)
LEMMA EchoedInitial ==
    ASSUME NEW a \in Seq(Msgs), NEW b \in Seq(Msgs)
    PROVE  Begins(Echoed(a), Echoed(a \o b))
<1> DEFINE t == a \o b
<1> DEFINE K == {k \in DOMAIN a : a[k] \in Echoes}
<1> DEFINE H == {k \in DOMAIN t : t[k] \in Echoes}
<1>1. /\ t \in Seq(Msgs) /\ Len(a) <= Len(t) /\ Len(a) \in Nat /\ Len(t) \in Nat
      /\ \A k \in 1..Len(a) : t[k] = a[k]
      /\ DOMAIN t = 1..Len(t) /\ DOMAIN a = 1..Len(a)
  OBVIOUS
<1> HIDE DEF t
<1>2. \A k \in 1..Len(a) : t[k] = a[k] /\ (k \in H <=> k \in K)
  <2>1. \A k \in 1..Len(a) : k \in DOMAIN t /\ k \in DOMAIN a
    BY <1>1
  <2> QED BY <1>1, <2>1
<1>3. Echoed(a) = Select(a, K) /\ Echoed(t) = Select(t, H)
  BY DEF Echoed
<1> HIDE DEF K, H
<1>4. Begins(Select(a, K), Select(t, H))
  BY <1>1, <1>2, SelectInitial
<1> QED BY <1>3, <1>4 DEF t

(* EchoesKept holds at the start.                                          *)
LEMMA InitEchoesKept == Init => EchoesKept
<1> SUFFICES ASSUME Init PROVE EchoesKept
  OBVIOUS
<1>1. Log = <<>> /\ posted = <<>> /\ posts = <<>>
  BY DEF Init, Log
<1>2. <<>> \in Seq(Msgs) /\ Len(<<>>) = 0
  OBVIOUS
<1>3. PICK e : Enumerates(e, Echoed(<<>>), <<>>, {k \in DOMAIN <<>> : <<>>[k] \in Echoes}, 0)
  BY <1>2, SelectEnumerates DEF Echoed
<1>4. Echoed(<<>>) \in Seq(Echoes)
  BY <1>2, EchoedType
<1>5. Echoed(<<>>) = <<>>
  <2> DEFINE r == Echoed(<<>>)
  <2>1. r \in Seq(Echoes) /\ e \in [1..Len(r) -> 1..0]
    BY <1>3, <1>4 DEF Enumerates
  <2> HIDE DEF r
  <2>2. 1..Len(r) = {}
    BY <2>1
  <2>3. Len(r) = 0
    <3>1. Len(r) \in Nat
      BY <2>1
    <3> QED BY <2>2, <3>1
  <2>4. r = <<>>
    BY <2>1, <2>3, EmptySeq
  <2> QED BY <2>4 DEF r
<1> QED BY <1>1, <1>5 DEF EchoesKept

(* Every step keeps EchoesKept.                                            *)
LEMMA NextEchoesKept == Inv /\ EchoesKept /\ [Next]_vars => EchoesKept'
<1> SUFFICES ASSUME Inv, EchoesKept, [Next]_vars PROVE EchoesKept'
  OBVIOUS
<1>1. /\ sent \in Seq(Msgs) /\ lost \in Seq(Msgs) /\ write_queue \in Seq(Msgs)
      /\ posted \in Seq(Echoes) /\ posts \in Seq(Echoes)
  BY DEF Inv, TypeOK
<1>2. Log \in Seq(Msgs)
  BY <1>1 DEF Log
<1> DEFINE E == Echoed(Log)
<1>3. E \in Seq(Echoes) /\ E \o posted = posts
  BY <1>2, EchoedType DEF EchoesKept
<1>4. ASSUME NEW m \in Responses, Respond(m) PROVE EchoesKept'
  <2>1. m \in Msgs /\ m \notin Echoes /\ Enqueue(m) /\ UNCHANGED <<sent, lost, posted, posts>>
    BY <1>4, DisjointAssumption DEF Respond, Msgs
  <2>2. Log' = Append(Log, m)
    BY <2>1, EnqueueLog
  <2>3. Echoed(Append(Log, m)) = E
    BY <1>2, <2>1, EchoedAppend
  <2> QED BY <1>3, <2>1, <2>2, <2>3 DEF EchoesKept
<1>5. ASSUME NEW m \in Echoes, Send(m) PROVE EchoesKept'
  <2>1. Log' = Log /\ posted' = Append(posted, m) /\ posts' = Append(posts, m)
    BY <1>5 DEF Send, Log
  <2> HIDE DEF E
  <2>2. E \o Append(posted, m) = Append(E \o posted, m)
    BY SMTT(30), <1>1, <1>3, <1>5, AppendLast
  <2> QED BY <1>3, <2>1, <2>2 DEF EchoesKept, E
<1>6. CASE RunPosted
  <2> DEFINE m == Head(posted)
  <2>1. /\ m \in Echoes /\ m \in Msgs /\ Enqueue(m) /\ posted # <<>>
        /\ UNCHANGED <<sent, lost, posts>> /\ posted' = Tail(posted)
    BY <1>1, <1>6 DEF RunPosted, Msgs
  <2>2. Log' = Append(Log, m)
    BY <2>1, EnqueueLog
  <2>3. Echoed(Append(Log, m)) = Append(E, m)
    BY <1>2, <2>1, EchoedAppend
  <2> HIDE DEF E
  <2>4. Append(E, m) \o Tail(posted) = E \o posted
    BY <1>1, <1>3, <2>1, ConcatMove
  <2> QED BY <1>3, <2>1, <2>2, <2>3, <2>4 DEF EchoesKept
<1>7. CASE Written \/ WriteFailed
  <2>1. Log' = Log
    BY <1>7, WriteKeepsLog
  <2> QED BY <1>7, <2>1 DEF Written, WriteFailed, EchoesKept
<1>8. CASE Break \/ Leave \/ Register \/ UNCHANGED vars
  BY <1>8 DEF Break, Leave, Register, vars, EchoesKept, Log
<1> QED BY <1>4, <1>5, <1>6, <1>7, <1>8 DEF Next

(***************************************************************************)
(* A player receives the echoes in the order in which the server took them *)
(* over, for any number of senders, responses and broken writes.           *)
(***************************************************************************)
THEOREM QueueEchoesInOrder == Spec => []EchoesInOrder
<1>1. Inv /\ EchoesKept => EchoesInOrder
  <2> SUFFICES ASSUME Inv, EchoesKept PROVE EchoesInOrder
    OBVIOUS
  <2>1. /\ sent \in Seq(Msgs) /\ lost \in Seq(Msgs) /\ write_queue \in Seq(Msgs)
        /\ posted \in Seq(Echoes) /\ posts \in Seq(Echoes)
    BY DEF Inv, TypeOK
  <2> DEFINE rest == lost \o write_queue
  <2>2. Log = sent \o rest /\ rest \in Seq(Msgs) /\ Log \in Seq(Msgs)
    BY <2>1, ConcatAssociative DEF Log
  <2> DEFINE r == Echoed(sent)
  <2> DEFINE E == Echoed(Log)
  <2> HIDE DEF rest
  <2>3. Begins(r, E)
    BY <2>1, <2>2, EchoedInitial
  <2>4. r \in Seq(Echoes) /\ E \in Seq(Echoes) /\ E \o posted = posts
    BY <2>1, <2>2, EchoedType DEF EchoesKept
  <2> HIDE DEF r, E
  <2>5. /\ Len(r) \in Nat /\ Len(r) <= Len(posts)
        /\ \A i \in 1..Len(r) : posts[i] = r[i]
    BY <2>1, <2>3, <2>4 DEF Begins
  <2>6. SubSeq(r, 1, Len(r)) = SubSeq(posts, 1, Len(r))
    BY <2>1, <2>4, <2>5
  <2> QED BY <2>5, <2>6 DEF EchoesInOrder, IsPrefix, r
<1> QED BY <1>1, InitInv, NextInv, InitEchoesKept, NextEchoesKept, PTL DEF Spec
=============================================================================
