---------------------------- MODULE ClientProofs ----------------------------
(***************************************************************************)
(* Proofs about Client, for any delays and any number of echoes.           *)
(***************************************************************************)
EXTENDS Client, TLAPS

(***************************************************************************)
(* A promise is open only while main is on its way to wait for it; the     *)
(* session is up before main leaves block_until_ready; the read loop waits *)
(* for a write only while there is one.                                    *)
(***************************************************************************)
Control ==
    /\ promise = "unset" => main \in {"getline", "wait", "aborted"} /\ waiting = "request"
    /\ reader = "starting" => ready = "pending" /\ link = "connecting"
    /\ ready = "pending" => main \in {"first", "ready"} /\ reader = "starting"
    /\ reader # "broken"

(* OneOutstanding place by place.                                          *)
AtMostOne ==
    /\ Len(posted) <= 1 /\ Len(writes) <= 1 /\ Len(inbox) <= 1
    /\ \A i, j \in Responses : i = j
    /\ posted # <<>> => writes = <<>> /\ inbox = <<>> /\ Responses = {}
    /\ writes # <<>> => inbox = <<>> /\ Responses = {}
    /\ inbox # <<>> => Responses = {}
    /\ posted # <<>> \/ writes # <<>> \/ inbox # <<>> \/ Responses # {} =>
          promise = "unset"

Kept ==
    promise = "unset" /\ posted = <<>> /\ writes = <<>> /\ inbox = <<>> /\ Responses = {} =>
        link # "up" /\ request # NULL

Inv == TypeOK /\ Control /\ AtMostOne /\ ResponseMatchesRequest /\ Kept

-----------------------------------------------------------------------------
(* What the first element and the rest of a sequence are.                  *)
LEMMA TailFacts ==
    ASSUME NEW S, NEW q \in Seq(S), q # <<>>
    PROVE  /\ Head(q) \in S /\ Head(q) = q[1]
           /\ Tail(q) \in Seq(S)
           /\ Len(q) \in Nat /\ Len(q) > 0 /\ 1 \in DOMAIN q
           /\ Len(Tail(q)) = Len(q) - 1
           /\ \A i \in DOMAIN Tail(q) : i + 1 \in DOMAIN q /\ Tail(q)[i] = q[i + 1]
           /\ Len(q) <= 1 => Tail(q) = <<>>
  OBVIOUS

(* The elements of the rest are all but the first.                         *)
LEMMA TailCovers ==
    ASSUME NEW S, NEW q \in Seq(S), q # <<>>, NEW i \in DOMAIN q, i # 1
    PROVE  i - 1 \in DOMAIN Tail(q) /\ Tail(q)[i - 1] = q[i]
<1>1. Len(q) \in Nat /\ i \in 1..Len(q) /\ i # 1
  OBVIOUS
<1>2. i - 1 \in 1..(Len(q) - 1) /\ (i - 1) + 1 = i
  BY <1>1
<1>3. DOMAIN Tail(q) = 1..(Len(q) - 1)
  BY <1>1
<1> QED BY <1>2, <1>3, TailFacts

(* What appending an element does.                                         *)
LEMMA AppendFacts ==
    ASSUME NEW S, NEW q \in Seq(S), NEW e \in S
    PROVE  /\ Append(q, e) \in Seq(S)
           /\ Append(q, e) # <<>>
           /\ Len(Append(q, e)) = Len(q) + 1
           /\ DOMAIN Append(q, e) = DOMAIN q \cup {Len(q) + 1}
           /\ \A i \in DOMAIN q : Append(q, e)[i] = q[i]
           /\ Append(q, e)[Len(q) + 1] = e
  OBVIOUS

(* Responses are positions of the outbox.                                  *)
LEMMA ResponsesType == TypeOK => Responses \subseteq DOMAIN outbox /\ DOMAIN outbox = 1..Len(outbox)
  BY DEF TypeOK, Responses

-----------------------------------------------------------------------------
(* Steps of main, of the clocks and of the server that touch nothing under *)
(* way.                                                                    *)
QuietMain ==
    \/ ReadFirstLine \/ BlockUntilReady \/ EmptyLine \/ Unhandled \/ GetLine
    \/ Wait \/ Stop \/ Join \/ CrashOnRefused \/ Tick \/ ServerRegister

(* Every step keeps the types.                                             *)
LEMMA NextType == Inv /\ [Next]_vars => TypeOK'
<1> SUFFICES ASSUME Inv, [Next]_vars PROVE TypeOK'
  OBVIOUS
<1> USE ClientAssumption, NullAssumption DEF Inv, mainVars, ioVars, playerVars, serverVars
<1>1. CASE QuietMain
  <2>1. CASE ReadFirstLine \/ GetLine
    BY <1>1, <2>1 DEF ReadFirstLine, GetLine, TypeOK
  <2>2. CASE BlockUntilReady \/ Wait \/ Stop \/ Join \/ CrashOnRefused
    <3>1. CASE BlockUntilReady
      BY <3>1 DEF BlockUntilReady, TypeOK
    <3>2. CASE Wait
      BY <3>2 DEF Wait, TypeOK
    <3>3. CASE Stop
      BY <3>3 DEF Stop, TypeOK
    <3>4. CASE Join
      BY <3>4 DEF Join, TypeOK
    <3>5. CASE CrashOnRefused
      BY <3>5 DEF CrashOnRefused, TypeOK
    <3> QED BY <2>2, <3>1, <3>2, <3>3, <3>4, <3>5
  <2>3. CASE Unhandled
    <3>1. handled' \in BOOLEAN
      BY <2>3 DEF Unhandled
    <3>2. /\ waiting' = "dummy" /\ main' = "getline"
          /\ UNCHANGED <<line, ioVars, playerVars, serverVars, promise, link, inbox, outbox>>
      BY <2>3 DEF Unhandled
    <3> QED BY <3>1, <3>2 DEF TypeOK
  <2>4. CASE EmptyLine
    BY <1>1, <2>4 DEF EmptyLine, TypeOK, vars
  <2>5. CASE Tick
    <3>1. ctimer' \in Nat /\ stimer' \in Nat
      BY <2>5 DEF Tick, TypeOK
    <3> QED BY <2>5, <3>1 DEF Tick, TypeOK
  <2>6. CASE ServerRegister
    BY <2>6 DEF ServerRegister, TypeOK
  <2> QED BY <1>1, <2>1, <2>2, <2>3, <2>4, <2>5, <2>6 DEF QuietMain
<1>2. CASE HandleCmd
  <2>1. PICK a \in BOOLEAN : posted' = Append(posted, [type |-> line, args |-> a])
    BY <1>2 DEF HandleCmd
  <2>2. line \in Commands /\ [type |-> line, args |-> a] \in [type : Commands, args : BOOLEAN]
    BY <1>2, <2>1 DEF HandleCmd
  <2>3. posted' \in Seq([type : Commands, args : BOOLEAN])
    BY <2>1, <2>2, AppendFacts DEF TypeOK
  <2> QED BY <1>2, <2>3 DEF HandleCmd, TypeOK
<1>3. CASE Start
  BY <1>3 DEF Start, TypeOK
<1>4. CASE RunCommand
  <2> DEFINE C == [type : Commands, args : BOOLEAN]
  <2>1. Head(posted) \in C /\ posted' \in Seq(C)
    <3> HIDE DEF C
    <3>1. posted \in Seq(C) /\ posted # <<>> /\ posted' = Tail(posted)
      BY <1>4 DEF RunCommand, TypeOK, C
    <3> QED BY <3>1, TailFacts
  <2>2. Head(posted).type \in Types
    BY <2>1 DEF Types
  <2>3. Append(writes, Head(posted).type) \in Seq(Types)
    BY <2>2, AppendFacts DEF TypeOK
  <2>4. request' \in Types \cup {NULL} /\ writes' \in Seq(Types)
        /\ promise' \in {"none", "unset", "set"}
    BY <1>4, <2>2, <2>3 DEF RunCommand, WriteMessage, TypeOK
  <2> QED BY <1>4, <2>1, <2>4 DEF RunCommand, TypeOK
<1>5. CASE WriteDone
  <2>1. Head(writes) \in Types /\ writes' \in Seq(Types)
    BY <1>5, TailFacts DEF WriteDone, TypeOK
  <2>2. inbox' \in Seq(Types)
    BY <1>5, <2>1, AppendFacts DEF WriteDone, TypeOK
  <2> QED BY <1>5, <2>1, <2>2 DEF WriteDone, Unchain, TypeOK
<1>6. CASE WriteFailed
  <2>1. writes' \in Seq(Types)
    BY <1>6, TailFacts DEF WriteFailed, TypeOK
  <2> QED BY <1>6, <2>1 DEF WriteFailed, Unchain, TypeOK
<1>7. CASE ReadFailed
  BY <1>7 DEF ReadFailed, TypeOK
<1>8. ASSUME CanRead PROVE Incoming \in Messages /\ Tail(outbox) \in Seq(Messages)
  BY <1>8, TailFacts DEF CanRead, Incoming, TypeOK
<1>9. CASE ReadOther
  BY <1>8, <1>9 DEF ReadOther, TypeOK
<1>10. CASE ReadError
  BY <1>8, <1>10 DEF ReadError, SetValue, TypeOK
<1>11. CASE ReadResponse
  <2>0. Incoming \in Messages /\ outbox' \in Seq(Messages)
    BY <1>8, <1>11 DEF ReadResponse
  <2>1. Incoming.delay \in Nat
    <3>1. Incoming = Echo => Incoming.delay = 0
      BY DEF Echo
    <3>2. Incoming # Echo => Incoming.delay \in Delays \cup {0}
      BY <2>0 DEF Messages
    <3>3. Delays \cup {0} \subseteq Nat
      BY ClientAssumption
    <3> QED BY <3>1, <3>2, <3>3
  <2>2. ctimer' \in Nat
    BY <1>11, <2>1 DEF ReadResponse, Process, ResetClock
  <2>3. static' \in BOOLEAN
    BY <1>11 DEF ReadResponse, Process, InitStatic
  <2>4. cstate' \in States /\ data' \in {"none", "loaded", "garbage"}
    BY <1>11 DEF ReadResponse, Process, TypeOK, States
  <2>5. request' \in Types \cup {NULL} /\ writes' \in Seq(Types)
        /\ promise' \in {"none", "unset", "set"}
        /\ reader' \in {"starting", "reading", "chaining", "ended", "broken"}
    <3>1. "getdata" \in Types /\ Append(writes, "getdata") \in Seq(Types)
      BY AppendFacts DEF TypeOK, Types
    <3> QED BY <1>11, <3>1 DEF ReadResponse, SetValue, WriteMessage, TypeOK
  <2> QED BY <1>11, <2>0, <2>2, <2>3, <2>4, <2>5 DEF ReadResponse, TypeOK
<1>12. CASE Close
  BY <1>12 DEF Close, TypeOK
<1>13. CASE LinkLost
  BY <1>13 DEF LinkLost, TypeOK
<1>14. CASE ServerAnswer
  <2>1. Head(inbox) \in Types /\ inbox' \in Seq(Types)
    BY <1>14, TailFacts DEF ServerAnswer, TypeOK
  <2>2. CASE ServerRejects(Head(inbox)) /\ outbox' = Append(outbox, Response(Head(inbox), "error", 0))
             /\ UNCHANGED serverVars
    <3>1. Response(Head(inbox), "error", 0) \in Messages
      BY <2>1 DEF Response, Messages, Bodies
    <3>2. outbox' \in Seq(Messages)
      BY <2>2, <3>1, AppendFacts DEF TypeOK
    <3> QED BY <1>14, <2>1, <2>2, <3>2 DEF ServerAnswer, TypeOK
  <2>3. ASSUME NEW body \in Answers(Head(inbox)), NEW d \in Delays \cup {0},
               outbox' = Append(outbox, Response(Head(inbox), body, d)),
               sstate' = StateAfter(Head(inbox), body), stimer' = d, registered' = FALSE
        PROVE  TypeOK'
    <3>1. body \in Bodies
      BY <2>1, <2>3 DEF Answers, Bodies, Types
    <3>2. Response(Head(inbox), body, d) \in Messages
      BY <2>1, <2>3, <3>1 DEF Response, Messages
    <3>3. outbox' \in Seq(Messages)
      BY <2>3, <3>2, AppendFacts DEF TypeOK
    <3>4. sstate' \in States /\ stimer' \in Nat
      BY <2>3 DEF StateAfter, States, TypeOK
    <3>5. registered' \in BOOLEAN
      BY <2>3
    <3> QED BY <1>14, <2>1, <3>3, <3>4, <3>5 DEF ServerAnswer, TypeOK
  <2> QED BY <1>14, <2>2, <2>3 DEF ServerAnswer
<1>15. CASE ServerEcho
  <2>1. outbox' \in Seq(Messages)
    BY <1>15, AppendFacts DEF ServerEcho, TypeOK, Messages
  <2> QED BY <1>15, <2>1 DEF ServerEcho, TypeOK
<1>16. CASE UNCHANGED vars
  BY <1>16 DEF vars, TypeOK
<1> QED
  BY <1>1, <1>2, <1>3, <1>4, <1>5, <1>6, <1>7, <1>9, <1>10, <1>11, <1>12, <1>13,
     <1>14, <1>15, <1>16 DEF Next, MainNext, IoNext, QuietMain

-----------------------------------------------------------------------------
(* Taking the first message from the outbox.                               *)
LEMMA ReadHead ==
    ASSUME Inv, CanRead, outbox' = Tail(outbox)
    PROVE  /\ \A i \in Responses' : i + 1 \in Responses /\ outbox'[i] = outbox[i + 1]
           /\ Incoming.tag = "response" =>
                 /\ Responses # {} /\ Responses' = {}
                 /\ Incoming.type = request
<1>1. outbox \in Seq(Messages) /\ outbox # <<>>
  BY DEF Inv, TypeOK, CanRead
<1>2. /\ Incoming = outbox[1] /\ 1 \in DOMAIN outbox
      /\ \A i \in DOMAIN outbox' : i + 1 \in DOMAIN outbox /\ outbox'[i] = outbox[i + 1]
  BY <1>1, TailFacts DEF Incoming
<1>3. outbox' \in Seq(Messages)
  BY <1>1, TailFacts
<1>4. \A i \in Responses' : i + 1 \in Responses /\ outbox'[i] = outbox[i + 1] /\ i \in Nat /\ i > 0
  BY <1>2, <1>3 DEF Responses
<1>5. ASSUME Incoming.tag = "response"
      PROVE  1 \in Responses /\ Responses' = {} /\ Incoming.type = request
  <2>1. 1 \in Responses
    BY <1>2, <1>5 DEF Responses
  <2>2. Responses' = {}
    <3> SUFFICES ASSUME NEW i \in Responses' PROVE FALSE
      OBVIOUS
    <3>1. i + 1 = 1
      BY <1>4, <2>1 DEF Inv, AtMostOne
    <3> QED BY <1>4, <3>1
  <2> QED BY <1>2, <2>1, <2>2 DEF Inv, ResponseMatchesRequest
<1> QED BY <1>4, <1>5

(* Of the responses, reading something else takes none.                    *)
LEMMA ReadEcho ==
    ASSUME Inv, CanRead, ~ IsResponse(Incoming), outbox' = Tail(outbox)
    PROVE  /\ \A i \in Responses' : i + 1 \in Responses /\ outbox'[i] = outbox[i + 1]
           /\ Responses' = {} <=> Responses = {}
           /\ Incoming.tag # "response"
<1>1. outbox \in Seq(Messages) /\ outbox # <<>>
  BY DEF CanRead, Inv, TypeOK
<1>2. Incoming = outbox[1] /\ Incoming \in Messages
  BY <1>1, TailFacts DEF Incoming
<1>3. Incoming.tag # "response"
  <2> SUFFICES ASSUME Incoming.tag = "response" PROVE FALSE
    OBVIOUS
  <2>1. Incoming.type = request
    BY ReadHead
  <2>2. Incoming.type \in Types
    BY <1>2 DEF Messages, Echo
  <2> QED BY <2>1, <2>2, NullAssumption DEF IsResponse
<1>4. \A i \in Responses' : i + 1 \in Responses /\ outbox'[i] = outbox[i + 1]
  BY ReadHead
<1>5. ASSUME NEW i \in Responses PROVE i - 1 \in Responses'
  <2>1. i \in DOMAIN outbox /\ i # 1
    BY <1>2, <1>3 DEF Responses
  <2>2. i - 1 \in DOMAIN outbox' /\ outbox'[i - 1] = outbox[i]
    BY <1>1, <2>1, TailCovers
  <2> QED BY <2>2 DEF Responses
<1> QED BY <1>3, <1>4, <1>5

(* What the fields of a response are.                                      *)
LEMMA ResponseFacts ==
    ASSUME TypeOK
    PROVE  \A i \in Responses : /\ outbox[i].type \in Types
                                /\ outbox[i].body \in Bodies
                                /\ outbox[i].delay \in Nat
<1> SUFFICES ASSUME NEW i \in Responses
             PROVE  outbox[i].type \in Types /\ outbox[i].body \in Bodies /\ outbox[i].delay \in Nat
  OBVIOUS
<1>1. outbox[i] \in Messages /\ outbox[i] # Echo
  BY DEF TypeOK, Responses, Echo
<1>2. outbox[i].type \in Types /\ outbox[i].body \in Bodies /\ outbox[i].delay \in Delays \cup {0}
  BY <1>1 DEF Messages
<1>3. Delays \cup {0} \subseteq Nat
  BY ClientAssumption
<1> QED BY <1>2, <1>3

(* Appending a message to the outbox.                                      *)
LEMMA Answered ==
    ASSUME TypeOK, NEW m \in Messages, outbox' = Append(outbox, m)
    PROVE  /\ m.tag # "response" => Responses' = Responses
           /\ Responses = {} => Responses' \subseteq {Len(outbox) + 1}
           /\ m.tag = "response" => Responses' # {}
           /\ \A i \in DOMAIN outbox : outbox'[i] = outbox[i]
           /\ outbox'[Len(outbox) + 1] = m
<1>1. outbox \in Seq(Messages)
  BY DEF TypeOK
<1>2. /\ DOMAIN outbox' = DOMAIN outbox \cup {Len(outbox) + 1}
      /\ \A i \in DOMAIN outbox : outbox'[i] = outbox[i]
      /\ outbox'[Len(outbox) + 1] = m
  BY <1>1, AppendFacts
<1>3. Responses' = Responses \cup {i \in {Len(outbox) + 1} : m.tag = "response"}
  BY <1>2 DEF Responses
<1> QED BY <1>2, <1>3

(* Every step keeps the rest of the invariant.                             *)
LEMMA NextRest == Inv /\ [Next]_vars => (Control /\ AtMostOne /\ ResponseMatchesRequest /\ Kept)'
<1> SUFFICES ASSUME Inv, [Next]_vars
             PROVE  Control' /\ AtMostOne' /\ ResponseMatchesRequest' /\ Kept'
  OBVIOUS
<1> USE NullAssumption DEF mainVars, ioVars, playerVars, serverVars
<1>1. CASE QuietMain \/ ReadFailed \/ Start
  <2>1. UNCHANGED <<promise, posted, request, writes, inbox, outbox>>
    BY <1>1 DEF QuietMain, ReadFirstLine, BlockUntilReady, EmptyLine, Unhandled, GetLine, Wait,
       Stop, Join, CrashOnRefused, Tick, ServerRegister, ReadFailed, Start, vars
  <2>2. AtMostOne' /\ ResponseMatchesRequest'
    BY <2>1 DEF Inv, AtMostOne, ResponseMatchesRequest, Responses
  <2>3. Control'
    <3>1. CASE Start
      BY <3>1 DEF Start, Inv, Control
    <3>2. CASE ReadFailed
      BY <3>2 DEF ReadFailed, Inv, Control
    <3>3. CASE BlockUntilReady
      BY <3>3 DEF BlockUntilReady, Inv, Control
    <3>4. CASE Wait
      BY <3>4 DEF Wait, Inv, Control
    <3>5. CASE Unhandled
      BY <3>5 DEF Unhandled, Inv, Control
    <3>6. CASE ReadFirstLine \/ GetLine
      BY <3>6 DEF ReadFirstLine, GetLine, Inv, Control
    <3>7. CASE Stop \/ Join
      BY <3>7 DEF Stop, Join, Inv, Control
    <3>8. CASE CrashOnRefused
      BY <3>8 DEF CrashOnRefused, CanRead, Inv, Control
    <3>9. CASE EmptyLine
      BY <3>9 DEF EmptyLine, vars, Inv, Control
    <3>10. CASE Tick
      BY <3>10 DEF Tick, Inv, Control
    <3>11. CASE ServerRegister
      BY <3>11 DEF ServerRegister, Inv, Control
    <3> QED BY <1>1, <3>1, <3>2, <3>3, <3>4, <3>5, <3>6, <3>7, <3>8, <3>9, <3>10, <3>11
       DEF QuietMain
  <2>4. promise = "unset" => UNCHANGED link
    BY <1>1 DEF QuietMain, ReadFirstLine, BlockUntilReady, EmptyLine, Unhandled, GetLine, Wait,
       Stop, Join, CrashOnRefused, Tick, ServerRegister, ReadFailed, Start, vars, Inv, Control
  <2> QED BY <2>1, <2>2, <2>3, <2>4 DEF Inv, Kept, Responses
<1>2. CASE HandleCmd
  <2>1. promise # "unset"
    BY <1>2 DEF HandleCmd, Inv, Control
  <2>2. posted = <<>> /\ writes = <<>> /\ inbox = <<>> /\ Responses = {}
    BY <2>1 DEF Inv, AtMostOne
  <2>3. posted' # <<>> /\ Len(posted') = 1
    BY <1>2, <2>2 DEF HandleCmd
  <2>4. Control'
    BY <1>2 DEF HandleCmd, Inv, Control
  <2> QED BY <1>2, <2>2, <2>3, <2>4 DEF HandleCmd, AtMostOne, ResponseMatchesRequest, Kept,
         Responses
<1>3. CASE RunCommand
  <2>1. /\ writes = <<>> /\ inbox = <<>> /\ Responses = {} /\ promise = "unset"
        /\ posted' = <<>>
    BY <1>3, TailFacts DEF RunCommand, Inv, AtMostOne, TypeOK
  <2>2. Control'
    BY <1>3 DEF RunCommand, Inv, Control
  <2>3. CASE WriteMessage(Head(posted).type) /\ UNCHANGED promise
    <3>1. writes' = <<Head(posted).type>> /\ request' = Head(posted).type
      BY <2>1, <2>3 DEF WriteMessage
    <3> QED BY <1>3, <2>1, <2>2, <2>3, <3>1 DEF RunCommand, AtMostOne, ResponseMatchesRequest,
           Kept, Responses
  <2>4. CASE promise' = "set" /\ UNCHANGED <<request, writes>>
    BY <1>3, <2>1, <2>2, <2>4 DEF RunCommand, AtMostOne, ResponseMatchesRequest, Kept, Responses
  <2> QED BY <1>3, <2>3, <2>4 DEF RunCommand
<1>4. CASE WriteDone
  <2>1. /\ posted = <<>> /\ inbox = <<>> /\ Responses = {} /\ promise = "unset"
        /\ writes' = <<>> /\ Head(writes) = request /\ Head(writes) \in Types
    BY <1>4, TailFacts DEF WriteDone, Inv, AtMostOne, ResponseMatchesRequest, TypeOK
  <2>2. Control'
    BY <1>4 DEF WriteDone, Unchain, Inv, Control
  <2>3. inbox' = <<request>> \/ (link # "up" /\ inbox' = <<>>)
    BY <1>4, <2>1 DEF WriteDone
  <2>4. request # NULL
    BY <2>1
  <2> QED BY <1>4, <2>1, <2>2, <2>3, <2>4 DEF WriteDone, AtMostOne, ResponseMatchesRequest, Kept,
         Responses
<1>5. CASE WriteFailed
  <2>1. posted = <<>> /\ inbox = <<>> /\ Responses = {} /\ writes' = <<>>
    BY <1>5, TailFacts DEF WriteFailed, Inv, AtMostOne, TypeOK
  <2>2. Control'
    BY <1>5 DEF WriteFailed, Unchain, Inv, Control
  <2>3. /\ posted' = <<>> /\ inbox' = <<>> /\ writes' = <<>> /\ Responses' = {}
        /\ promise' = "set"
    BY <1>5, <2>1 DEF WriteFailed, Responses
  <2>4. AtMostOne' /\ ResponseMatchesRequest'
    BY <2>3 DEF AtMostOne, ResponseMatchesRequest
  <2> QED BY <2>2, <2>3, <2>4 DEF Kept
<1>6. ASSUME CanRead, Incoming.tag = "response", outbox' = Tail(outbox)
      PROVE  /\ posted = <<>> /\ writes = <<>> /\ inbox = <<>> /\ promise = "unset"
             /\ Responses' = {} /\ request # NULL
  <2>1. Responses # {} /\ Responses' = {} /\ Incoming.type = request
    BY <1>6, ReadHead
  <2>2. outbox \in Seq(Messages) /\ outbox # <<>>
    BY <1>6 DEF CanRead, Inv, TypeOK
  <2>3. Incoming \in Messages
    BY <2>2, TailFacts DEF Incoming
  <2>4. Incoming.type \in Types
    BY <1>6, <2>3 DEF Messages, Echo
  <2> QED BY <2>1, <2>4 DEF Inv, AtMostOne
<1>7. CASE ReadOther
  <2>1. CanRead /\ ~ IsResponse(Incoming) /\ outbox' = Tail(outbox)
    BY <1>7 DEF ReadOther
  <2>2. Incoming.tag # "response"
    BY <1>6, <2>1 DEF IsResponse
  <2>3. UNCHANGED <<posted, writes, request, inbox, promise, link, main, waiting, ready>>
    BY <1>7 DEF ReadOther
  <2>4. \A i \in Responses' : i + 1 \in Responses /\ outbox'[i] = outbox[i + 1] /\ i \in Nat
    <3>1. outbox' \in Seq(Messages)
      BY <2>1, TailFacts DEF CanRead, Inv, TypeOK
    <3> QED BY <2>1, <3>1, ReadHead DEF Responses
  <2>5. Control'
    <3>1. Incoming \in Messages
      BY <2>1, TailFacts DEF CanRead, Incoming, Inv, TypeOK
    <3>2. Parses(Incoming)
      BY <2>2, <3>1 DEF Parses, Messages, Echo
    <3> QED BY <1>7, <2>1, <2>3, <3>2 DEF ReadOther, CanRead, Inv, Control
  <2>6. \A i, j \in Responses' : i = j
    BY <2>4 DEF Inv, AtMostOne
  <2>7. Responses = {} => Responses' = {}
    BY <2>4
  <2>8. AtMostOne' /\ ResponseMatchesRequest'
    BY <2>3, <2>4, <2>6, <2>7 DEF Inv, AtMostOne, ResponseMatchesRequest
  <2>9. Responses' = {} => Responses = {}
    BY <2>1, ReadEcho
  <2> QED BY <2>3, <2>5, <2>8, <2>9 DEF Inv, Kept
<1>8. CASE ReadError
  <2>1. /\ posted = <<>> /\ writes = <<>> /\ inbox = <<>> /\ promise = "unset"
        /\ Responses' = {}
    BY <1>6, <1>8 DEF ReadError, IsResponse
  <2>2. promise' = "set" /\ UNCHANGED reader
    BY <1>8, <2>1 DEF ReadError, SetValue
  <2>3. Control'
    BY <1>8, <2>2 DEF ReadError, Inv, Control
  <2>4. posted' = <<>> /\ writes' = <<>> /\ inbox' = <<>>
    BY <1>8, <2>1 DEF ReadError
  <2>5. AtMostOne' /\ ResponseMatchesRequest'
    BY <2>1, <2>4 DEF AtMostOne, ResponseMatchesRequest
  <2> QED BY <2>2, <2>3, <2>5 DEF Kept
<1>9. CASE ReadResponse
  <2>1. /\ posted = <<>> /\ writes = <<>> /\ inbox = <<>> /\ promise = "unset"
        /\ Responses' = {}
    BY <1>6, <1>9 DEF ReadResponse, IsResponse
  <2>2. posted' = <<>> /\ inbox' = <<>>
    BY <1>9, <2>1 DEF ReadResponse
  <2>3. CASE WriteMessage("getdata") /\ reader' = "chaining" /\ UNCHANGED promise
    <3>1. writes' = <<"getdata">> /\ request' = "getdata"
      BY <2>1, <2>3 DEF WriteMessage
    <3>2. Control'
      BY <1>9, <2>3 DEF ReadResponse, CanRead, Inv, Control
    <3>3. AtMostOne' /\ ResponseMatchesRequest'
      BY <2>1, <2>2, <2>3, <3>1 DEF AtMostOne, ResponseMatchesRequest
    <3> QED BY <3>1, <3>2, <3>3 DEF Kept
  <2>4. CASE SetValue /\ UNCHANGED <<request, writes>>
    <3>1. promise' = "set" /\ UNCHANGED reader /\ writes' = <<>>
      BY <2>1, <2>4 DEF SetValue
    <3>2. Control'
      BY <1>9, <3>1 DEF ReadResponse, Inv, Control
    <3>3. AtMostOne' /\ ResponseMatchesRequest'
      BY <2>1, <2>2, <3>1 DEF AtMostOne, ResponseMatchesRequest
    <3> QED BY <3>1, <3>2, <3>3 DEF Kept
  <2> QED BY <1>9, <2>3, <2>4 DEF ReadResponse
<1>10. CASE Close
  <2>1. promise # "unset"
    BY <1>10 DEF Close, Inv, Control
  <2>2. posted' = <<>> /\ writes' = <<>> /\ inbox' = <<>> /\ outbox' = <<>> /\ promise' # "unset"
    BY <1>10, <2>1 DEF Close, Inv, AtMostOne
  <2>3. Responses' = {}
    BY <2>2 DEF Responses
  <2>4. Control'
    BY <1>10, <2>1 DEF Close, Inv, Control
  <2>5. AtMostOne' /\ ResponseMatchesRequest'
    BY <2>2, <2>3 DEF AtMostOne, ResponseMatchesRequest
  <2> QED BY <2>2, <2>4, <2>5 DEF Kept
<1>11. CASE LinkLost
  <2>1. PICK n \in 0..Len(outbox) : outbox' = SubSeq(outbox, 1, n)
    BY <1>11 DEF LinkLost
  <2>2. /\ DOMAIN outbox' \subseteq DOMAIN outbox
        /\ \A i \in DOMAIN outbox' : outbox'[i] = outbox[i]
    BY <2>1 DEF Inv, TypeOK
  <2>3. Responses' \subseteq Responses /\ \A i \in Responses' : outbox'[i] = outbox[i]
    BY <2>2 DEF Responses
  <2>4. UNCHANGED <<posted, writes, request, promise>> /\ inbox' = <<>> /\ link' = "down"
    BY <1>11 DEF LinkLost
  <2>5. Control'
    BY <1>11 DEF LinkLost, Inv, Control
  <2>6. AtMostOne'
    BY <2>3, <2>4 DEF Inv, AtMostOne
  <2>7. ResponseMatchesRequest'
    BY <2>3, <2>4 DEF Inv, ResponseMatchesRequest
  <2>8. ASSUME promise = "unset", posted = <<>>, writes = <<>>
        PROVE  request # NULL
    <3>1. CASE inbox # <<>>
      <4>1. 1 \in DOMAIN inbox /\ inbox[1] \in Types
        BY <3>1, TailFacts DEF Inv, TypeOK
      <4> QED BY <4>1 DEF Inv, ResponseMatchesRequest
    <3>2. CASE Responses # {}
      <4>1. PICK i \in Responses : TRUE
        BY <3>2
      <4>2. outbox[i] \in Messages /\ outbox[i].tag = "response"
        BY <4>1 DEF Responses, Inv, TypeOK
      <4>3. outbox[i].type \in Types
        BY <4>2 DEF Messages, Echo
      <4>4. outbox[i].type = request
        BY <4>1 DEF Inv, ResponseMatchesRequest
      <4> QED BY <4>3, <4>4
    <3> QED BY <2>8, <3>1, <3>2 DEF Inv, Kept
  <2>9. Kept'
    BY <2>4, <2>8 DEF Kept
  <2> QED BY <2>5, <2>6, <2>7, <2>9
<1>12. CASE ServerAnswer
  <2>1. /\ posted = <<>> /\ writes = <<>> /\ Responses = {} /\ promise = "unset"
        /\ inbox' = <<>> /\ Head(inbox) = request /\ Head(inbox) \in Types
    BY <1>12, TailFacts DEF ServerAnswer, Inv, AtMostOne, ResponseMatchesRequest, TypeOK
  <2>2. UNCHANGED <<posted, writes, request, promise, link, main, waiting, ready, reader>>
    BY <1>12 DEF ServerAnswer
  <2>3. PICK b \in Bodies, d \in Delays \cup {0} : outbox' = Append(outbox, Response(request, b, d))
    <3>1. Answers(Head(inbox)) \subseteq Bodies /\ "error" \in Bodies
      BY <2>1 DEF Answers, Bodies, Types
    <3> QED BY <1>12, <2>1, <3>1 DEF ServerAnswer
  <2> DEFINE m == Response(request, b, d)
  <2>4. m \in Messages /\ m.tag = "response" /\ m.type = request
    BY <2>1 DEF Response, Messages
  <2>5. /\ Responses' \subseteq {Len(outbox) + 1} /\ Responses' # {}
        /\ outbox'[Len(outbox) + 1] = m
    BY <2>1, <2>3, <2>4, Answered DEF Inv
  <2> HIDE DEF m
  <2>6. Control'
    BY <1>12, <2>2 DEF Inv, Control
  <2>7. AtMostOne' /\ ResponseMatchesRequest'
    BY <2>1, <2>2, <2>4, <2>5 DEF AtMostOne, ResponseMatchesRequest
  <2> QED BY <2>5, <2>6, <2>7 DEF Kept
<1>13. CASE ServerEcho
  <2>1. Echo \in Messages /\ Echo.tag # "response" /\ outbox' = Append(outbox, Echo)
    BY <1>13 DEF ServerEcho, Messages, Echo
  <2>2. Responses' = Responses /\ \A i \in Responses : outbox'[i] = outbox[i]
    BY <2>1, Answered, ResponsesType DEF Inv
  <2>3. UNCHANGED <<posted, writes, inbox, request, promise, link, main, waiting, ready, reader>>
    BY <1>13 DEF ServerEcho
  <2>4. Control'
    BY <2>3 DEF Inv, Control
  <2>5. AtMostOne'
    BY <2>2, <2>3 DEF Inv, AtMostOne
  <2>6. ResponseMatchesRequest'
    BY <2>2, <2>3 DEF Inv, ResponseMatchesRequest
  <2> QED BY <2>2, <2>3, <2>4, <2>5, <2>6 DEF Inv, Kept
<1>14. CASE UNCHANGED vars
  BY <1>14 DEF vars, Inv, Control, AtMostOne, ResponseMatchesRequest, Kept, Responses
<1> QED
  BY <1>1, <1>2, <1>3, <1>4, <1>5, <1>7, <1>8, <1>9, <1>10, <1>11, <1>12, <1>13, <1>14
     DEF Next, MainNext, IoNext, QuietMain

-----------------------------------------------------------------------------
(* Inv holds at the start.                                                 *)
LEMMA InitInv == Init => Inv
<1> SUFFICES ASSUME Init PROVE Inv
  OBVIOUS
<1>1. TypeOK
  <2>1. /\ posted \in Seq([type : Commands, args : BOOLEAN])
        /\ writes \in Seq(Types) /\ inbox \in Seq(Types) /\ outbox \in Seq(Messages)
    BY DEF Init
  <2> QED BY <2>1 DEF Init, TypeOK, Lines, States
<1>2. Responses = {}
  BY DEF Init, Responses
<1> QED BY <1>1, <1>2 DEF Init, Inv, Control, AtMostOne, ResponseMatchesRequest, Kept

(* Inv is an invariant of Client.                                          *)
THEOREM ClientInvariant == Spec => []Inv
<1>1. Inv /\ [Next]_vars => Inv'
  BY NextType, NextRest DEF Inv
<1> QED BY <1>1, InitInv, PTL DEF Spec

(***************************************************************************)
(* Whatever the user types, the server answers and the connection does,    *)
(* every variable of the client stays within its type.                     *)
(***************************************************************************)
THEOREM ClientTypeOK == Spec => []TypeOK
<1>1. Inv => TypeOK
  BY DEF Inv
<1> QED BY <1>1, ClientInvariant, PTL

(* Nothing is under way when all four places are empty.                    *)
LEMMA NothingUnderWay ==
    ASSUME TypeOK
    PROVE  UnderWay = {} <=>
              posted = <<>> /\ writes = <<>> /\ inbox = <<>> /\ Responses = {}
<1>1. /\ posted = <<>> <=> DOMAIN posted = {}
      /\ writes = <<>> <=> DOMAIN writes = {}
      /\ inbox = <<>> <=> DOMAIN inbox = {}
  BY DEF TypeOK
<1> QED BY <1>1, Zenon DEF UnderWay

(* The token of the only request under way is the only token.              *)
LEMMA OneToken == Inv => OneOutstanding
<1> SUFFICES ASSUME Inv PROVE OneOutstanding
  OBVIOUS
<1>1. /\ \A i, j \in DOMAIN posted : i = j
      /\ \A i, j \in DOMAIN writes : i = j
      /\ \A i, j \in DOMAIN inbox : i = j
      /\ \A i, j \in Responses : i = j
  BY DEF Inv, TypeOK, AtMostOne
<1>2. /\ posted = <<>> => DOMAIN posted = {}
      /\ writes = <<>> => DOMAIN writes = {}
      /\ inbox = <<>> => DOMAIN inbox = {}
  OBVIOUS
<1>3. /\ DOMAIN posted # {} => DOMAIN writes = {} /\ DOMAIN inbox = {} /\ Responses = {}
      /\ DOMAIN writes # {} => DOMAIN inbox = {} /\ Responses = {}
      /\ DOMAIN inbox # {} => Responses = {}
  BY <1>2 DEF Inv, AtMostOne
<1>4. ASSUME NEW x \in UnderWay, NEW y \in UnderWay PROVE x = y
  BY <1>1, <1>3, Zenon DEF UnderWay
<1>5. promise # "unset" => UnderWay = {}
  BY NothingUnderWay DEF Inv, AtMostOne
<1> QED BY <1>4, <1>5 DEF OneOutstanding

(***************************************************************************)
(* client_session.h, "User will not overwrite a non-fulfilled promise":    *)
(* for any interleaving of main, the coroutines and the server, from the   *)
(* command to its response at most one request is under way, and none      *)
(* while the promise is fulfilled.                                         *)
(***************************************************************************)
THEOREM ClientOneOutstanding == Spec => []OneOutstanding
BY OneToken, ClientInvariant, PTL

(***************************************************************************)
(* client_session.cpp, "this response must match the request": whatever is *)
(* under way is of the type of request_, so that merging it by position    *)
(* and not by type is right.                                               *)
(***************************************************************************)
THEOREM ClientResponseMatchesRequest == Spec => []ResponseMatchesRequest
<1>1. Inv => ResponseMatchesRequest
  BY DEF Inv
<1> QED BY <1>1, ClientInvariant, PTL

(***************************************************************************)
(* A promise that is not fulfilled has a request under way that will       *)
(* fulfil it, unless the connection is gone.                               *)
(***************************************************************************)
THEOREM ClientPromiseKept == Spec => []PromiseKept
<1>1. Inv => PromiseKept
  BY NothingUnderWay DEF Inv, Kept, PromiseKept
<1> QED BY <1>1, ClientInvariant, PTL

(***************************************************************************)
(* No exception ends the read loop of client_session::start: no promise is *)
(* set twice and no response comes without its request.                    *)
(***************************************************************************)
THEOREM ClientReaderSurvives == Spec => []ReaderSurvives
<1>1. Inv => ReaderSurvives
  BY DEF Inv, Control, ReaderSurvives
<1> QED BY <1>1, ClientInvariant, PTL

-----------------------------------------------------------------------------
(* Client and server step by step.                                         *)

Sent == writes # <<>> \/ inbox # <<>>

(* The state of the client when it has processed a response.               *)
StateThen(type, body) ==
    CASE type = "login" /\ body = "ok" -> "createchar"
      [] type = "login" /\ body \in {"char", "refused"} -> "ingame"
      [] type = "createchar" /\ body = "ok" -> "ingame"
      [] OTHER -> cstate

(***************************************************************************)
(* What the client validated still holds when the response is processed;   *)
(* the server is where the client is, or will be.                          *)
(***************************************************************************)
StatesInStep ==
    /\ data = "garbage" => cstate = "ingame"
    /\ Sent \/ Responses # {} => /\ request = "login" => cstate = "prelogin"
                                 /\ request = "createchar" => cstate = "createchar"
    /\ Responses = {} => data = "garbage" \/ cstate = sstate
    /\ \A i \in Responses :
          \/ data = "garbage"
          \/ request = "login" /\ outbox[i].body = "refused"
          \/ sstate = StateThen(request, outbox[i].body)

(* The getdata that follows a login will be answered with the static data. *)
StaticInStep ==
    /\ promise # "unset" \/ posted # <<>> \/ request # "getdata" =>
          cstate = "prelogin" \/ static
    /\ Sent /\ request = "getdata" =>
          stimer = 0 /\ (cstate = "prelogin" \/ static \/ sstate # "prelogin")
    /\ \A i \in Responses :
          /\ request = "getdata" => outbox[i].body = "ok" \/ cstate = "prelogin" \/ static
          /\ request = "login" /\ outbox[i].body # "error" =>
                /\ stimer = 0
                /\ outbox[i].body # "fail" => sstate # "prelogin"

(* The client's clock is behind the server's, or will be.                  *)
ClocksInStep ==
    /\ Responses = {} => stimer <= ctimer
    /\ \A i \in Responses :
          stimer <= CASE outbox[i].body = "error" -> ctimer
                      [] outbox[i].body # "error" /\ request = "fight" -> outbox[i].delay
                      [] OTHER -> 0
    /\ posted # <<>> \/ Sent => stimer = 0

(* The clock that is not looked at has run out.                            *)
NoCooldown == ~ handled => ctimer = 0 /\ promise # "unset"

InStep ==
    /\ NoCooldown
    /\ inbox # <<>> => link = "up"
    /\ link = "connecting" => ready = "pending"
    /\ link \in {"connecting", "up"} => StatesInStep /\ StaticInStep /\ ClocksInStep

(* InStep holds at the start.                                              *)
LEMMA InitInStep == Init => InStep
BY DEF Init, InStep, NoCooldown, StatesInStep, StaticInStep, ClocksInStep, Sent, Responses

(* Every step keeps the client and the server in step.                     *)
LEMMA NextInStep == Inv /\ InStep /\ [Next]_vars => InStep'
<1> SUFFICES ASSUME Inv, InStep, [Next]_vars PROVE InStep'
  OBVIOUS
<1> USE DEF mainVars, ioVars, playerVars, serverVars
<1>0. ctimer \in Nat /\ stimer \in Nat
  BY DEF Inv, TypeOK
<1>a. NoCooldown'
  <2>1. NoCooldown /\ (promise = "unset" => handled)
    BY DEF InStep, NoCooldown
  <2>2. CASE Unhandled
    BY <2>1, <2>2 DEF Unhandled, CooledDown, NoCooldown, Inv, Control
  <2>3. CASE HandleCmd
    BY <2>3 DEF HandleCmd, NoCooldown
  <2>4. CASE RunCommand
    BY <2>1, <2>4 DEF RunCommand, NoCooldown
  <2>5. CASE WriteFailed
    BY <2>1, <2>5 DEF WriteFailed, NoCooldown
  <2>6. CASE ReadError
    BY <2>1, <2>6 DEF ReadError, SetValue, NoCooldown
  <2>7. CASE ReadResponse
    <3>1. promise = "unset"
      <4>1. Responses # {}
        BY <2>7, ReadHead DEF ReadResponse, IsResponse
      <4> QED BY <4>1 DEF Inv, AtMostOne
    <3>2. handled' = handled /\ handled
      BY <2>1, <2>7, <3>1 DEF ReadResponse
    <3> QED BY <3>2 DEF NoCooldown
  <2>8. CASE Tick
    BY <1>0, <2>1, <2>8 DEF Tick, NoCooldown
  <2>9. CASE UNCHANGED <<handled, ctimer, promise>>
    BY <2>1, <2>9 DEF NoCooldown
  <2> QED
    BY <2>2, <2>3, <2>4, <2>5, <2>6, <2>7, <2>8, <2>9
       DEF Next, MainNext, IoNext, ReadFirstLine, BlockUntilReady, EmptyLine, GetLine, Wait, Stop,
           Join, Start, WriteDone, ReadFailed, ReadOther, CrashOnRefused, Close, LinkLost,
           ServerRegister, ServerAnswer, ServerEcho, vars
<1> USE <1>a
<1>1. CASE UNCHANGED <<posted, request, writes, inbox, outbox, promise, link, ready, playerVars,
                       sstate, stimer>>
  BY <1>1 DEF InStep, StatesInStep, StaticInStep, ClocksInStep, Sent, Responses, StateThen
<1>2. CASE QuietMain \/ ReadFailed
  <2>1. CASE Tick
    <3>1. stimer' \in Nat /\ stimer' <= stimer /\ \A n \in Nat : stimer <= n => stimer' <= n
      BY <1>0, <2>1 DEF Tick
    <3>2. stimer <= ctimer => stimer' <= ctimer'
      BY <1>0, <2>1 DEF Tick
    <3>3. UNCHANGED <<posted, request, writes, inbox, outbox, promise, link, ready, cstate, data,
                      static, sstate>>
      BY <2>1 DEF Tick
    <3>4. Responses' = Responses
      BY <3>3 DEF Responses
    <3>5. \A i \in Responses : outbox[i].delay \in Nat
      BY ResponseFacts DEF Inv
    <3>6. StatesInStep => StatesInStep'
      BY <3>3, <3>4 DEF StatesInStep, Sent, StateThen
    <3>7. StaticInStep => StaticInStep'
      BY <1>0, <3>1, <3>3, <3>4 DEF StaticInStep, Sent
    <3>8. ClocksInStep => ClocksInStep'
      BY <1>0, <3>1, <3>2, <3>3, <3>4, <3>5 DEF ClocksInStep, Sent
    <3> QED BY <3>3, <3>6, <3>7, <3>8 DEF InStep
  <2> QED BY <1>1, <1>2, <2>1 DEF QuietMain, ReadFirstLine, BlockUntilReady, EmptyLine, Unhandled,
         GetLine, Wait, Stop, Join, CrashOnRefused, ServerRegister, ReadFailed, vars
<1>3. CASE Start
  <2>1. UNCHANGED <<posted, request, writes, inbox, outbox, promise, playerVars, serverVars>>
    BY <1>3 DEF Start
  <2>2. inbox = <<>> /\ link = "connecting" /\ link' # "connecting"
    BY <1>3 DEF Start, Inv, Control, InStep
  <2>3. StatesInStep' /\ StaticInStep' /\ ClocksInStep'
    BY <2>1, <2>2 DEF InStep, StatesInStep, StaticInStep, ClocksInStep, Sent, Responses, StateThen
  <2> QED BY <2>1, <2>2, <2>3 DEF InStep
<1>4. CASE HandleCmd
  <2>1. promise # "unset" /\ ready # "pending" /\ link # "connecting"
    BY <1>4 DEF HandleCmd, Inv, Control, InStep
  <2>2. posted = <<>> /\ writes = <<>> /\ inbox = <<>> /\ Responses = {}
    BY <2>1 DEF Inv, AtMostOne
  <2>3. UNCHANGED <<request, writes, inbox, outbox, link, ready, playerVars, serverVars>>
    BY <1>4 DEF HandleCmd
  <2>4. Responses' = {} /\ ~ Sent'
    BY <2>2, <2>3 DEF Responses, Sent
  <2>5. ASSUME link = "up" PROVE StatesInStep' /\ StaticInStep' /\ ClocksInStep'
    <3>1. StatesInStep'
      BY <2>2, <2>3, <2>4, <2>5 DEF InStep, StatesInStep
    <3>2. StaticInStep'
      BY <2>1, <2>3, <2>4, <2>5 DEF InStep, StaticInStep
    <3>3. stimer <= ctimer
      BY <2>2, <2>5 DEF InStep, ClocksInStep
    <3>4. stimer = 0
      <4>1. ctimer = 0
        BY <1>4 DEF HandleCmd, CooledDown, InStep, NoCooldown
      <4> QED BY <1>0, <3>3, <4>1
    <3> QED BY <2>3, <2>4, <3>1, <3>2, <3>3, <3>4 DEF ClocksInStep
  <2> QED BY <2>1, <2>2, <2>3, <2>5 DEF InStep
<1>5. CASE RunCommand
  <2>1. /\ writes = <<>> /\ inbox = <<>> /\ Responses = {} /\ promise = "unset"
        /\ posted' = <<>> /\ posted # <<>>
    BY <1>5, TailFacts DEF RunCommand, Inv, AtMostOne, TypeOK
  <2>2. UNCHANGED <<inbox, outbox, link, ready, playerVars, serverVars>>
    BY <1>5 DEF RunCommand
  <2>3. Responses' = {} /\ ready # "pending" /\ link # "connecting"
    BY <2>1, <2>2 DEF Responses, Inv, Control, InStep
  <2>4. ASSUME link = "up" PROVE StatesInStep' /\ StaticInStep' /\ ClocksInStep'
    <3>1. CASE Allowed(Head(posted).type, cstate, static) /\ WriteMessage(Head(posted).type)
               /\ UNCHANGED promise
      <4>1. Head(posted).type \in Commands
        <5> DEFINE C == [type : Commands, args : BOOLEAN]
        <5>1. Head(posted) \in C
          <6>1. posted \in Seq(C)
            BY DEF Inv, TypeOK
          <6> HIDE DEF C
          <6> QED BY <2>1, <6>1, TailFacts
        <5> QED BY <5>1
      <4>2. request' # "getdata" /\ request' = Head(posted).type /\ Sent'
        BY <2>1, <3>1, <4>1 DEF WriteMessage, Commands, Sent
      <4>3. /\ request' = "login" => cstate = "prelogin"
            /\ request' = "createchar" => cstate = "createchar"
        BY <3>1, <4>2 DEF Allowed
      <4>4. StatesInStep'
        BY <2>1, <2>2, <2>3, <2>4, <4>3 DEF InStep, StatesInStep
      <4>5. StaticInStep'
        BY <2>1, <2>2, <2>3, <2>4, <4>2 DEF InStep, StaticInStep
      <4>6. ClocksInStep'
        BY <2>1, <2>2, <2>3, <2>4 DEF InStep, ClocksInStep
      <4> QED BY <4>4, <4>5, <4>6
    <3>2. CASE promise' = "set" /\ UNCHANGED <<request, writes>>
      <4>1. ~ Sent'
        BY <2>1, <2>2, <3>2 DEF Sent
      <4> QED BY <2>1, <2>2, <2>3, <2>4, <4>1 DEF InStep, StatesInStep, StaticInStep, ClocksInStep
    <3> QED BY <1>5, <3>1, <3>2 DEF RunCommand
  <2> QED BY <2>1, <2>2, <2>3, <2>4 DEF InStep
<1>6. CASE WriteDone
  <2>1. /\ posted = <<>> /\ inbox = <<>> /\ Responses = {} /\ promise = "unset"
        /\ writes # <<>>
    BY <1>6 DEF WriteDone, Inv, AtMostOne
  <2>2. UNCHANGED <<posted, request, promise, outbox, link, ready, playerVars, serverVars>>
    BY <1>6 DEF WriteDone
  <2>3. Responses' = {} /\ Sent /\ ready # "pending" /\ link # "connecting"
    BY <2>1, <2>2 DEF Responses, Sent, Inv, Control, InStep
  <2>4. ASSUME link = "up" PROVE StatesInStep' /\ StaticInStep' /\ ClocksInStep'
    BY <2>1, <2>2, <2>3, <2>4 DEF InStep, StatesInStep, StaticInStep, ClocksInStep
  <2>5. inbox' # <<>> => link = "up"
    BY <1>6, <2>1 DEF WriteDone
  <2> QED BY <2>2, <2>3, <2>4, <2>5 DEF InStep
<1>7. CASE WriteFailed
  <2>1. inbox' = <<>> /\ promise = "unset" /\ link # "up" /\ UNCHANGED <<link, ready>>
    BY <1>7 DEF WriteFailed, Inv, AtMostOne
  <2>2. link # "connecting"
    BY <2>1 DEF Inv, Control, InStep
  <2> QED BY <2>1, <2>2 DEF InStep
<1>8. CASE ReadOther
  <2>1. /\ UNCHANGED <<posted, request, writes, inbox, promise, link, ready, playerVars, serverVars>>
        /\ CanRead /\ ~ IsResponse(Incoming) /\ outbox' = Tail(outbox)
    BY <1>8 DEF ReadOther
  <2>2. /\ \A i \in Responses' : i + 1 \in Responses /\ outbox'[i] = outbox[i + 1]
        /\ Responses' = {} <=> Responses = {}
    BY <2>1, ReadEcho
  <2>3. StatesInStep => StatesInStep'
    BY <2>1, <2>2 DEF StatesInStep, Sent, StateThen
  <2>4. StaticInStep => StaticInStep'
    BY <2>1, <2>2 DEF StaticInStep, Sent
  <2>5. ClocksInStep => ClocksInStep'
    BY <2>1, <2>2 DEF ClocksInStep, Sent
  <2> QED BY <2>1, <2>3, <2>4, <2>5 DEF InStep
<1>9. ASSUME CanRead, IsResponse(Incoming), outbox' = Tail(outbox)
      PROVE  /\ posted = <<>> /\ writes = <<>> /\ inbox = <<>> /\ promise = "unset"
             /\ Responses' = {} /\ 1 \in Responses /\ Incoming = outbox[1]
             /\ link # "connecting"
  <2>1. Responses # {} /\ Responses' = {}
    BY <1>9, ReadHead DEF IsResponse
  <2>2. Incoming = outbox[1] /\ 1 \in DOMAIN outbox
    BY <1>9, TailFacts DEF CanRead, Incoming, Inv, TypeOK
  <2>3. 1 \in Responses
    BY <1>9, <2>2 DEF Responses, IsResponse
  <2> QED BY <2>1, <2>2, <2>3 DEF Inv, AtMostOne, Control, InStep
<1>10. CASE ReadError
  <2>1. /\ posted = <<>> /\ writes = <<>> /\ inbox = <<>> /\ promise = "unset"
        /\ Responses' = {} /\ 1 \in Responses /\ outbox[1].body = "error" /\ link # "connecting"
    BY <1>9, <1>10 DEF ReadError
  <2>2. UNCHANGED <<posted, request, writes, inbox, link, playerVars, serverVars>>
    BY <1>10 DEF ReadError
  <2>3. posted' = <<>> /\ ~ Sent' /\ promise' # "unset"
    BY <1>10, <2>1, <2>2 DEF Sent, ReadError, SetValue
  <2>4. ASSUME link = "up" PROVE StatesInStep' /\ StaticInStep' /\ ClocksInStep'
    <3>1. StatesInStep'
      BY <2>1, <2>2, <2>3, <2>4 DEF InStep, StatesInStep, StateThen
    <3>2. cstate = "prelogin" \/ static
      BY <2>1, <2>4 DEF InStep, StaticInStep
    <3>3. stimer <= ctimer
      BY <2>1, <2>4 DEF InStep, ClocksInStep
    <3> QED BY <2>1, <2>2, <2>3, <3>1, <3>2, <3>3 DEF StaticInStep, ClocksInStep
  <2> QED BY <2>1, <2>2, <2>4 DEF InStep
<1>11. CASE ReadResponse
  <2>1. /\ posted = <<>> /\ writes = <<>> /\ inbox = <<>> /\ promise = "unset"
        /\ Responses' = {} /\ 1 \in Responses /\ Incoming = outbox[1] /\ outbox[1].body # "error"
        /\ link # "connecting"
    BY <1>9, <1>11 DEF ReadResponse
  <2>2. /\ UNCHANGED <<posted, inbox, link, ready, serverVars>>
        /\ Process(request, outbox[1])
    BY <1>11, <2>1 DEF ReadResponse
  <2>3. /\ cstate' = StateThen(request, outbox[1].body)
        /\ ctimer' = IF request = "fight" THEN outbox[1].delay ELSE 0
    BY <2>2 DEF Process, StateThen, ResetClock
  <2>4. ASSUME link = "up" PROVE StatesInStep' /\ StaticInStep' /\ ClocksInStep'
    <3>1. data = "garbage" => request \notin {"login", "createchar"} /\ data' = data
      <4>1. data = "garbage" => request \notin {"login", "createchar"}
        BY <2>1, <2>4 DEF InStep, StatesInStep
      <4> QED BY <2>2, <4>1 DEF Process
    <3>2. data' = "garbage" => cstate' = "ingame"
      <4>1. data' = "garbage" =>
               data = "garbage" \/ (request = "login" /\ outbox[1].body = "refused")
        BY <2>2 DEF Process
      <4> QED BY <2>3, <2>4, <3>1, <4>1 DEF InStep, StatesInStep, StateThen
    <3>3. data' = "garbage" \/ cstate' = sstate
      <4>1. request = "login" /\ outbox[1].body = "refused" => data' = "garbage"
        BY <2>2 DEF Process
      <4> QED BY <2>1, <2>3, <2>4, <3>1, <4>1 DEF InStep, StatesInStep
    <3>4. stimer <= ctimer'
      BY <2>1, <2>3, <2>4 DEF InStep, ClocksInStep
    <3>5. CASE request = "login" /\ WriteMessage("getdata") /\ UNCHANGED promise
      <4>1. request' = "getdata" /\ stimer = 0
        BY <2>1, <2>4, <3>5 DEF WriteMessage, InStep, StaticInStep
      <4>2. cstate' = "prelogin" \/ sstate # "prelogin"
        <5>1. outbox[1].body = "fail" => cstate' = "prelogin"
          BY <2>1, <2>3, <2>4, <3>5 DEF StateThen, InStep, StatesInStep
        <5> QED BY <2>1, <2>4, <3>5, <5>1 DEF InStep, StaticInStep
      <4>3. StatesInStep'
        BY <2>1, <2>2, <3>2, <3>3, <4>1 DEF StatesInStep
      <4>4. StaticInStep'
        BY <2>1, <2>2, <3>5, <4>1, <4>2 DEF StaticInStep
      <4> QED BY <2>1, <2>2, <3>4, <4>1, <4>3, <4>4 DEF ClocksInStep
    <3>6. CASE request # "login" /\ SetValue /\ UNCHANGED <<request, writes>>
      <4>1. ~ Sent' /\ posted' = <<>>
        BY <2>1, <2>2, <3>6 DEF Sent
      <4>2. cstate' = "prelogin" \/ static'
        <5>1. static => static'
          BY <2>2 DEF Process, InitStatic
        <5>2. CASE request = "getdata"
          <6>1. outbox[1].body = "ok" => static'
            BY <2>2, <5>2 DEF Process, InitStatic
          <6> QED BY <2>1, <2>3, <2>4, <5>1, <5>2, <6>1 DEF InStep, StaticInStep, StateThen
        <5>3. CASE request # "getdata"
          <6>1. cstate = "prelogin" \/ static
            BY <2>4, <5>3 DEF InStep, StaticInStep
          <6>2. cstate = "prelogin" => cstate' = "prelogin"
            BY <2>1, <2>3, <2>4, <3>6 DEF StateThen, InStep, StatesInStep
          <6> QED BY <5>1, <6>1, <6>2
        <5> QED BY <5>2, <5>3
      <4> QED BY <2>1, <2>2, <3>2, <3>3, <3>4, <4>1, <4>2 DEF StatesInStep, StaticInStep,
             ClocksInStep
    <3> QED BY <1>11, <3>5, <3>6 DEF ReadResponse
  <2> QED BY <2>1, <2>2, <2>4 DEF InStep
<1>12. CASE Close \/ LinkLost
  BY <1>12 DEF Close, LinkLost, InStep
<1>13. CASE ServerAnswer
  <2>1. /\ posted = <<>> /\ writes = <<>> /\ Responses = {} /\ promise = "unset"
        /\ inbox' = <<>> /\ Head(inbox) = request /\ Head(inbox) \in Types /\ link = "up" /\ Sent
    BY <1>13, TailFacts DEF ServerAnswer, Inv, AtMostOne, ResponseMatchesRequest, TypeOK, Sent
  <2>2. UNCHANGED <<posted, writes, request, promise, link, ready, playerVars>>
    BY <1>13 DEF ServerAnswer
  <2>3. ~ Sent' /\ posted' = <<>>
    BY <2>1, <2>2 DEF Sent
  <2>4. /\ data = "garbage" \/ cstate = sstate
        /\ data = "garbage" => cstate = "ingame"
        /\ request = "login" => cstate = "prelogin"
        /\ request = "createchar" => cstate = "createchar"
        /\ request = "getdata" => stimer = 0 /\ (cstate = "prelogin" \/ static \/ sstate # "prelogin")
        /\ request # "getdata" => cstate = "prelogin" \/ static
        /\ stimer <= ctimer
    BY <2>1 DEF InStep, StatesInStep, StaticInStep, ClocksInStep
  <2>5. ASSUME NEW body \in Bodies, NEW d \in Nat,
               outbox' = Append(outbox, Response(request, body, d)),
               Response(request, body, d) \in Messages,
               data = "garbage" \/ (request = "login" /\ body = "refused")
                 \/ sstate' = StateThen(request, body),
               request = "getdata" => body = "ok" \/ cstate = "prelogin" \/ static,
               request = "login" /\ body # "error" =>
                   stimer' = 0 /\ (body # "fail" => sstate' # "prelogin"),
               stimer' <= IF body = "error" THEN ctimer ELSE IF request = "fight" THEN d ELSE 0
        PROVE  InStep'
    <3> DEFINE m == Response(request, body, d)
    <3>1. m \in Messages /\ m.tag = "response" /\ m.body = body /\ m.delay = d
      BY <2>5 DEF Response
    <3> HIDE DEF m
    <3>2. Responses' \subseteq {Len(outbox) + 1} /\ Responses' # {}
          /\ outbox'[Len(outbox) + 1] = m
      BY <2>1, <2>5, <3>1, Answered DEF Inv, m
    <3>3. \A i \in Responses' : outbox'[i].body = body /\ outbox'[i].delay = d
      BY <3>1, <3>2
    <3>4. StatesInStep'
      BY <2>2, <2>3, <2>4, <2>5, <3>2, <3>3 DEF StatesInStep, StateThen
    <3>5. StaticInStep'
      BY <2>1, <2>2, <2>3, <2>4, <2>5, <3>3 DEF StaticInStep
    <3>6. ClocksInStep'
      BY <2>2, <2>3, <2>5, <3>2, <3>3 DEF ClocksInStep
    <3> QED BY <2>1, <2>2, <3>4, <3>5, <3>6 DEF InStep
  <2>6. CASE ServerRejects(request) /\ outbox' = Append(outbox, Response(request, "error", 0))
             /\ UNCHANGED serverVars
    <3>1. Response(request, "error", 0) \in Messages /\ "error" \in Bodies
      BY <2>1 DEF Response, Messages, Bodies
    <3>2. request = "getdata" => cstate = "prelogin" \/ static
      BY <1>0, <2>4, <2>6 DEF ServerRejects, Allowed, GetdataAllowed, Inv, TypeOK, States
    <3>3. data = "garbage" \/ sstate' = StateThen(request, "error")
      BY <2>4, <2>6 DEF StateThen
    <3> QED BY <2>4, <2>5, <2>6, <3>1, <3>2, <3>3
  <2>7. ASSUME NEW body \in Answers(request), NEW d \in IF request = "fight" THEN Delays ELSE {0},
               outbox' = Append(outbox, Response(request, body, d)),
               sstate' = StateAfter(request, body), stimer' = d
        PROVE  InStep'
    <3>1. body \in Bodies /\ d \in Nat /\ d \in Delays \cup {0}
      BY <2>1, <2>7, ClientAssumption DEF Answers, Bodies, Types
    <3>2. Response(request, body, d) \in Messages
      BY <2>1, <3>1 DEF Response, Messages
    <3>3. request = "login" /\ body # "fail" => sstate' # "prelogin"
      BY <2>7, <3>1 DEF StateAfter, Answers
    <3>4. request = "getdata" => body = "ok"
      BY <2>7 DEF Answers
    <3>5. data = "garbage" \/ (request = "login" /\ body = "refused")
            \/ sstate' = StateThen(request, body)
      BY <2>4, <2>7 DEF StateAfter, StateThen
    <3>6. stimer' <= IF body = "error" THEN ctimer ELSE IF request = "fight" THEN d ELSE 0
      <4>1. body = "error" => d = 0
        BY <2>1, <2>7 DEF Answers, Types
      <4> QED BY <1>0, <2>7, <3>1, <4>1
    <3>7. request = "login" => d = 0
      BY <2>7
    <3> QED BY <2>5, <2>7, <3>1, <3>2, <3>3, <3>4, <3>5, <3>6, <3>7
  <2> QED BY <1>13, <2>1, <2>6, <2>7 DEF ServerAnswer
<1>14. CASE ServerEcho
  <2>1. Echo \in Messages /\ Echo.tag # "response" /\ outbox' = Append(outbox, Echo)
    BY <1>14 DEF ServerEcho, Messages, Echo
  <2>2. Responses' = Responses /\ \A i \in Responses : outbox'[i] = outbox[i]
    BY <2>1, Answered, ResponsesType DEF Inv
  <2>3. UNCHANGED <<posted, request, writes, inbox, promise, link, ready, playerVars, serverVars>>
    BY <1>14 DEF ServerEcho
  <2>4. StatesInStep => StatesInStep'
    BY <2>2, <2>3 DEF StatesInStep, Sent, StateThen
  <2>5. StaticInStep => StaticInStep'
    BY <2>2, <2>3 DEF StaticInStep, Sent
  <2>6. ClocksInStep => ClocksInStep'
    BY <2>2, <2>3 DEF ClocksInStep, Sent
  <2> QED BY <2>3, <2>4, <2>5, <2>6 DEF InStep
<1> QED
  BY <1>1, <1>2, <1>3, <1>4, <1>5, <1>6, <1>7, <1>8, <1>10, <1>11, <1>12, <1>13, <1>14
     DEF Next, MainNext, IoNext, QuietMain, vars

(* InStep is an invariant of Client.                                       *)
THEOREM ClientInStep == Spec => []InStep
BY InitInStep, NextInStep, ClientInvariant, PTL DEF Spec

(***************************************************************************)
(* Between two commands client_session and server_session are in the same  *)
(* state of the game, for any answers of the server; the one exception is  *)
(* a login whose character was refused.                                    *)
(***************************************************************************)
THEOREM ClientStatesAgree == Spec => []StatesAgree
<1>1. Inv /\ InStep => StatesAgree
  BY DEF Inv, AtMostOne, InStep, StatesInStep, StatesAgree
<1> QED BY <1>1, ClientInvariant, ClientInStep, PTL

(***************************************************************************)
(* gamedata.h, "MUST init somewhere before use!": once a login has         *)
(* returned, the getdata that start chains to it has brought the static    *)
(* data.                                                                   *)
(***************************************************************************)
THEOREM ClientStaticDataReady == Spec => []StaticDataReady
<1>1. InStep => StaticDataReady
  BY DEF InStep, StaticInStep, StaticDataReady
<1> QED BY <1>1, ClientInStep, PTL

(***************************************************************************)
(* For any delays, no request of the client reaches the server before the  *)
(* server's earliest_time.                                                 *)
(***************************************************************************)
THEOREM ClientNotTooEarly == Spec => []NotTooEarly
<1>1. Inv /\ InStep => NotTooEarly
  BY DEF Inv, TypeOK, InStep, ClocksInStep, Sent, NotTooEarly
<1> QED BY <1>1, ClientInvariant, ClientInStep, PTL
=============================================================================
