----------------------------- MODULE WriteQueue -----------------------------
(***************************************************************************)
(* server_session::write, the way every message to a peer takes: the       *)
(* session's own responses and the echoes that other sessions send through *)
(* session_map::write.                                                     *)
(*                                                                         *)
(* write spawns a coroutine on the session's strand.  Called on the strand *)
(* itself (a response), the coroutine runs at once; called from another    *)
(* session's strand, it is queued on this one.  It appends its message to  *)
(* write_queue_, and if that is the only one it becomes the writer: it     *)
(* writes the front, pops it when async_write completes, and goes on until *)
(* the queue is empty or a write fails.                                    *)
(***************************************************************************)
EXTENDS Naturals, Sequences, SequencesExt, Lists

CONSTANTS Responses,   \* messages written on the session's own strand
          Echoes       \* messages other sessions send to this one

ASSUME DisjointAssumption == Responses \cap Echoes = {}

VARIABLES
    phase,        \* "reading", then "ingame" (session_map has it), then "left"
    posted,       \* write coroutines queued on the strand, by message
    write_queue,  \* server_session::write_queue_
    writing,      \* the buffers of the outstanding async_write calls
    stream,       \* "open", or "failed": every write ends in an error
    posts,        \* history: echoes in the order session_map::write took them
    sent,         \* history: messages written successfully
    lost          \* history: messages popped after a failed write

vars == <<phase, posted, write_queue, writing, stream, posts, sent, lost>>

Msgs == Responses \cup Echoes

(* A message is written once.                                              *)
Fresh(m) == \A q \in {posted, write_queue, sent, lost} : m \notin Range(q)

TypeOK ==
    /\ phase \in {"reading", "ingame", "left"}
    /\ posted \in Seq(Echoes)
    /\ write_queue \in Seq(Msgs)
    /\ writing \in Seq(Msgs)
    /\ stream \in {"open", "failed"}
    /\ posts \in Seq(Echoes)
    /\ sent \in Seq(Msgs)
    /\ lost \in Seq(Msgs)

Init ==
    /\ phase = "reading"
    /\ stream = "open"
    /\ posted = <<>> /\ write_queue = <<>> /\ writing = <<>>
    /\ posts = <<>> /\ sent = <<>> /\ lost = <<>>

-----------------------------------------------------------------------------
(* Mutant: a second coroutine does not leave the queue to the first.       *)
Enqueue_Always(m) ==
    /\ write_queue' = Append(write_queue, m)
    /\ writing' = Append(writing, Head(Append(write_queue, m)))

(* Mutant: urgent messages overtake.                                       *)
Enqueue_Front(m) ==
    /\ write_queue' = IF write_queue = <<>> THEN <<m>>
                        ELSE <<Head(write_queue), m>> \o Tail(write_queue)
    /\ writing' = IF write_queue = <<>> THEN <<m>> ELSE writing

(* The start of the coroutine: enqueue, and start writing if alone.        *)
Enqueue(m) ==
    /\ write_queue' = Append(write_queue, m)
    /\ writing' = IF Len(write_queue) + 1 = 1 THEN Append(writing, m) ELSE writing

(* Mutant: the response's coroutine is queued as well.                     *)
Respond_Posted(m) ==
    /\ phase # "left"
    /\ Fresh(m)
    /\ posted' = Append(posted, m)
    /\ UNCHANGED <<phase, write_queue, writing, stream, posts, sent, lost>>

(* go: the response of a request, written on the strand.  A message_send   *)
(* of a player to itself takes this path too.                              *)
Respond(m) ==
    /\ phase # "left"
    /\ Fresh(m)
    /\ Enqueue(m)
    /\ UNCHANGED <<phase, posted, stream, posts, sent, lost>>

(* login or createchar: register_session.                                  *)
Register ==
    /\ phase = "reading"
    /\ phase' = "ingame"
    /\ UNCHANGED <<posted, write_queue, writing, stream, posts, sent, lost>>

(* session_map::write: under the lock, for a name that has an entry.       *)
Send(m) ==
    /\ phase = "ingame"
    /\ Fresh(m)
    /\ posted' = Append(posted, m)
    /\ posts' = Append(posts, m)
    /\ UNCHANGED <<phase, write_queue, writing, stream, sent, lost>>

(* The strand runs the next queued coroutine.                              *)
RunPosted ==
    /\ posted # <<>>
    /\ Enqueue(Head(posted))
    /\ posted' = Tail(posted)
    /\ UNCHANGED <<phase, stream, posts, sent, lost>>

(* Mutant: the loop ends after one message.                                *)
Written_Once ==
    /\ stream = "open" /\ writing # <<>>
    /\ sent' = Append(sent, Head(writing))
    /\ write_queue' = Tail(write_queue)
    /\ writing' = Tail(writing)
    /\ UNCHANGED <<phase, posted, stream, posts, lost>>

(* async_write completes: pop, and write the next one if there is one.     *)
Written ==
    /\ stream = "open" /\ writing # <<>>
    /\ sent' = Append(sent, Head(writing))
    /\ write_queue' = Tail(write_queue)
    /\ writing' = IF Tail(write_queue) = <<>> THEN Tail(writing)
                    ELSE Append(Tail(writing), Head(Tail(write_queue)))
    /\ UNCHANGED <<phase, posted, stream, posts, lost>>

(* async_write reports an error: pop, log, and return.                     *)
WriteFailed ==
    /\ stream = "failed" /\ writing # <<>>
    /\ lost' = Append(lost, Head(writing))
    /\ write_queue' = Tail(write_queue)
    /\ writing' = Tail(writing)
    /\ UNCHANGED <<phase, posted, stream, posts, sent>>

(* The connection is lost or the websocket is closed.                      *)
Break ==
    /\ stream = "open"
    /\ stream' = "failed"
    /\ UNCHANGED <<phase, posted, write_queue, writing, posts, sent, lost>>

(* async_read reports the error too; go leaves the loop and removes the    *)
(* map entry.  Coroutines already spawned keep the session alive.          *)
Leave ==
    /\ stream = "failed"
    /\ phase # "left"
    /\ phase' = "left"
    /\ UNCHANGED <<posted, write_queue, writing, stream, posts, sent, lost>>

Next ==
    \/ \E m \in Responses : Respond(m)
    \/ \E m \in Echoes : Send(m)
    \/ Register \/ RunPosted \/ Written \/ WriteFailed \/ Break \/ Leave

Spec == Init /\ [][Next]_vars

(***************************************************************************)
(* Fairness: the strand runs what is queued on it, and async_write and     *)
(* async_read complete, at the latest through the websocket's timeouts.    *)
(***************************************************************************)
FairSpec ==
    /\ Spec
    /\ WF_vars(RunPosted)
    /\ WF_vars(Written \/ WriteFailed)
    /\ WF_vars(Leave)

-----------------------------------------------------------------------------
(***************************************************************************)
(* At most one async_write is outstanding on the stream (beast allows no   *)
(* more), and its buffer is the front of the queue: it is not popped, and  *)
(* nothing is put before it, until the write completes.                    *)
(***************************************************************************)
OneWriteFromFront ==
    writing # <<>> => write_queue # <<>> /\ writing = <<Head(write_queue)>>

(***************************************************************************)
(* While the stream is open, whoever left its message in the queue can     *)
(* rely on the writer: a non-empty queue is being written.                 *)
(***************************************************************************)
WriterWhileOpen == stream = "open" /\ write_queue # <<>> => writing # <<>>

Echoed(seq) == Select(seq, {k \in DOMAIN seq : seq[k] \in Echoes})

(***************************************************************************)
(* A player receives the echoes of other players in the order the server   *)
(* accepted them, across all senders, although responses may overtake      *)
(* echoes that still wait for the strand.                                  *)
(***************************************************************************)
EchoesInOrder == IsPrefix(Echoed(sent), posts)

(* Part of the inductive invariant: nothing is lost while the stream is    *)
(* open.                                                                   *)
NothingLostWhileOpen == stream = "open" => lost = <<>>

(***************************************************************************)
(* The queue implements Outbox: messages go out in the order in which they *)
(* were enqueued, without gaps, and a broken stream sends nothing more.    *)
(***************************************************************************)
O == INSTANCE Outbox WITH log <- sent \o lost \o write_queue
ImplementsOutbox == O!Spec

(***************************************************************************)
(* Every message taken over is written, unless the stream breaks.          *)
(***************************************************************************)
AllWritten ==
    \A m \in Msgs :
        m \in Range(posted) \cup Range(write_queue) ~>
            m \in Range(sent) \/ stream = "failed"

(***************************************************************************)
(* server_session.cpp, where a coroutine returns because the queue was not *)
(* empty: "Don't do anything, someone will handle it".                     *)
(***************************************************************************)
SomeoneWillHandleIt == write_queue # <<>> => writing # <<>>
=============================================================================
