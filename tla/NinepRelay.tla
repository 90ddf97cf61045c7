----------------------------- MODULE NinepRelay -----------------------------
(***************************************************************************)
(* The path of 9P messages between the kernel of the remote machine, which *)
(* mounts the client's file system, and the 9P server in the client:       *)
(*                                                                         *)
(*   kernel -> socket -> relay -> channel -> gRPC -> StreamReader          *)
(*                                               -> dispatch               *)
(*   dispatch's tasks -> SenderWriter -> channel -> gRPC -> relay          *)
(*                                               -> socket -> kernel       *)
(*                                                                         *)
(* The relay is the task that Server::ninep_forward (server.rs) spawns:    *)
(* one loop for both directions, which stops reading while it sends and    *)
(* the other way round.                                                    *)
(*                                                                         *)
(* A request is ReqLen units of data, a response RespLen; unit k of the    *)
(* message of tag t is <<t, k>>.                                           *)
(***************************************************************************)
EXTENDS Naturals, Sequences, FiniteSets, SequencesExt, FiniteSetsExt

CONSTANTS
    Tags,           \* tags of the kernel's requests
    ReqLen,         \* units of a request
    RespLen,        \* units of a response
    Chunk,          \* units the relay reads at once at most (128 bytes)
    ChanCap,        \* capacity of the server's channel (10 in the code)
    NetCap,         \* items in flight on a gRPC stream, each way
    SockCap,        \* units the socket towards the kernel holds
    MayDisconnect,  \* TRUE: the gRPC connection may break, dispatch may fail
    Watched         \* tags that RequestsAnswered follows; all are alike

ASSUME BoundAssumption ==
    /\ ReqLen \in Nat \ {0} /\ RespLen \in Nat \ {0} /\ Chunk \in Nat \ {0} /\ ChanCap \in Nat \ {0}
    /\ NetCap \in Nat \ {0} /\ SockCap \in Nat \ {0}
    /\ MayDisconnect \in BOOLEAN /\ Watched \subseteq Tags

VARIABLES
    tag,      \* kernel: whether the request of each tag is outstanding
    kbuf,     \* kernel: what it has read of the next response
    sock,     \* the connection that is accepted from the kernel
    up,       \* the socket, from the kernel
    down,     \* the socket, to the kernel
    relay,    \* the task of ninep_forward
    chan,     \* its channel, to the gRPC response stream
    upnet,    \* the gRPC response stream
    item,     \* StreamReader: the part of its buffer that is not consumed
    rbuf,     \* dispatch: the buffer of FramedRead
    disp,     \* dispatch: its loop
    jobs,     \* dispatch: the tasks it has spawned, by tag
    dnchan,   \* the channel of SenderWriter (capacity 1)
    dnnet,    \* the gRPC request stream
    conn,     \* whether the gRPC connection holds
    cut       \* history: the relay has written only a part of a response

vars == <<tag, kbuf, sock, up, down, relay, chan, upnet, item, rbuf, disp,
          jobs, dnchan, dnnet, conn, cut>>

upvars == <<up, chan, upnet, item, rbuf>>
dnvars == <<kbuf, down, dnchan, dnnet>>

Unit == Tags \X (1..Max({ReqLen, RespLen}))
Msg(t, n) == [k \in 1..n |-> <<t, k>>]

(* One type invariant, with the capacities of the queues.                  *)
TypeOK ==
    /\ tag \in [Tags -> {"idle", "sent"}]
    /\ sock \in {"listening", "connected", "closed", "expired"}
    /\ relay.pc \in {"accept", "select", "send", "write", "done"}
    /\ \A s \in {kbuf, up, down, relay.buf, item, rbuf} : s \in Seq(Unit)
    /\ \A q \in {chan, upnet, dnchan, dnnet} : \A i \in DOMAIN q : q[i] \in Seq(Unit)
    /\ Len(down) <= SockCap /\ Len(chan) <= ChanCap /\ Len(upnet) <= NetCap
    /\ Len(dnchan) <= 1 /\ Len(dnnet) <= NetCap
    /\ disp \in {"read", "done"} /\ jobs \subseteq Tags
    /\ conn \in BOOLEAN /\ cut \in BOOLEAN

(* ninep_forward was answered and P9cpuClient::start has spawned dispatch. *)
Init ==
    /\ tag = [t \in Tags |-> "idle"] /\ kbuf = << >> /\ sock = "listening"
    /\ up = << >> /\ down = << >>
    /\ relay = [pc |-> "accept", buf |-> << >>]
    /\ chan = << >> /\ upnet = << >> /\ item = << >> /\ rbuf = << >>
    /\ disp = "read" /\ jobs = {} /\ dnchan = << >> /\ dnnet = << >>
    /\ conn = TRUE /\ cut = FALSE

-----------------------------------------------------------------------------
(* The listener's thread: accept, or 60 seconds pass and it is closed.     *)

Accept ==
    /\ sock = "listening"
    /\ sock' = "connected"
    /\ UNCHANGED <<tag, upvars, dnvars, relay, disp, jobs, conn, cut>>

AcceptTimesOut ==
    /\ sock = "listening"
    /\ sock' = "expired"
    /\ UNCHANGED <<tag, upvars, dnvars, relay, disp, jobs, conn, cut>>

-----------------------------------------------------------------------------
(* The kernel's 9p client.                                                 *)

KernelSends(t) ==
    /\ sock = "connected"
    /\ tag[t] = "idle"
    /\ tag' = [tag EXCEPT ![t] = "sent"]
    /\ up' = up \o Msg(t, ReqLen)
    /\ UNCHANGED <<dnvars, sock, relay, chan, upnet, item, rbuf, disp, jobs, conn, cut>>

(* A response is complete when as many units as it says have been read.    *)
KernelReads ==
    /\ sock = "connected"
    /\ down # << >>
    /\ down' = Tail(down)
    /\ LET b == Append(kbuf, Head(down))
       IN IF Len(b) < RespLen THEN kbuf' = b /\ UNCHANGED tag
          ELSE kbuf' = << >> /\ tag' = [tag EXCEPT ![b[1][1]] = "idle"]
    /\ UNCHANGED <<upvars, sock, relay, disp, jobs, dnchan, dnnet, conn, cut>>

(* The last process of the mount namespace is gone.                        *)
KernelCloses ==
    /\ sock = "connected"
    /\ sock' = "closed"
    /\ UNCHANGED <<tag, upvars, dnvars, relay, disp, jobs, conn, cut>>

-----------------------------------------------------------------------------
(* The relay.                                                              *)

RelayGetsStream ==
    /\ relay.pc = "accept"
    /\ sock \in {"connected", "closed", "expired"}
    /\ relay' = [relay EXCEPT !.pc = IF sock = "expired" THEN "done" ELSE "select"]
    /\ UNCHANGED <<tag, upvars, dnvars, sock, disp, jobs, conn, cut>>

(* select!, first branch: reader.read(&mut buf) returned n units ...       *)
RelayReads(n) ==
    /\ relay.pc = "select"
    /\ n <= Len(up)
    /\ relay' = [pc |-> "send", buf |-> SubSeq(up, 1, n)]
    /\ up' = SubSeq(up, n + 1, Len(up))
    /\ UNCHANGED <<tag, dnvars, sock, chan, upnet, item, rbuf, disp, jobs, conn, cut>>

(* Faulty variant: a read of no bytes is not taken for the end.            *)
RelayIgnoresEof ==
    /\ relay.pc = "select"
    /\ up = << >> /\ sock = "closed"
    /\ relay' = [relay EXCEPT !.pc = "send"]
    /\ UNCHANGED <<tag, upvars, dnvars, sock, disp, jobs, conn, cut>>

(* ... or the end.                                                         *)
RelayAtEof ==
    /\ relay.pc = "select"
    /\ up = << >> /\ sock = "closed"
    /\ relay' = [relay EXCEPT !.pc = "done"]
    /\ UNCHANGED <<tag, upvars, dnvars, sock, disp, jobs, conn, cut>>

(* tx.send(buf).await?  The receiver is gone with the connection, or when  *)
(* dispatch has dropped its end of the stream.                             *)
RelaySends ==
    /\ relay.pc = "send"
    /\ \/ /\ conn /\ Len(chan) < ChanCap
          /\ chan' = Append(chan, relay.buf)
          /\ relay' = [pc |-> "select", buf |-> << >>]
       \/ /\ ~conn \/ disp = "done"
          /\ relay' = [pc |-> "done", buf |-> << >>]
          /\ UNCHANGED chan
    /\ UNCHANGED <<tag, dnvars, sock, up, upnet, item, rbuf, disp, jobs, conn, cut>>

(* The sender of the client's request stream is gone: dispatch is over and *)
(* so are its tasks.                                                       *)
WriterDropped == disp = "done" /\ jobs = {}

(* select!, second branch: an item from the client, or the end.            *)
RelayTakes ==
    /\ relay.pc = "select"
    /\ dnnet # << >>
    /\ relay' = [pc |-> "write", buf |-> Head(dnnet)]
    /\ dnnet' = Tail(dnnet)
    /\ UNCHANGED <<tag, upvars, kbuf, sock, down, disp, jobs, dnchan, conn, cut>>

RelayInputEnds ==
    /\ relay.pc = "select"
    /\ dnnet = << >>
    /\ ~conn \/ (WriterDropped /\ dnchan = << >>)
    /\ relay' = [relay EXCEPT !.pc = "done"]
    /\ UNCHANGED <<tag, upvars, dnvars, sock, disp, jobs, conn, cut>>

(* Faulty variant: one unit of each item is written.                       *)
RelayWritesOne ==
    /\ relay.pc = "write"
    /\ \/ /\ sock = "connected" /\ Len(down) < SockCap
          /\ down' = Append(down, Head(relay.buf))
          /\ cut' = (cut \/ Len(relay.buf) > SockCap - Len(down))
          /\ relay' = [pc |-> "select", buf |-> << >>]
       \/ /\ sock = "closed"
          /\ relay' = [pc |-> "done", buf |-> << >>]
          /\ UNCHANGED <<down, cut>>
    /\ UNCHANGED <<tag, upvars, kbuf, sock, disp, jobs, dnchan, dnnet, conn>>

(* writer.write(&in_item).await?: one write, of as much as the socket has  *)
(* room for; it waits only while there is none.                            *)
RelayWrites ==
    /\ relay.pc = "write"
    /\ \/ /\ sock = "connected" /\ Len(down) < SockCap
          /\ down' = down \o SubSeq(relay.buf, 1,
                            Min({Len(relay.buf), SockCap - Len(down)}))
          /\ cut' = (cut \/ Len(relay.buf) > SockCap - Len(down))
          /\ relay' = [pc |-> "select", buf |-> << >>]
       \/ /\ sock = "closed"
          /\ relay' = [pc |-> "done", buf |-> << >>]
          /\ UNCHANGED <<down, cut>>
    /\ UNCHANGED <<tag, upvars, kbuf, sock, disp, jobs, dnchan, dnnet, conn>>

(* A read or a write of the kernel's socket fails: the task returns with   *)
(* the error and drops the socket.                                         *)
RelayFails ==
    /\ relay.pc \in {"select", "write"}
    /\ sock = "connected"
    /\ sock' = "closed"
    /\ relay' = [pc |-> "done", buf |-> << >>]
    /\ UNCHANGED <<tag, upvars, dnvars, disp, jobs, conn, cut>>

-----------------------------------------------------------------------------
(* The gRPC streams (tonic).  When the relay is done both of them end.     *)

TransmitUp ==
    /\ conn
    /\ chan # << >> /\ Len(upnet) < NetCap
    /\ upnet' = Append(upnet, Head(chan))
    /\ chan' = Tail(chan)
    /\ UNCHANGED <<tag, dnvars, sock, up, relay, item, rbuf, disp, jobs, conn, cut>>

TransmitDown ==
    /\ conn /\ relay.pc # "done"
    /\ dnchan # << >> /\ Len(dnnet) < NetCap
    /\ dnnet' = Append(dnnet, Head(dnchan))
    /\ dnchan' = Tail(dnchan)
    /\ UNCHANGED <<tag, upvars, kbuf, sock, down, relay, disp, jobs, conn, cut>>

Disconnect ==
    /\ MayDisconnect
    /\ conn
    /\ conn' = FALSE
    /\ chan' = << >> /\ upnet' = << >> /\ dnchan' = << >> /\ dnnet' = << >>
    /\ UNCHANGED <<tag, kbuf, sock, up, down, relay, item, rbuf, disp, jobs, cut>>

-----------------------------------------------------------------------------
(* dispatch (srv.rs), reading through StreamReader (client.rs).            *)

(* Faulty variants: what is left of an item is forgotten; the next request *)
(* is read only when the last one has been answered.                       *)
DispatchReadsForgets(n) ==
    /\ disp = "read" /\ Len(rbuf) < ReqLen
    /\ upnet # << >> /\ n <= Len(Head(upnet))
    /\ rbuf' = rbuf \o SubSeq(Head(upnet), 1, n)
    /\ upnet' = Tail(upnet)
    /\ UNCHANGED <<tag, dnvars, sock, up, relay, chan, item, disp, jobs, conn, cut>>

DispatchReadsInline(n) ==
    /\ disp = "read" /\ Len(rbuf) < ReqLen /\ jobs = {}
    /\ item = << >> /\ upnet # << >> /\ n = Len(Head(upnet))
    /\ rbuf' = rbuf \o Head(upnet)
    /\ upnet' = Tail(upnet)
    /\ UNCHANGED <<tag, dnvars, sock, up, relay, chan, item, disp, jobs, conn, cut>>

(* poll_read copies n units of the buffer; if all of it is consumed the    *)
(* next item of the stream becomes the buffer.                             *)
DispatchReads(n) ==
    /\ disp = "read" /\ Len(rbuf) < ReqLen
    /\ \/ item # << >> /\ n <= Len(item)
          /\ item' = SubSeq(item, n + 1, Len(item))
          /\ rbuf' = rbuf \o SubSeq(item, 1, n)
          /\ UNCHANGED upnet
       \/ item = << >> /\ upnet # << >> /\ n <= Len(Head(upnet))
          /\ item' = SubSeq(Head(upnet), n + 1, Len(Head(upnet)))
          /\ rbuf' = rbuf \o SubSeq(Head(upnet), 1, n)
          /\ upnet' = Tail(upnet)
    /\ UNCHANGED <<tag, dnvars, sock, up, relay, chan, disp, jobs, conn, cut>>

(* framedread.next(): a whole message, which gets a task of its own.       *)
DispatchSpawns ==
    /\ disp = "read" /\ Len(rbuf) >= ReqLen
    /\ jobs' = jobs \cup {rbuf[1][1]}
    /\ rbuf' = SubSeq(rbuf, ReqLen + 1, Len(rbuf))
    /\ UNCHANGED <<tag, dnvars, sock, up, relay, chan, upnet, item, disp, conn, cut>>

(* The stream has ended: the loop ends, the tasks go on.                   *)
DispatchEnds ==
    /\ disp = "read" /\ Len(rbuf) < ReqLen
    /\ item = << >> /\ upnet = << >>
    /\ ~conn \/ (relay.pc = "done" /\ chan = << >>)
    /\ disp' = "done"
    /\ UNCHANGED <<tag, upvars, dnvars, sock, relay, jobs, conn, cut>>

(* bytes?, read_msg(...)?: a frame that is too long or cannot be decoded   *)
(* ends dispatch; what is still on its way is never read.                  *)
DispatchFails ==
    /\ MayDisconnect
    /\ disp = "read" /\ Len(rbuf) >= ReqLen
    /\ disp' = "done"
    /\ UNCHANGED <<tag, upvars, dnvars, sock, relay, jobs, conn, cut>>

(* A task has its response and the lock of framedwrite; SenderWriter sends *)
(* the whole response as one item, when there is room.                     *)
TaskReplies(t) ==
    /\ t \in jobs
    /\ conn /\ relay.pc # "done" /\ dnchan = << >>
    /\ dnchan' = <<Msg(t, RespLen)>>
    /\ jobs' = jobs \ {t}
    /\ UNCHANGED <<tag, upvars, kbuf, sock, down, relay, disp, dnnet, conn, cut>>

(* The channel is closed: send(...).await.unwrap() panics.                 *)
TaskPanics(t) ==
    /\ t \in jobs
    /\ ~conn \/ relay.pc = "done"
    /\ jobs' = jobs \ {t}
    /\ UNCHANGED <<tag, upvars, dnvars, sock, relay, disp, conn, cut>>

-----------------------------------------------------------------------------
KernelStep == KernelReads \/ KernelCloses \/ \E t \in Tags : KernelSends(t)

RelayStep ==
    \/ RelayGetsStream \/ RelayAtEof \/ RelaySends \/ RelayTakes
    \/ RelayInputEnds \/ RelayWrites \/ \E n \in 1..Chunk : RelayReads(n)

DispatchStep == DispatchSpawns \/ DispatchEnds \/ \E n \in 1..Chunk : DispatchReads(n)

Next ==
    \/ Accept \/ AcceptTimesOut \/ KernelStep \/ RelayStep \/ DispatchStep
    \/ TransmitUp \/ TransmitDown \/ Disconnect \/ RelayFails \/ DispatchFails
    \/ \E t \in Tags : TaskReplies(t) \/ TaskPanics(t)

Spec == Init /\ [][Next]_vars

(* Every task is scheduled and so is the transport, the timer of the       *)
(* listener fires, the kernel reads its socket, and select!, which picks   *)
(* its ready branches at random, does not pass one over for ever; the      *)
(* lock of framedwrite is fair.                                            *)
Fairness ==
    /\ WF_vars(AcceptTimesOut) /\ WF_vars(KernelReads)
    /\ WF_vars(RelayStep) /\ SF_vars(RelayTakes)
    /\ SF_vars(\E n \in 1..Chunk : RelayReads(n))
    /\ WF_vars(DispatchStep) /\ WF_vars(TransmitUp) /\ WF_vars(TransmitDown)
    /\ \A t \in Tags : SF_vars(TaskReplies(t)) /\ WF_vars(TaskPanics(t))

FairSpec == Spec /\ Fairness

-----------------------------------------------------------------------------
(* What is on its way in each direction, oldest first.                     *)
Held(pc) == IF relay.pc = pc THEN relay.buf ELSE << >>
Requests == rbuf \o item \o FlattenSeq(upnet) \o FlattenSeq(chan) \o Held("send") \o up
Responses == kbuf \o down \o Held("write") \o FlattenSeq(dnnet) \o FlattenSeq(dnchan)

(* Messages of n units one after the other: the next unit of a message, or *)
(* after its last one the first of another.                                *)
Follows(u, v, n) == IF u[2] = n THEN v[2] = 1 ELSE v = <<u[1], u[2] + 1>>

Whole(s, n) ==
    s # << >> => /\ s[1][2] = 1 /\ s[Len(s)][2] = n
                 /\ \A i \in 1..(Len(s) - 1) : Follows(s[i], s[i + 1], n)

(* Where the message of a tag begins. *)
Begins(s, t) == {i \in DOMAIN s : s[i] = <<t, 1>>}

Live == conn /\ relay.pc # "done"

(* While the connection holds the bytes between the kernel and dispatch    *)
(* are a sequence of whole requests: cutting them into buffers of 128      *)
(* bytes and putting them together again loses and mixes nothing.          *)
RequestsWhole == Live => Whole(Requests, ReqLen)

(* client.rs, ninep_forward: "Forwards 9p requests from the remote machine *)
(* to the local machine", with an input stream of "9p responses from a     *)
(* local 9p server".  The bytes between SenderWriter and the kernel are a  *)
(* sequence of whole responses.                                            *)
ResponsesWhole == Live => Whole(Responses, RespLen)

(* Responses may have lost their ends, but not more: a unit is followed by *)
(* the next one of its message or by the first one of another message.     *)
EndsCut(s) ==
    \A i \in 1..(Len(s) - 1) : s[i + 1][2] = 1 \/ s[i + 1] = <<s[i][1], s[i][2] + 1>>

(* The one write at server.rs:385 is all that can go wrong on the way of   *)
(* the responses: until it is short they are whole, and after that still   *)
(* in order and neither mixed nor repeated, but for the lost ends.         *)
OnlyEndsLost == Live => EndsCut(Responses) /\ (~cut => Whole(Responses, RespLen))

(* Until a write is short a request the kernel waits for is in one place   *)
(* only: on its way, with a task of dispatch, or answered and on its way   *)
(* back.                                                                   *)
AnsweredOnce ==
    Live /\ ~cut => \A t \in Tags :
        Cardinality(Begins(Requests, t)) + Cardinality(Begins(Responses, t))
        + (IF t \in jobs THEN 1 ELSE 0) = IF tag[t] = "sent" THEN 1 ELSE 0

(* The way of a request: within the bounds of the queues, nothing is cut,  *)
(* lost, mixed or answered twice.                                          *)
RelayInv == TypeOK /\ RequestsWhole /\ AnsweredOnce

(* Every request is answered: the two directions share one loop and every  *)
(* queue is bounded, but they never wait for one another in a circle,      *)
(* because dispatch goes on reading while its tasks reply.                 *)
RequestsAnswered ==
    \A t \in Watched : tag[t] = "sent" ~> tag[t] = "idle" \/ sock = "closed" \/ ~conn

(* The relay, which Server::wait joins, ends when the kernel is done, when *)
(* nobody connects in time, and when the client is gone; then dispatch and *)
(* its tasks end too.                                                      *)
RelayEnds ==
    sock \in {"closed", "expired"} \/ ~conn
        ~> relay.pc = "done" /\ disp = "done" /\ jobs = {}
=============================================================================
