-------------------------------- MODULE Stdio --------------------------------
(***************************************************************************)
(* The standard streams of one session, end to end:                        *)
(*                                                                         *)
(*   child -> pipe -> copy_to -> channel -> gRPC stream -> copy_stream     *)
(*                                                   -> client's stdout    *)
(*   client's stdin -> in_task -> channel -> gRPC stream -> Server::stdin  *)
(*                                                   -> pipe -> child      *)
(*                                                                         *)
(* and the two `wait`s that end it: Server::wait, which answers when the   *)
(* child has exited and its output was copied, and P9cpuClient::wait,      *)
(* which then stops in_task and joins the client's tasks.                  *)
(*                                                                         *)
(* A unit of data stands for one buffer of up to 128 bytes; the units of a *)
(* stream are numbered 1, 2, ... in the order in which they are produced.  *)
(***************************************************************************)
EXTENDS Naturals, Sequences, SequencesExt

CONSTANTS
    Outs,           \* output streams: stdout and stderr, or stdout alone (tty)
    MaxOut,         \* units a command writes to each output at most
    MaxIn,          \* units the user types at most
    PipeCap,        \* units a pipe holds
    ChanCap,        \* capacity of the server's output channels (10 in the code)
    NetCap,         \* units in flight on a gRPC stream
    MayDisconnect,  \* TRUE: the connection may break
    MayFailLocally, \* TRUE: the client's own stdin and stdout may fail
    ReadsToEof      \* TRUE: the command exits only at the end of its stdin

ASSUME BoundAssumption ==
    /\ MaxOut \in Nat /\ MaxIn \in Nat
    /\ PipeCap \in Nat \ {0} /\ ChanCap \in Nat \ {0} /\ NetCap \in Nat \ {0}
    /\ Outs \subseteq {"stdout", "stderr"} /\ "stdout" \in Outs
    /\ MayDisconnect \in BOOLEAN /\ MayFailLocally \in BOOLEAN /\ ReadsToEof \in BOOLEAN

VARIABLES
    child,     \* "running" or "exited"
    written,   \* units written so far to each output
    open,      \* whether some process still holds an output's write end
    pipe,      \* output pipes
    copier,    \* the copy_to tasks
    chan,      \* their channels
    net,       \* gRPC response streams
    ended,     \* whether the end of a response stream was sent
    sink,      \* the client's copy_stream tasks
    out,       \* what they have written
    swait,     \* Server::wait
    client,    \* P9cpuClient: start, wait and its result
    stop,      \* the broadcast channel that stops in_task
    typed,     \* units typed so far
    tin,       \* typed and not yet read
    tinEof,    \* the user's stdin is at its end
    intask,    \* in_task of setup_stdio
    ichan,     \* its channel, of capacity 1
    rpcin,     \* the task of RpcClient::stdin
    inet,      \* gRPC request stream of stdin
    sin,       \* Server::stdin
    spipe,     \* the child's stdin pipe
    consumed,  \* what the child has read
    conn       \* whether the connection is up

outvars == <<written, open, pipe, copier, chan, net, ended, sink, out>>
invars == <<typed, tin, tinEof, intask, ichan, rpcin, inet, sin, spipe, consumed>>
vars == <<child, outvars, swait, client, stop, invars, conn>>

Units(n) == [i \in 1..n |-> i]
TaskOf(pcs) == [pc: pcs, buf: Nat]

(* One type invariant, with the capacities of the queues (mpsc::channel in *)
(* server.rs and client.rs).                                               *)
TypeOK ==
    /\ child \in {"running", "exited"}
    /\ \A o \in Outs :
          /\ written[o] \in 0..MaxOut
          /\ open[o] \in BOOLEAN /\ ended[o] \in BOOLEAN
          /\ Len(pipe[o]) <= PipeCap
          /\ copier[o] \in TaskOf({"unopened", "read", "send", "done"})
          /\ Len(chan[o]) <= ChanCap
          /\ Len(net[o]) <= NetCap
          /\ sink[o] \in {"unopened", "run", "done", "failed"}
          /\ Len(out[o]) <= MaxOut
    /\ swait \in {"uncalled", "child", "join", "answered", "dropped"}
    /\ client \in [pc: {"open", "started", "waiting", "join", "returned"},
                   res: {"none", "code", "error"}]
    /\ stop \in BOOLEAN /\ tinEof \in BOOLEAN /\ conn \in BOOLEAN
    /\ typed \in 0..MaxIn /\ Len(tin) <= MaxIn
    /\ intask \in TaskOf({"unopened", "read", "send", "await", "done", "failed"})
    /\ Len(ichan) <= 1 /\ Len(inet) <= NetCap /\ Len(spipe) <= PipeCap
    /\ rpcin \in {"first", "stream", "closing", "done"}
    /\ sin \in TaskOf({"none", "get", "read", "write", "ok", "error"})
    /\ Len(consumed) <= MaxIn

Init ==
    /\ child = "running"
    /\ written = [o \in Outs |-> 0]
    /\ open = [o \in Outs |-> TRUE]
    /\ pipe = [o \in Outs |-> << >>]
    /\ copier = [o \in Outs |-> [pc |-> "unopened", buf |-> 0]]
    /\ chan = [o \in Outs |-> << >>]
    /\ net = [o \in Outs |-> << >>]
    /\ ended = [o \in Outs |-> FALSE]
    /\ sink = [o \in Outs |-> "unopened"]
    /\ out = [o \in Outs |-> << >>]
    /\ swait = "uncalled"
    /\ client = [pc |-> "open", res |-> "none"]
    /\ stop = FALSE
    /\ typed = 0 /\ tin = << >> /\ tinEof = FALSE
    /\ intask = [pc |-> "unopened", buf |-> 0]
    /\ ichan = << >> /\ rpcin = "first" /\ inet = << >>
    /\ sin = [pc |-> "none", buf |-> 0]
    /\ spipe = << >> /\ consumed = << >>
    /\ conn = TRUE

-----------------------------------------------------------------------------
(* The command and its descendants.                                        *)

(* The server keeps the write end of the child's stdin in the Session,     *)
(* and stdin() does not close it when the client's stream ends: it closes  *)
(* when wait has removed the session and no stdin() call is left.          *)
StdinOpen == swait # "answered" \/ sin.pc \in {"read", "write"}

ChildWrites(o) ==
    /\ open[o]
    /\ written[o] < MaxOut
    /\ Len(pipe[o]) < PipeCap
    /\ written' = [written EXCEPT ![o] = @ + 1]
    /\ pipe' = [pipe EXCEPT ![o] = Append(@, written'[o])]
    /\ UNCHANGED <<child, open, copier, chan, net, ended, sink, out, swait,
                   client, stop, invars, conn>>

(* The last process that holds the write end closes it, before or after    *)
(* the child itself exits.                                                 *)
OutCloses(o) ==
    /\ open[o]
    /\ ReadsToEof => child = "exited"
    /\ open' = [open EXCEPT ![o] = FALSE]
    /\ UNCHANGED <<child, written, pipe, copier, chan, net, ended, sink, out,
                   swait, client, stop, invars, conn>>

ChildReads ==
    /\ child = "running"
    /\ spipe # << >>
    /\ spipe' = Tail(spipe)
    /\ consumed' = Append(consumed, Head(spipe))
    /\ UNCHANGED <<child, outvars, swait, client, stop, typed, tin, tinEof,
                   intask, ichan, rpcin, inet, sin, conn>>

ChildExits ==
    /\ child = "running"
    /\ ReadsToEof => spipe = << >> /\ ~StdinOpen
    /\ child' = "exited"
    /\ UNCHANGED <<outvars, swait, client, stop, invars, conn>>

-----------------------------------------------------------------------------
(* Server::copy_to, one task for each output.                              *)

CopierReads(o) ==
    /\ copier[o].pc = "read"
    /\ pipe[o] # << >>
    /\ copier' = [copier EXCEPT ![o] = [pc |-> "send", buf |-> Head(pipe[o])]]
    /\ pipe' = [pipe EXCEPT ![o] = Tail(@)]
    /\ UNCHANGED <<child, written, open, chan, net, ended, sink, out, swait,
                   client, stop, invars, conn>>

CopierAtEnd(o) ==
    /\ copier[o].pc = "read"
    /\ pipe[o] = << >> /\ ~open[o]
    /\ copier' = [copier EXCEPT ![o].pc = "done"]
    /\ UNCHANGED <<child, written, open, pipe, chan, net, ended, sink, out,
                   swait, client, stop, invars, conn>>

(* Faulty variant: a channel that drops its oldest item when it is full.   *)
CopierSendsOverOld(o) ==
    /\ copier[o].pc = "send"
    /\ conn
    /\ chan' = IF Len(chan[o]) < ChanCap
               THEN [chan EXCEPT ![o] = Append(@, copier[o].buf)]
               ELSE [chan EXCEPT ![o] = Append(Tail(@), copier[o].buf)]
    /\ copier' = [copier EXCEPT ![o].pc = "read"]
    /\ UNCHANGED <<child, written, open, pipe, net, ended, sink, out, swait,
                   client, stop, invars, conn>>

(* tx.send(buf).await?: it waits for room, and fails without a receiver:   *)
(* the connection is lost, or the client has dropped the stream, which the *)
(* server learns at some later time.                                       *)
CopierSends(o) ==
    /\ copier[o].pc = "send"
    /\ conn /\ Len(chan[o]) < ChanCap
    /\ chan' = [chan EXCEPT ![o] = Append(@, copier[o].buf)]
    /\ copier' = [copier EXCEPT ![o].pc = "read"]
    /\ UNCHANGED <<child, written, open, pipe, net, ended, sink, out, swait,
                   client, stop, invars, conn>>

CopierFails(o) ==
    /\ copier[o].pc = "send"
    /\ ~conn \/ sink[o] = "failed"
    /\ copier' = [copier EXCEPT ![o].pc = "done"]
    /\ chan' = [chan EXCEPT ![o] = << >>]
    /\ UNCHANGED <<child, written, open, pipe, net, ended, sink, out, swait,
                   client, stop, invars, conn>>

-----------------------------------------------------------------------------
(* The gRPC response streams (tonic).                                      *)

Transmit(o) ==
    /\ conn /\ sink[o] # "failed"
    /\ chan[o] # << >> /\ Len(net[o]) < NetCap
    /\ net' = [net EXCEPT ![o] = Append(@, Head(chan[o]))]
    /\ chan' = [chan EXCEPT ![o] = Tail(@)]
    /\ UNCHANGED <<child, written, open, pipe, copier, ended, sink, out, swait,
                   client, stop, invars, conn>>

TransmitEnd(o) ==
    /\ conn /\ sink[o] # "failed"
    /\ copier[o].pc = "done" /\ chan[o] = << >> /\ ~ended[o]
    /\ ended' = [ended EXCEPT ![o] = TRUE]
    /\ UNCHANGED <<child, written, open, pipe, copier, chan, net, sink, out,
                   swait, client, stop, invars, conn>>

(* The connection breaks: the server drops its handlers and the receivers  *)
(* of the channels; copy_to and the session stay.                          *)
Disconnect ==
    /\ MayDisconnect
    /\ conn
    /\ conn' = FALSE
    /\ chan' = [o \in Outs |-> << >>]
    /\ swait' = IF swait \in {"child", "join"} THEN "dropped" ELSE swait
    /\ sin' = IF sin.pc \in {"get", "read", "write"}
              THEN [sin EXCEPT !.pc = "error"] ELSE sin
    /\ UNCHANGED <<child, written, open, pipe, copier, net, ended, sink, out,
                   client, stop, typed, tin, tinEof, intask, ichan, rpcin, inet,
                   spipe, consumed>>

-----------------------------------------------------------------------------
(* P9cpuClient::copy_stream.  ByteVecStream turns an error into the end.   *)

SinkWrites(o) ==
    /\ sink[o] = "run"
    /\ net[o] # << >>
    /\ out' = [out EXCEPT ![o] = Append(@, Head(net[o]))]
    /\ net' = [net EXCEPT ![o] = Tail(@)]
    /\ UNCHANGED <<child, written, open, pipe, copier, chan, ended, sink, swait,
                   client, stop, invars, conn>>

(* write_all(..).await? or flush().await? fails: the task ends and drops   *)
(* the stream with what is in flight.  The unit that it was writing counts *)
(* as not written.                                                         *)
SinkFails(o) ==
    /\ MayFailLocally
    /\ sink[o] = "run"
    /\ net[o] # << >>
    /\ sink' = [sink EXCEPT ![o] = "failed"]
    /\ net' = [net EXCEPT ![o] = << >>]
    /\ UNCHANGED <<child, written, open, pipe, copier, chan, ended, out, swait,
                   client, stop, invars, conn>>

SinkEnds(o) ==
    /\ sink[o] = "run"
    /\ (net[o] = << >> /\ ended[o]) \/ ~conn
    /\ sink' = [sink EXCEPT ![o] = "done"]
    /\ UNCHANGED <<child, written, open, pipe, copier, chan, net, ended, out,
                   swait, client, stop, invars, conn>>

-----------------------------------------------------------------------------
(* Server::wait: the child, then every handle of the session.              *)

ServerWaitChild ==
    /\ swait = "child"
    /\ child = "exited"
    /\ swait' = "join"
    /\ UNCHANGED <<child, outvars, client, stop, invars, conn>>

ServerWaitAnswers ==
    /\ swait = "join"
    /\ \A o \in Outs : copier[o].pc = "done"
    /\ swait' = "answered"
    /\ UNCHANGED <<child, outvars, client, stop, invars, conn>>

-----------------------------------------------------------------------------
(* P9cpuClient::start, from setup_stdio on, and P9cpuClient::wait.         *)

(* setup_stdio opens stdout, then stderr, then stdin.                      *)
ClientOpens(o) ==
    /\ client.pc = "open"
    /\ conn
    /\ copier[o].pc = "unopened"
    /\ o = "stderr" => copier["stdout"].pc # "unopened"
    /\ copier' = [copier EXCEPT ![o].pc = "read"]
    /\ sink' = [sink EXCEPT ![o] = "run"]
    /\ UNCHANGED <<child, written, open, pipe, chan, net, ended, out, swait,
                   client, stop, invars, conn>>

ClientStarted ==
    /\ client.pc = "open"
    /\ \A o \in Outs : copier[o].pc # "unopened"
    /\ client' = [client EXCEPT !.pc = "started"]
    /\ intask' = [intask EXCEPT !.pc = "read"]
    /\ UNCHANGED <<child, outvars, swait, stop, typed, tin, tinEof, ichan, rpcin,
                   inet, sin, spipe, consumed, conn>>

ClientWaits ==
    /\ client.pc = "started"
    /\ client' = [client EXCEPT !.pc = "waiting"]
    /\ swait' = IF conn THEN "child" ELSE "dropped"
    /\ UNCHANGED <<child, outvars, stop, invars, conn>>

(* wait_inner returned; stop_tx.send(()) and on to the handles.            *)
ClientStops ==
    /\ client.pc = "waiting"
    /\ \/ conn /\ swait = "answered" /\ client' = [pc |-> "join", res |-> "code"]
       \/ ~conn /\ client' = [pc |-> "join", res |-> "error"]
    /\ stop' = TRUE
    /\ UNCHANGED <<child, outvars, swait, invars, conn>>

(* Faulty variant: the tasks that write the output are not joined.         *)
ClientReturnsEarly ==
    /\ client.pc = "join"
    /\ intask.pc \in {"done", "failed"}
    /\ client' = [client EXCEPT !.pc = "returned"]
    /\ UNCHANGED <<child, outvars, swait, stop, invars, conn>>

(* handle.await for every task: the error of one is logged and no more.    *)
ClientReturns ==
    /\ client.pc = "join"
    /\ \A o \in Outs : sink[o] \in {"done", "failed"}
    /\ intask.pc \in {"done", "failed"}
    /\ client' = [client EXCEPT !.pc = "returned"]
    /\ UNCHANGED <<child, outvars, swait, stop, invars, conn>>

-----------------------------------------------------------------------------
(* The user, and in_task of setup_stdio.                                   *)

UserTypes ==
    /\ intask.pc # "failed"
    /\ typed < MaxIn /\ ~tinEof
    /\ typed' = typed + 1
    /\ tin' = Append(tin, typed')
    /\ UNCHANGED <<child, outvars, swait, client, stop, tinEof, intask, ichan,
                   rpcin, inet, sin, spipe, consumed, conn>>

UserEnds ==
    /\ intask.pc # "failed"
    /\ ~tinEof
    /\ tinEof' = TRUE
    /\ UNCHANGED <<child, outvars, swait, client, stop, typed, tin, intask,
                   ichan, rpcin, inet, sin, spipe, consumed, conn>>

(* select! { stdin.read, stop_rx.recv }                                    *)
InReads ==
    /\ intask.pc = "read"
    /\ tin # << >>
    /\ intask' = [pc |-> "send", buf |-> Head(tin)]
    /\ tin' = Tail(tin)
    /\ UNCHANGED <<child, outvars, swait, client, stop, typed, tinEof, ichan,
                   rpcin, inet, sin, spipe, consumed, conn>>

(* Faulty variant: the stop signal is not listened to.                     *)
InBreaksAtEof ==
    /\ intask.pc = "read"
    /\ tin = << >> /\ tinEof
    /\ intask' = [intask EXCEPT !.pc = "await"]
    /\ UNCHANGED <<child, outvars, swait, client, stop, typed, tin, tinEof,
                   ichan, rpcin, inet, sin, spipe, consumed, conn>>

InBreaks ==
    /\ intask.pc = "read"
    /\ stop \/ (tin = << >> /\ tinEof)
    /\ intask' = [intask EXCEPT !.pc = "await"]
    /\ UNCHANGED <<child, outvars, swait, client, stop, typed, tin, tinEof,
                   ichan, rpcin, inet, sin, spipe, consumed, conn>>

(* The read of stdin fails: in_task ends without a last wait for the RPC.  *)
(* Input that is then left unread, or comes later, counts as never typed.  *)
InFails ==
    /\ MayFailLocally
    /\ intask.pc = "read"
    /\ tin = << >> /\ ~tinEof
    /\ intask' = [intask EXCEPT !.pc = "failed"]
    /\ UNCHANGED <<child, outvars, swait, client, stop, typed, tin, tinEof,
                   ichan, rpcin, inet, sin, spipe, consumed, conn>>

(* tx.send(buf).await?, outside the select!                                *)
InSends ==
    /\ intask.pc = "send"
    /\ \/ /\ rpcin # "done" /\ ichan = << >>
          /\ ichan' = <<intask.buf>>
          /\ intask' = [intask EXCEPT !.pc = "read"]
       \/ /\ rpcin = "done"
          /\ intask' = [intask EXCEPT !.pc = "done"]
          /\ UNCHANGED ichan
    /\ UNCHANGED <<child, outvars, swait, client, stop, typed, tin, tinEof,
                   rpcin, inet, sin, spipe, consumed, conn>>

(* stdin_future.await?                                                     *)
InAwaits ==
    /\ intask.pc = "await"
    /\ rpcin = "done"
    /\ intask' = [intask EXCEPT !.pc = "done"]
    /\ UNCHANGED <<child, outvars, swait, client, stop, typed, tin, tinEof,
                   ichan, rpcin, inet, sin, spipe, consumed, conn>>

-----------------------------------------------------------------------------
(* The task of RpcClient::stdin: it waits for a first unit, opens the RPC  *)
(* with it, streams the others, and waits for the answer.                  *)

TxDropped == intask.pc \in {"await", "done", "failed"}

RpcOpens ==
    /\ rpcin = "first"
    /\ ichan # << >>
    /\ ichan' = << >>
    /\ \/ /\ conn
          /\ rpcin' = "stream" /\ inet' = ichan
          /\ sin' = [sin EXCEPT !.pc = "get"]
       \/ /\ ~conn
          /\ rpcin' = "done" /\ UNCHANGED <<inet, sin>>
    /\ UNCHANGED <<child, outvars, swait, client, stop, typed, tin, tinEof,
                   intask, spipe, consumed, conn>>

RpcForwards ==
    /\ rpcin = "stream"
    /\ conn /\ ichan # << >> /\ Len(inet) < NetCap
    /\ inet' = inet \o ichan
    /\ ichan' = << >>
    /\ UNCHANGED <<child, outvars, swait, client, stop, typed, tin, tinEof,
                   intask, rpcin, sin, spipe, consumed, conn>>

RpcInputEnds ==
    /\ TxDropped /\ ichan = << >>
    /\ \/ rpcin = "first" /\ rpcin' = "done"
       \/ rpcin = "stream" /\ rpcin' = "closing"
    /\ UNCHANGED <<child, outvars, swait, client, stop, typed, tin, tinEof,
                   intask, ichan, inet, sin, spipe, consumed, conn>>

RpcReturns ==
    /\ rpcin \in {"stream", "closing"}
    /\ sin.pc \in {"ok", "error"} \/ ~conn
    /\ rpcin' = "done"
    /\ UNCHANGED <<child, outvars, swait, client, stop, typed, tin, tinEof,
                   intask, ichan, inet, sin, spipe, consumed, conn>>

-----------------------------------------------------------------------------
(* Server::stdin.                                                          *)

SinVars == <<child, outvars, swait, client, stop, typed, tin, tinEof, intask,
             ichan, rpcin, consumed, conn>>

SinGets ==
    /\ sin.pc = "get"
    /\ sin' = [sin EXCEPT !.pc = IF swait = "answered" THEN "error" ELSE "read"]
    /\ UNCHANGED <<inet, spipe>>
    /\ UNCHANGED SinVars

SinReads ==
    /\ sin.pc = "read"
    /\ inet # << >>
    /\ sin' = [pc |-> "write", buf |-> Head(inet)]
    /\ inet' = Tail(inet)
    /\ UNCHANGED spipe
    /\ UNCHANGED SinVars

SinAtEnd ==
    /\ sin.pc = "read"
    /\ inet = << >> /\ rpcin = "closing"
    /\ sin' = [sin EXCEPT !.pc = "ok"]
    /\ UNCHANGED <<inet, spipe>>
    /\ UNCHANGED SinVars

(* Faulty variant: one write, without the loop over the stream.            *)
SinWritesOnce ==
    /\ sin.pc = "write"
    /\ \/ /\ child = "running" /\ Len(spipe) < PipeCap
          /\ spipe' = Append(spipe, sin.buf)
          /\ sin' = [sin EXCEPT !.pc = "ok"]
       \/ /\ child = "exited"
          /\ sin' = [sin EXCEPT !.pc = "error"]
          /\ UNCHANGED spipe
    /\ UNCHANGED inet
    /\ UNCHANGED SinVars

(* write_all: it waits for room, and fails when the child is gone.         *)
SinWrites ==
    /\ sin.pc = "write"
    /\ \/ /\ child = "running" /\ Len(spipe) < PipeCap
          /\ spipe' = Append(spipe, sin.buf)
          /\ sin' = [sin EXCEPT !.pc = "read"]
       \/ /\ child = "exited"
          /\ sin' = [sin EXCEPT !.pc = "error"]
          /\ UNCHANGED spipe
    /\ UNCHANGED inet
    /\ UNCHANGED SinVars

-----------------------------------------------------------------------------
OutStep(o) ==
    \/ CopierReads(o) \/ CopierAtEnd(o) \/ CopierSends(o) \/ CopierFails(o)
    \/ Transmit(o) \/ TransmitEnd(o) \/ SinkWrites(o) \/ SinkFails(o)
    \/ SinkEnds(o)

InTaskStep == InReads \/ InBreaks \/ InSends \/ InAwaits
RpcStep == RpcOpens \/ RpcForwards \/ RpcInputEnds \/ RpcReturns
SinStep == SinGets \/ SinReads \/ SinAtEnd \/ SinWrites
WaitStep ==
    \/ ServerWaitChild \/ ServerWaitAnswers \/ ClientStarted \/ ClientWaits
    \/ ClientStops \/ ClientReturns

Next ==
    \/ \E o \in Outs : ChildWrites(o) \/ OutCloses(o) \/ ClientOpens(o) \/ OutStep(o)
    \/ ChildReads \/ ChildExits \/ Disconnect \/ UserTypes \/ UserEnds
    \/ InTaskStep \/ InFails \/ RpcStep \/ SinStep \/ WaitStep

Spec == Init /\ [][Next]_vars

(* Every task is scheduled, and what a task or the transport can do it     *)
(* does.  Of the command it is assumed that it reads its input and that    *)
(* its output is closed in the end.  It may run for ever, unless it is one *)
(* that exits at the end of its input.  Nothing is assumed of the user,    *)
(* who may never type or end the input.                                    *)
Fairness ==
    /\ \A o \in Outs :
          /\ WF_vars(CopierReads(o)) /\ WF_vars(CopierAtEnd(o))
          /\ WF_vars(CopierSends(o)) /\ WF_vars(CopierFails(o))
          /\ WF_vars(Transmit(o)) /\ WF_vars(TransmitEnd(o))
          /\ WF_vars(SinkWrites(o)) /\ WF_vars(SinkEnds(o))
          /\ WF_vars(ClientOpens(o)) /\ WF_vars(OutCloses(o))
    /\ WF_vars(InTaskStep) /\ WF_vars(RpcStep) /\ WF_vars(SinStep)
    /\ WF_vars(WaitStep) /\ WF_vars(ChildReads)
    /\ WF_vars(ReadsToEof /\ ChildExits)

FairSpec == Spec /\ Fairness

-----------------------------------------------------------------------------
(* No unit of output is lost, duplicated or reordered between the command  *)
(* and the client's terminal.                                              *)
OutputInOrder == \A o \in Outs : IsPrefix(out[o], Units(written[o]))

(* When P9cpuClient::wait returns the command's exit code over a           *)
(* connection that held, everything the command and its descendants wrote  *)
(* to an output has been written and flushed on the client's side, unless  *)
(* that write or flush failed there: wait logs the failure and returns the *)
(* code all the same.                                                      *)
AllOutputAtReturn ==
    client = [pc |-> "returned", res |-> "code"] /\ conn =>
        \A o \in Outs : sink[o] = "failed" \/ out[o] = Units(written[o])

(* What the user typed reaches the command in order, without gaps.         *)
InputInOrder == IsPrefix(consumed \o spipe, Units(typed))

(* Both directions: the queues keep their bounds, and with that what goes  *)
(* in at one end comes out at the other in order and without a gap, though *)
(* every task on the way may be held up.                                   *)
StreamsInv == TypeOK /\ OutputInOrder /\ InputInOrder

(* P9cpuClient::wait returns once the command is done and its output is    *)
(* closed, or once the connection is lost: the stop signal is never        *)
(* missed, and no task waits for ever on a full queue or a dead peer, not  *)
(* even if the user never types or ends the input.                         *)
WaitReturns ==
    /\ client.pc \in {"waiting", "join"}
    /\ (child = "exited" /\ \A o \in Outs : ~open[o]) \/ ~conn
    ~> client.pc = "returned"

(* What is typed before the command exits gets through to it, unless the   *)
(* client fails to read it.                                                *)
InputArrives ==
    \A n \in 1..MaxIn :
        typed >= n ~> Len(consumed) >= n \/ child = "exited" \/ ~conn \/ stop
                      \/ client.pc = "open" \/ intask.pc = "failed"

(* client.rs on start: "To obtained the command return code, call          *)
(* [wait()]".  Of a command that ends at the end of its input, the code is *)
(* obtained once the user's input has ended.                               *)
CodeObtained ==
    client.pc = "waiting" /\ tinEof ~> client.pc = "returned"
=============================================================================
