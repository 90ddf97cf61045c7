----------------------------- MODULE StdioProofs -----------------------------
(***************************************************************************)
(* Theorems about the standard streams of a session (Stdio), for any       *)
(* number of units, any capacities of the pipes, channels and gRPC         *)
(* streams, with or without a tty and a connection that may break.         *)
(*                                                                         *)
(* The queues a stream passes through hold consecutive units: each queue   *)
(* starts where the one nearer to the receiver stops.  The inductive       *)
(* invariant says this of every queue with the predicate Run, and says     *)
(* what each task has seen of its neighbours when it has finished.         *)
(***************************************************************************)
EXTENDS Stdio, TLAPS

(* s holds the units a+1, a+2, ..., b, in this order. *)
Run(s, a, b) ==
    /\ s \in Seq(Nat) /\ a \in Nat /\ b \in Nat
    /\ b = a + Len(s)
    /\ \A i \in 1..Len(s) : s[i] = a + i

-----------------------------------------------------------------------------
(* Consecutive units: how a queue of them grows and shrinks.               *)

(* An empty queue holds the units from a position to the same position. *)
LEMMA RunEmpty ==
    /\ \A a \in Nat : Run(<< >>, a, a)
    /\ \A a, b : Run(<< >>, a, b) => a = b
BY DEF Run

(* A queue of units runs forwards. *)
LEMMA RunBounds ==
    ASSUME NEW s, NEW a, NEW b, Run(s, a, b)
    PROVE  a \in Nat /\ b \in Nat /\ a <= b /\ s \in Seq(Nat) /\ Len(s) = b - a
BY DEF Run

(* A queue that takes the next unit still holds consecutive ones. *)
LEMMA RunAppend ==
    ASSUME NEW s, NEW a, NEW b, Run(s, a, b)
    PROVE  Run(Append(s, b + 1), a, b + 1)
<1>1. s \in Seq(Nat) /\ Len(s) \in Nat /\ a \in Nat /\ b = a + Len(s)
  BY DEF Run
<1>2. Append(s, b + 1) \in Seq(Nat) /\ Len(Append(s, b + 1)) = Len(s) + 1
  BY <1>1
<1>3. ASSUME NEW i \in 1..(Len(s) + 1) PROVE Append(s, b + 1)[i] = a + i
  BY <1>1 DEF Run
<1>4. QED
  BY <1>1, <1>2, <1>3 DEF Run

(* The first unit leaves a queue, and the rest follows it. *)
LEMMA RunTail ==
    ASSUME NEW s, NEW a, NEW b, Run(s, a, b), s # << >>
    PROVE  Head(s) = a + 1 /\ Run(Tail(s), a + 1, b) /\ a + 1 <= b
<1>1. s \in Seq(Nat) /\ Len(s) \in Nat \ {0} /\ a \in Nat /\ b = a + Len(s)
  BY DEF Run
<1>2. Head(s) = s[1] /\ Head(s) = a + 1
  BY <1>1 DEF Run
<1>3. Tail(s) \in Seq(Nat) /\ Len(Tail(s)) = Len(s) - 1
  BY <1>1
<1>4. ASSUME NEW i \in 1..(Len(s) - 1) PROVE Tail(s)[i] = (a + 1) + i
  <2>1. Tail(s)[i] = s[i + 1] /\ i + 1 \in 1..Len(s)
    BY <1>1
  <2>2. QED
    BY <1>1, <2>1 DEF Run
<1>5. QED
  BY <1>1, <1>2, <1>3, <1>4 DEF Run

(* Two queues, one where the other stops, hold one run of units. *)
LEMMA RunConcat ==
    ASSUME NEW s, NEW t, NEW a, NEW b, NEW c, Run(s, a, b), Run(t, b, c)
    PROVE  Run(s \o t, a, c)
<1>1. /\ s \in Seq(Nat) /\ t \in Seq(Nat)
      /\ Len(s) \in Nat /\ Len(t) \in Nat
      /\ a \in Nat /\ b = a + Len(s) /\ c = b + Len(t)
  BY DEF Run
<1>2. s \o t \in Seq(Nat) /\ Len(s \o t) = Len(s) + Len(t)
  BY <1>1
<1>3. ASSUME NEW i \in 1..(Len(s) + Len(t)) PROVE (s \o t)[i] = a + i
  <2>1. CASE i <= Len(s)
    BY <1>1, <2>1 DEF Run
  <2>2. CASE i > Len(s)
    <3>1. (s \o t)[i] = t[i - Len(s)] /\ i - Len(s) \in 1..Len(t)
      BY <1>1, <2>2
    <3>2. QED
      BY <1>1, <3>1 DEF Run
  <2>3. QED
    BY <1>1, <2>1, <2>2
<1>4. QED
  BY <1>1, <1>2, <1>3 DEF Run

(* Consecutive units from the first are a prefix of what was produced, and *)
(* all of it when the last one produced is among them.                     *)
LEMMA RunPrefix ==
    ASSUME NEW n \in Nat, NEW s, NEW b, Run(s, 0, b), b <= n
    PROVE  /\ IsPrefix(s, Units(n))
           /\ b = n => s = Units(n)
<1>1. /\ s \in Seq(Nat) /\ Len(s) \in Nat /\ b = Len(s)
      /\ \A i \in 1..Len(s) : s[i] = i
  BY DEF Run
<1>2. /\ Units(n) \in Seq(Nat) /\ Len(Units(n)) = n
      /\ \A i \in 1..n : Units(n)[i] = i
  BY DEF Units
<1>3. SubSeq(s, 1, Len(s)) = SubSeq(Units(n), 1, Len(s))
  BY <1>1, <1>2
<1>4. Len(s) = n => s = Units(n)
  BY <1>1, <1>2
<1>5. QED
  BY <1>1, <1>2, <1>3, <1>4 DEF IsPrefix

-----------------------------------------------------------------------------
(* The inductive invariant.                                                *)

CopierPcs == {"unopened", "read", "send", "done"}
InTaskPcs == {"unopened", "read", "send", "await", "done", "failed"}
SinPcs == {"none", "get", "read", "write", "ok", "error"}

OutTypes ==
    /\ written \in [Outs -> 0..MaxOut]
    /\ open \in [Outs -> BOOLEAN] /\ ended \in [Outs -> BOOLEAN]
    /\ pipe \in [Outs -> Seq(Nat)] /\ chan \in [Outs -> Seq(Nat)]
    /\ net \in [Outs -> Seq(Nat)] /\ out \in [Outs -> Seq(Nat)]
    /\ copier \in [Outs -> TaskOf(CopierPcs)]
    /\ sink \in [Outs -> {"unopened", "run", "done", "failed"}]

InTypes ==
    /\ typed \in 0..MaxIn /\ tinEof \in BOOLEAN
    /\ tin \in Seq(Nat) /\ ichan \in Seq(Nat) /\ inet \in Seq(Nat)
    /\ intask \in TaskOf(InTaskPcs)
    /\ rpcin \in {"first", "stream", "closing", "done"}
    /\ sin \in TaskOf(SinPcs)

WaitTypes ==
    /\ child \in {"running", "exited"}
    /\ swait \in {"uncalled", "child", "join", "answered", "dropped"}
    /\ client \in [pc: {"open", "started", "waiting", "join", "returned"},
                   res: {"none", "code", "error"}]
    /\ stop \in BOOLEAN /\ conn \in BOOLEAN

TypeInv == OutTypes /\ InTypes /\ WaitTypes

(* The capacities. *)
Bounds ==
    /\ \A o \in Outs :
          Len(pipe[o]) <= PipeCap /\ Len(chan[o]) <= ChanCap /\ Len(net[o]) <= NetCap
    /\ Len(spipe) <= PipeCap /\ Len(ichan) <= 1 /\ Len(inet) <= NetCap
    /\ Len(tin) <= typed

(* Output o: from the terminal back to the command, each queue goes on     *)
(* where the next one stops; the unit that copy_to holds is between its    *)
(* channel and the pipe.  A broken connection cuts the chain behind the    *)
(* units in flight, which are still delivered in order, and a failed write *)
(* on the client's side cuts it at the terminal.                           *)
Held(o) == conn /\ sink[o] # "failed"

OutputAt(o, a, b, c) ==
    /\ Run(out[o], 0, a) /\ Run(net[o], a, b) /\ b <= written[o]
    /\ Held(o) =>
          /\ Run(chan[o], b, c)
          /\ copier[o].pc # "send" => Run(pipe[o], c, written[o])
          /\ copier[o].pc = "send" => /\ copier[o].buf = c + 1
                                      /\ Run(pipe[o], c + 1, written[o])

OutputRuns(o) == \E a, b, c \in Nat : OutputAt(o, a, b, c)

(* What has ended on the way of output o, unless the chain is cut: each    *)
(* task ends after the one before it, with nothing left between them. *)
OutputEnds(o) ==
    /\ copier[o].pc = "unopened" => sink[o] = "unopened"
    /\ Held(o) =>
        /\ copier[o].pc = "done" => pipe[o] = << >> /\ ~open[o]
        /\ ended[o] => copier[o].pc = "done" /\ chan[o] = << >>
        /\ sink[o] = "done" => ended[o] /\ net[o] = << >>

(* The two waits: the exit code is reported only after Server::wait has    *)
(* joined every copy_to, and P9cpuClient::wait joins every copy_stream.    *)
WaitsJoin ==
    /\ client.pc \in {"open", "started"} => swait = "uncalled" /\ client.res = "none"
    /\ client.res = "code" => swait = "answered"
    /\ swait = "answered" => \A o \in Outs : copier[o].pc = "done"
    /\ client.pc = "returned" => \A o \in Outs : sink[o] \in {"done", "failed"}

(* The input, from the command back to the user.  While Server::stdin      *)
(* runs, the gRPC stream goes on behind the pipe and the unit it holds;    *)
(* while the task of RpcClient::stdin takes input too, so do its channel,  *)
(* the unit in_task holds, and what is typed and not read.                 *)
Serving == sin.pc \in {"get", "read", "write"}
Feeding == rpcin = "first" \/ (rpcin = "stream" /\ Serving)

InputAt(a, b, c, d) ==
    /\ Run(consumed, 0, a) /\ Run(spipe, a, b) /\ b <= typed
    /\ Serving =>
          /\ c <= typed
          /\ sin.pc # "write" => Run(inet, b, c)
          /\ sin.pc = "write" => sin.buf = b + 1 /\ Run(inet, b + 1, c)
    /\ rpcin = "first" => b = 0 /\ c = 0
    /\ Feeding =>
          /\ Run(ichan, c, d)
          /\ intask.pc # "send" => Run(tin, d, typed)
          /\ intask.pc = "send" => intask.buf = d + 1 /\ Run(tin, d + 1, typed)

InputRuns == \E a, b, c, d \in Nat : InputAt(a, b, c, d)

(* The lives of in_task and of the call of Server::stdin. *)
StdinCall ==
    /\ client.pc = "open" => intask.pc = "unopened"
    /\ Serving => conn /\ rpcin \in {"stream", "closing"}
    /\ rpcin = "first" => sin.pc = "none" /\ inet = << >>

IInv ==
    /\ TypeInv
    /\ Bounds
    /\ \A o \in Outs : OutputRuns(o) /\ OutputEnds(o)
    /\ WaitsJoin
    /\ StdinCall /\ InputRuns

-----------------------------------------------------------------------------
(* Types.                                                                  *)

(* The head of a queue of units is a unit, and its rest a queue of them. *)
LEMMA HeadTail ==
    ASSUME NEW s \in Seq(Nat), s # << >>
    PROVE  Head(s) \in Nat /\ Tail(s) \in Seq(Nat)
OBVIOUS

(* A task stays one when it is given another program counter. *)
LEMMA TaskUpdate ==
    ASSUME NEW P, NEW t \in TaskOf(P), NEW q \in P
    PROVE  /\ t.pc \in P /\ t.buf \in Nat
           /\ [t EXCEPT !.pc = q] \in TaskOf(P)
           /\ [t EXCEPT !.pc = q].pc = q
           /\ [t EXCEPT !.pc = q].buf = t.buf
BY DEF TaskOf

(* The types hold at the start. *)
LEMMA TypeInit == Init => TypeInv
<1> SUFFICES ASSUME Init PROVE TypeInv
  OBVIOUS
<1>1. OutTypes
  BY BoundAssumption DEF Init, OutTypes, TaskOf, CopierPcs
<1>2. InTypes
  <2>1. typed \in 0..MaxIn /\ rpcin \in {"first", "stream", "closing", "done"}
    BY BoundAssumption DEF Init
  <2>2. tin \in Seq(Nat) /\ ichan \in Seq(Nat) /\ inet \in Seq(Nat)
    BY DEF Init
  <2>3. intask \in TaskOf(InTaskPcs) /\ sin \in TaskOf(SinPcs)
    BY DEF Init, TaskOf, InTaskPcs, SinPcs
  <2>4. QED
    BY <2>1, <2>2, <2>3 DEF Init, InTypes
<1>3. WaitTypes
  BY DEF Init, WaitTypes
<1>4. QED
  BY <1>1, <1>2, <1>3 DEF TypeInv

(* The types are kept by the command and the tasks of the output. *)
LEMMA TypeOutput ==
    ASSUME TypeInv, NEW o \in Outs,
           ChildWrites(o) \/ OutCloses(o) \/ ClientOpens(o) \/ OutStep(o)
    PROVE  TypeInv'
<1>1. WaitTypes'
  BY DEF TypeInv, WaitTypes, ChildWrites, OutCloses, ClientOpens, OutStep, CopierReads,
         CopierAtEnd, CopierSends, CopierFails, Transmit, TransmitEnd, SinkWrites,
         SinkFails, SinkEnds
<1>2. InTypes'
  <2>1. UNCHANGED invars
    BY DEF ChildWrites, OutCloses, ClientOpens, OutStep, CopierReads, CopierAtEnd,
           CopierSends, CopierFails, Transmit, TransmitEnd, SinkWrites, SinkFails,
           SinkEnds
  <2>2. QED
    BY <2>1 DEF invars, TypeInv, InTypes
<1>3. OutTypes'
  <2> USE DEF TypeInv, OutTypes
  <2> \A q \in CopierPcs : [copier[o] EXCEPT !.pc = q] \in TaskOf(CopierPcs)
    BY TaskUpdate
  <2> USE DEF CopierPcs
  <2>1. CASE ChildWrites(o)
    <3>1. written[o] + 1 \in 0..MaxOut
      BY <2>1, BoundAssumption, SMTT(30) DEF ChildWrites
    <3>2. written' \in [Outs -> 0..MaxOut] /\ written'[o] \in Nat
      BY <2>1, <3>1 DEF ChildWrites
    <3>3. pipe' \in [Outs -> Seq(Nat)]
      BY <2>1, <3>2 DEF ChildWrites
    <3>4. QED
      BY <2>1, <3>2, <3>3 DEF ChildWrites
  <2>2. CASE OutCloses(o)
    BY <2>2 DEF OutCloses
  <2>3. CASE ClientOpens(o)
    BY <2>3 DEF ClientOpens
  <2>4. CASE CopierReads(o)
    <3>1. Head(pipe[o]) \in Nat /\ Tail(pipe[o]) \in Seq(Nat)
      BY <2>4, HeadTail DEF CopierReads
    <3>2. [pc |-> "send", buf |-> Head(pipe[o])] \in TaskOf(CopierPcs)
      BY <3>1 DEF TaskOf
    <3>3. QED
      BY <2>4, <3>1, <3>2 DEF CopierReads
  <2>5. CASE CopierAtEnd(o) \/ CopierFails(o)
    <3>1. << >> \in Seq(Nat)
      OBVIOUS
    <3>2. QED
      BY <2>5, <3>1 DEF CopierAtEnd, CopierFails
  <2>6. CASE CopierSends(o)
    <3>1. Append(chan[o], copier[o].buf) \in Seq(Nat)
      BY TaskUpdate DEF TaskOf
    <3>2. QED
      BY <2>6, <3>1 DEF CopierSends
  <2>7. CASE Transmit(o)
    <3>1. Head(chan[o]) \in Nat /\ Tail(chan[o]) \in Seq(Nat)
      BY <2>7, HeadTail DEF Transmit
    <3>2. Append(net[o], Head(chan[o])) \in Seq(Nat)
      BY <3>1
    <3>3. QED
      BY <2>7, <3>1, <3>2 DEF Transmit
  <2>8. CASE TransmitEnd(o) \/ SinkEnds(o) \/ SinkFails(o)
    <3>1. << >> \in Seq(Nat)
      OBVIOUS
    <3>2. QED
      BY <2>8, <3>1 DEF TransmitEnd, SinkEnds, SinkFails
  <2>9. CASE SinkWrites(o)
    <3>1. Head(net[o]) \in Nat /\ Tail(net[o]) \in Seq(Nat)
      BY <2>9, HeadTail DEF SinkWrites
    <3>2. Append(out[o], Head(net[o])) \in Seq(Nat)
      BY <3>1
    <3>3. QED
      BY <2>9, <3>1, <3>2 DEF SinkWrites
  <2>10. QED
    BY <2>1, <2>2, <2>3, <2>4, <2>5, <2>6, <2>7, <2>8, <2>9 DEF OutStep
<1>4. QED
  BY <1>1, <1>2, <1>3 DEF TypeInv

(* The types are kept by the input, the waits and a lost connection. *)
LEMMA TypeOthers ==
    ASSUME TypeInv,
           \/ ChildReads \/ ChildExits \/ Disconnect \/ UserTypes \/ UserEnds
           \/ InTaskStep \/ InFails \/ RpcStep \/ SinStep \/ WaitStep \/ UNCHANGED vars
    PROVE  TypeInv'
<1> USE DEF TypeInv
<1>1. CASE ChildReads \/ UNCHANGED vars
  BY <1>1 DEF ChildReads, vars, outvars, invars, OutTypes, InTypes, WaitTypes
<1>2. CASE ChildExits \/ ServerWaitChild \/ ServerWaitAnswers \/ ClientWaits
           \/ ClientReturns
  <2>1. OutTypes' /\ InTypes'
    BY <1>2 DEF ChildExits, ServerWaitChild, ServerWaitAnswers, ClientWaits,
                ClientReturns, outvars, invars, OutTypes, InTypes
  <2>2. WaitTypes'
    BY <1>2 DEF ChildExits, ServerWaitChild, ServerWaitAnswers, ClientWaits,
                ClientReturns, WaitTypes
  <2>3. QED
    BY <2>1, <2>2
<1>3. CASE ClientStops
  <2>1. OutTypes' /\ InTypes'
    BY <1>3 DEF ClientStops, outvars, invars, OutTypes, InTypes
  <2>2. WaitTypes'
    BY <1>3 DEF ClientStops, WaitTypes
  <2>3. QED
    BY <2>1, <2>2
<1>4. CASE ClientStarted
  <2>1. OutTypes' /\ WaitTypes'
    BY <1>4 DEF ClientStarted, outvars, OutTypes, WaitTypes
  <2>2. [intask EXCEPT !.pc = "read"] \in TaskOf(InTaskPcs)
    BY TaskUpdate DEF InTypes, InTaskPcs
  <2>3. InTypes'
    BY <1>4, <2>2 DEF ClientStarted, InTypes
  <2>4. QED
    BY <2>1, <2>3
<1>5. CASE Disconnect
  <2>1. chan' \in [Outs -> Seq(Nat)]
    BY <1>5 DEF Disconnect
  <2>2. OutTypes'
    BY <1>5, <2>1 DEF Disconnect, OutTypes
  <2>3. [sin EXCEPT !.pc = "error"] \in TaskOf(SinPcs)
    BY TaskUpdate DEF InTypes, SinPcs
  <2>4. sin' \in TaskOf(SinPcs)
    BY <1>5, <2>3 DEF Disconnect, InTypes
  <2>5. InTypes'
    BY <1>5, <2>4 DEF Disconnect, InTypes
  <2>6. WaitTypes'
    BY <1>5 DEF Disconnect, WaitTypes
  <2>7. QED
    BY <2>2, <2>5, <2>6
<1>6. CASE UserTypes \/ UserEnds \/ InTaskStep \/ InFails \/ RpcStep \/ SinStep
  <2>1. OutTypes' /\ WaitTypes'
    BY <1>6 DEF UserTypes, UserEnds, InTaskStep, InReads, InBreaks, InFails, InSends,
         InAwaits,
         RpcStep, RpcOpens, RpcForwards, RpcInputEnds, RpcReturns,
         SinStep, SinGets, SinReads, SinAtEnd, SinWrites, SinVars,
         outvars, OutTypes, WaitTypes
  <2>2. InTypes'
    <3> USE DEF InTypes
    <3>1. \A q \in InTaskPcs : [intask EXCEPT !.pc = q] \in TaskOf(InTaskPcs)
      BY TaskUpdate
    <3>2. \A q \in SinPcs : [sin EXCEPT !.pc = q] \in TaskOf(SinPcs)
      BY TaskUpdate
    <3>3. intask.buf \in Nat /\ sin.buf \in Nat
      BY DEF TaskOf
    <3>4. CASE UserTypes
      <4>1. typed' \in 0..MaxIn /\ typed' \in Nat
        BY <3>4, BoundAssumption DEF UserTypes
      <4>2. tin' \in Seq(Nat)
        BY <3>4, <4>1 DEF UserTypes
      <4>3. QED
        BY <3>4, <4>1, <4>2 DEF UserTypes
    <3>5. CASE UserEnds
      BY <3>5 DEF UserEnds
    <3>6. CASE InReads
      <4>1. Head(tin) \in Nat /\ Tail(tin) \in Seq(Nat)
        BY <3>6, HeadTail DEF InReads
      <4>2. intask' \in TaskOf(InTaskPcs)
        BY <3>6, <4>1 DEF InReads, TaskOf, InTaskPcs
      <4>3. QED
        BY <3>6, <4>1, <4>2 DEF InReads
    <3>7. CASE InBreaks \/ InFails \/ InAwaits
      <4>1. intask' \in TaskOf(InTaskPcs)
        BY <3>7, <3>1 DEF InBreaks, InFails, InAwaits, InTaskPcs
      <4>2. QED
        BY <3>7, <4>1 DEF InBreaks, InFails, InAwaits
    <3>8. CASE InSends
      <4>1. intask' \in TaskOf(InTaskPcs)
        BY <3>8, <3>1 DEF InSends, InTaskPcs
      <4>2. <<intask.buf>> \in Seq(Nat)
        BY <3>3
      <4>3. QED
        BY <3>8, <4>1, <4>2 DEF InSends
    <3>9. CASE RpcOpens
      <4>1. sin' \in TaskOf(SinPcs)
        BY <3>9, <3>2 DEF RpcOpens, SinPcs
      <4>2. QED
        BY <3>9, <4>1 DEF RpcOpens
    <3>10. CASE RpcForwards \/ RpcInputEnds \/ RpcReturns
      <4>1. inet \o ichan \in Seq(Nat) /\ << >> \in Seq(Nat)
        OBVIOUS
      <4>2. inet' \in Seq(Nat) /\ ichan' \in Seq(Nat)
        BY <3>10, <4>1 DEF RpcForwards, RpcInputEnds, RpcReturns
      <4>3. QED
        BY <3>10, <4>2 DEF RpcForwards, RpcInputEnds, RpcReturns
    <3>11. CASE SinGets \/ SinAtEnd \/ SinWrites
      <4>1. sin' \in TaskOf(SinPcs)
        BY <3>11, <3>2 DEF SinGets, SinAtEnd, SinWrites, SinPcs
      <4>2. QED
        BY <3>11, <4>1 DEF SinGets, SinAtEnd, SinWrites, SinVars
    <3>12. CASE SinReads
      <4>1. Head(inet) \in Nat /\ Tail(inet) \in Seq(Nat)
        BY <3>12, HeadTail DEF SinReads
      <4>2. sin' \in TaskOf(SinPcs)
        BY <3>12, <4>1 DEF SinReads, TaskOf, SinPcs
      <4>3. QED
        BY <3>12, <4>1, <4>2 DEF SinReads, SinVars
    <3>13. QED
      BY <1>6, <3>4, <3>5, <3>6, <3>7, <3>8, <3>9, <3>10, <3>11, <3>12
         DEF InTaskStep, RpcStep, SinStep
  <2>3. QED
    BY <2>1, <2>2
<1>7. QED
  BY <1>1, <1>2, <1>3, <1>4, <1>5, <1>6 DEF WaitStep

-----------------------------------------------------------------------------
(* The output.                                                             *)

OutputInv(o) == OutputRuns(o) /\ OutputEnds(o)

(* What does not touch an output keeps its invariant. *)
LEMMA OutputFrame ==
    ASSUME NEW p \in Outs, OutputInv(p), conn' = conn,
           written'[p] = written[p], open'[p] = open[p], pipe'[p] = pipe[p],
           copier'[p] = copier[p], chan'[p] = chan[p], net'[p] = net[p],
           ended'[p] = ended[p], sink'[p] = sink[p], out'[p] = out[p]
    PROVE  OutputInv(p)'
BY DEF OutputInv, OutputRuns, OutputAt, OutputEnds, Held

(* A step of output o leaves every other output alone. *)
LEMMA OutputOther ==
    ASSUME TypeInv, NEW o \in Outs, NEW p \in Outs, p # o, OutputInv(p),
           ChildWrites(o) \/ OutCloses(o) \/ ClientOpens(o) \/ OutStep(o)
    PROVE  OutputInv(p)'
<1>1. /\ conn' = conn
      /\ written'[p] = written[p] /\ open'[p] = open[p] /\ pipe'[p] = pipe[p]
      /\ copier'[p] = copier[p] /\ chan'[p] = chan[p] /\ net'[p] = net[p]
      /\ ended'[p] = ended[p] /\ sink'[p] = sink[p] /\ out'[p] = out[p]
  BY DEF TypeInv, OutTypes, ChildWrites, OutCloses, ClientOpens, OutStep, CopierReads,
         CopierAtEnd, CopierSends, CopierFails, Transmit, TransmitEnd, SinkWrites,
         SinkFails, SinkEnds
<1>2. QED
  BY <1>1, OutputFrame

(* Each step of output o keeps its queues consecutive, and ends a task     *)
(* only when what comes before it has ended and is empty.                  *)
LEMMA OutputStep ==
    ASSUME TypeInv, NEW o \in Outs, OutputInv(o),
           ChildWrites(o) \/ OutCloses(o) \/ ClientOpens(o) \/ OutStep(o)
    PROVE  OutputInv(o)'
<1> PICK a \in Nat, b \in Nat, c \in Nat : OutputAt(o, a, b, c)
  BY DEF OutputInv, OutputRuns
<1> SUFFICES /\ \E x, y, z \in Nat : OutputAt(o, x, y, z)'
             /\ OutputEnds(o)'
  BY DEF OutputInv, OutputRuns
<1> OutputEnds(o) /\ written[o] \in Nat
  BY BoundAssumption DEF OutputInv, TypeInv, OutTypes
<1> USE DEF OutputEnds, OutputAt, Held
<1>1. CASE ChildWrites(o)
  <2>1. /\ written'[o] = written[o] + 1 /\ open[o]
        /\ pipe'[o] = Append(pipe[o], written[o] + 1)
        /\ UNCHANGED <<conn, open, copier, chan, net, ended, sink, out>>
    BY <1>1 DEF ChildWrites, TypeInv, OutTypes
  <2>2. OutputAt(o, a, b, c)'
    BY <2>1, RunAppend
  <2>3. OutputEnds(o)'
    BY <2>1
  <2>4. QED
    BY <2>2, <2>3
<1>2. CASE OutCloses(o)
  <2>1. /\ open'[o] = FALSE
        /\ UNCHANGED <<conn, written, pipe, copier, chan, net, ended, sink, out>>
    BY <1>2 DEF OutCloses, TypeInv, OutTypes
  <2>2. OutputAt(o, a, b, c)' /\ OutputEnds(o)'
    BY <2>1
  <2>3. QED
    BY <2>2
<1>3. CASE ClientOpens(o)
  <2>1. /\ copier[o].pc = "unopened" /\ copier'[o].pc = "read" /\ sink'[o] = "run"
        /\ UNCHANGED <<conn, written, open, pipe, chan, net, ended, out>>
    BY <1>3 DEF ClientOpens, TypeInv, OutTypes, TaskOf
  <2>2. OutputAt(o, a, b, c)' /\ OutputEnds(o)'
    BY <2>1
  <2>3. QED
    BY <2>2
<1>4. CASE CopierReads(o)
  <2>1. /\ copier[o].pc = "read" /\ pipe[o] # << >>
        /\ copier'[o].pc = "send" /\ copier'[o].buf = Head(pipe[o])
        /\ pipe'[o] = Tail(pipe[o])
        /\ UNCHANGED <<conn, written, open, chan, net, ended, sink, out>>
    BY <1>4 DEF CopierReads, TypeInv, OutTypes, TaskOf
  <2>2. Held(o) => Head(pipe[o]) = c + 1 /\ Run(Tail(pipe[o]), c + 1, written[o])
    <3>1. Held(o) => Run(pipe[o], c, written[o])
      BY <2>1
    <3>2. QED
      BY <2>1, <3>1, RunTail
  <2>3. OutputAt(o, a, b, c)'
    BY <2>1, <2>2
  <2>4. OutputEnds(o)'
    BY <2>1
  <2>5. QED
    BY <2>3, <2>4
<1>5. CASE CopierAtEnd(o) \/ CopierFails(o)
  <2>1. /\ copier'[o].pc = "done"
        /\ Held(o) => copier[o].pc = "read" /\ pipe[o] = << >> /\ ~open[o]
                      /\ chan'[o] = chan[o]
        /\ UNCHANGED <<conn, written, open, pipe, net, ended, sink, out>>
    BY <1>5 DEF CopierAtEnd, CopierFails, TypeInv, OutTypes, TaskOf
  <2>2. OutputAt(o, a, b, c)' /\ OutputEnds(o)'
    BY <2>1
  <2>3. QED
    BY <2>2
<1>6. CASE CopierSends(o)
  <2>1. /\ conn /\ copier[o].pc = "send"
        /\ copier'[o].pc = "read" /\ chan'[o] = Append(chan[o], copier[o].buf)
        /\ UNCHANGED <<conn, written, open, pipe, net, ended, sink, out>>
    BY <1>6 DEF CopierSends, TypeInv, OutTypes, TaskOf
  <2>2. Held(o) => chan'[o] = Append(chan[o], c + 1) /\ Run(chan'[o], b, c + 1)
    <3>1. Held(o) => copier[o].buf = c + 1 /\ Run(chan[o], b, c)
      BY <2>1
    <3>2. QED
      BY <2>1, <3>1, RunAppend
  <2>3. OutputAt(o, a, b, c + 1)' /\ c + 1 \in Nat
    BY <2>1, <2>2
  <2>4. OutputEnds(o)'
    BY <2>1
  <2>5. QED
    BY <2>3, <2>4
<1>7. CASE Transmit(o)
  <2>1. /\ Held(o) /\ chan[o] # << >>
        /\ net'[o] = Append(net[o], Head(chan[o])) /\ chan'[o] = Tail(chan[o])
        /\ UNCHANGED <<conn, written, open, pipe, copier, ended, sink, out>>
    BY <1>7 DEF Transmit, TypeInv, OutTypes
  <2>2. /\ Head(chan[o]) = b + 1 /\ Run(chan'[o], b + 1, c) /\ b + 1 <= c
    <3>1. Run(chan[o], b, c)
      BY <2>1
    <3>2. Head(chan[o]) = b + 1 /\ Run(Tail(chan[o]), b + 1, c) /\ b + 1 <= c
      BY <2>1, <3>1, RunTail
    <3>3. QED
      BY <2>1, <3>2
  <2>3. Run(net'[o], a, b + 1)
    BY <2>1, <2>2, RunAppend
  <2>4. c <= written[o]
    <3>1. Run(pipe[o], c, written[o]) \/ Run(pipe[o], c + 1, written[o])
      BY <2>1
    <3>2. c <= written[o] \/ c + 1 <= written[o]
      BY <3>1, RunBounds
    <3>3. QED
      BY <3>2
  <2>5. OutputAt(o, a, b + 1, c)' /\ b + 1 \in Nat
    BY <2>1, <2>2, <2>3, <2>4
  <2>6. OutputEnds(o)'
    BY <2>1
  <2>7. QED
    BY <2>5, <2>6
<1>8. CASE TransmitEnd(o)
  <2>1. /\ ended'[o] = TRUE /\ copier[o].pc = "done" /\ chan[o] = << >>
        /\ UNCHANGED <<conn, written, open, pipe, copier, chan, net, sink, out>>
    BY <1>8 DEF TransmitEnd, TypeInv, OutTypes
  <2>2. OutputAt(o, a, b, c)' /\ OutputEnds(o)'
    BY <2>1
  <2>3. QED
    BY <2>2
<1>9. CASE SinkWrites(o)
  <2>1. /\ sink[o] = "run" /\ net[o] # << >>
        /\ out'[o] = Append(out[o], Head(net[o])) /\ net'[o] = Tail(net[o])
        /\ UNCHANGED <<conn, written, open, pipe, copier, chan, ended, sink>>
    BY <1>9 DEF SinkWrites, TypeInv, OutTypes
  <2>2. Head(net[o]) = a + 1 /\ Run(net'[o], a + 1, b)
    BY <2>1, RunTail
  <2>3. Run(out'[o], 0, a + 1)
    BY <2>1, <2>2, RunAppend
  <2>4. OutputAt(o, a + 1, b, c)' /\ a + 1 \in Nat
    BY <2>1, <2>2, <2>3
  <2>5. OutputEnds(o)'
    BY <2>1
  <2>6. QED
    BY <2>4, <2>5
<1>10. CASE SinkEnds(o)
  <2>1. /\ sink'[o] = "done" /\ (conn => ended[o] /\ net[o] = << >>)
        /\ sink[o] = "run"
        /\ UNCHANGED <<conn, written, open, pipe, copier, chan, net, ended, out>>
    BY <1>10 DEF SinkEnds, TypeInv, OutTypes
  <2>2. OutputAt(o, a, b, c)' /\ OutputEnds(o)'
    BY <2>1
  <2>3. QED
    BY <2>2
<1>11. CASE SinkFails(o)
  <2>1. /\ sink[o] = "run" /\ sink'[o] = "failed" /\ net'[o] = << >>
        /\ UNCHANGED <<conn, written, open, pipe, copier, chan, ended, out>>
    BY <1>11 DEF SinkFails, TypeInv, OutTypes
  <2>2. Run(net'[o], a, a)
    BY <2>1, RunEmpty
  <2>3. a <= written[o]
    <3>1. a <= b /\ b <= written[o]
      BY RunBounds
    <3>2. QED
      BY <3>1
  <2>4. OutputAt(o, a, a, c)'
    BY <2>1, <2>2, <2>3
  <2>5. OutputEnds(o)'
    BY <2>1
  <2>6. QED
    BY <2>4, <2>5
<1>12. QED
  BY <1>1, <1>2, <1>3, <1>4, <1>5, <1>6, <1>7, <1>8, <1>9, <1>10, <1>11 DEF OutStep

OtherSteps ==
    \/ ChildReads \/ ChildExits \/ Disconnect \/ UserTypes \/ UserEnds
    \/ InTaskStep \/ InFails \/ RpcStep \/ SinStep \/ WaitStep \/ UNCHANGED vars

(* No other step touches an output, except that a lost connection drops    *)
(* the channels, behind the units in flight.                               *)
LEMMA OutputOthers ==
    ASSUME NEW p \in Outs, OutputInv(p), OtherSteps
    PROVE  OutputInv(p)'
<1>1. CASE Disconnect
  <2>1. ~conn' /\ UNCHANGED <<written, net, out, copier, sink>>
    BY <1>1 DEF Disconnect
  <2>2. QED
    BY <2>1 DEF OutputInv, OutputRuns, OutputAt, OutputEnds, Held
<1>2. CASE ~Disconnect
  <2>1. UNCHANGED <<outvars, conn>>
    BY <1>2 DEF OtherSteps, ChildReads, ChildExits, UserTypes, UserEnds, InTaskStep,
       InReads, InBreaks, InFails, InSends, InAwaits, RpcStep, RpcOpens, RpcForwards,
       RpcInputEnds, RpcReturns, SinStep, SinGets, SinReads, SinAtEnd, SinWrites,
       SinVars, WaitStep, ServerWaitChild, ServerWaitAnswers, ClientStarted,
       ClientWaits, ClientStops, ClientReturns, vars
  <2>2. QED
    BY <2>1, OutputFrame DEF outvars
<1>3. QED
  BY <1>1, <1>2

-----------------------------------------------------------------------------
(* The waits.                                                              *)

(* A task that has ended does not run again, so the waits may rely on what *)
(* they have joined.                                                       *)
LEMMA WaitsStep ==
    ASSUME TypeInv, WaitsJoin, [Next]_vars
    PROVE  WaitsJoin'
<1> USE DEF WaitsJoin
<1>1. ASSUME NEW o \in Outs,
             ChildWrites(o) \/ OutCloses(o) \/ ClientOpens(o) \/ OutStep(o)
      PROVE  WaitsJoin'
  <2>1. UNCHANGED <<client, swait>>
    BY <1>1 DEF ChildWrites, OutCloses, ClientOpens, OutStep, CopierReads, CopierAtEnd,
           CopierSends, CopierFails, Transmit, TransmitEnd, SinkWrites, SinkFails,
           SinkEnds
  <2>2. ASSUME NEW p \in Outs, copier[p].pc = "done" PROVE copier'[p].pc = "done"
    BY <1>1, <2>2 DEF TypeInv, OutTypes, TaskOf, ChildWrites, OutCloses, ClientOpens,
       OutStep, CopierReads, CopierAtEnd, CopierSends, CopierFails, Transmit,
       TransmitEnd, SinkWrites, SinkFails, SinkEnds
  <2>3. ASSUME NEW p \in Outs, sink[p] \in {"done", "failed"}, client.pc = "returned"
        PROVE  sink'[p] \in {"done", "failed"}
    BY <1>1, <2>3 DEF TypeInv, OutTypes, ChildWrites, OutCloses, ClientOpens, OutStep,
       CopierReads, CopierAtEnd, CopierSends, CopierFails, Transmit, TransmitEnd,
       SinkWrites, SinkFails, SinkEnds
  <2>4. QED
    BY <2>1, <2>2, <2>3
<1>2. CASE ChildReads \/ ChildExits \/ UserTypes \/ UserEnds \/ InTaskStep
           \/ InFails \/ RpcStep \/ SinStep \/ UNCHANGED vars
  <2>1. UNCHANGED <<client, swait, copier, sink>>
    BY <1>2 DEF ChildReads, ChildExits, UserTypes, UserEnds, InTaskStep,
       InReads, InBreaks, InFails, InSends, InAwaits, RpcStep, RpcOpens, RpcForwards,
       RpcInputEnds, RpcReturns, SinStep, SinGets, SinReads, SinAtEnd, SinWrites,
       SinVars, vars, outvars
  <2>2. QED
    BY <2>1
<1>3. CASE Disconnect
  BY <1>3 DEF Disconnect
<1>4. CASE ServerWaitChild \/ ServerWaitAnswers
  BY <1>4 DEF ServerWaitChild, ServerWaitAnswers, outvars
<1>5. CASE ClientStarted \/ ClientWaits \/ ClientReturns
  <2>1. client'.res = client.res /\ UNCHANGED <<copier, sink>>
    BY <1>5 DEF ClientStarted, ClientWaits, ClientReturns, outvars, TypeInv, WaitTypes
  <2>2. CASE ClientStarted
    BY <2>1, <2>2 DEF ClientStarted, TypeInv, WaitTypes
  <2>3. CASE ClientWaits
    BY <2>1, <2>3 DEF ClientWaits, TypeInv, WaitTypes
  <2>4. CASE ClientReturns
    BY <2>1, <2>4 DEF ClientReturns, TypeInv, WaitTypes
  <2>5. QED
    BY <1>5, <2>2, <2>3, <2>4
<1>6. CASE ClientStops
  BY <1>6 DEF ClientStops, outvars
<1>7. QED
  BY <1>1, <1>2, <1>3, <1>4, <1>5, <1>6 DEF Next, WaitStep

-----------------------------------------------------------------------------
(* The bounds of the queues.                                               *)

(* Append and Tail change the length of a queue by one. *)
LEMMA LenStep ==
    ASSUME NEW s \in Seq(Nat)
    PROVE  /\ Len(s) \in Nat
           /\ \A v \in Nat : Len(Append(s, v)) = Len(s) + 1
           /\ s # << >> => Len(Tail(s)) = Len(s) - 1
OBVIOUS

(* A queue stays within its capacity if what is put into it finds room. *)
LEMMA Room ==
    ASSUME NEW s \in Seq(Nat), NEW cap \in Nat, Len(s) <= cap, NEW r,
           \/ r = s
           \/ s # << >> /\ r = Tail(s)
           \/ Len(s) < cap /\ \E v \in Nat : r = Append(s, v)
    PROVE  Len(r) <= cap
<1>1. CASE r = s
  BY <1>1
<1>2. CASE s # << >> /\ r = Tail(s)
  BY <1>2, LenStep
<1>3. CASE Len(s) < cap /\ \E v \in Nat : r = Append(s, v)
  BY <1>3, LenStep
<1>4. QED
  BY <1>1, <1>2, <1>3

OutBounds(o) ==
    Len(pipe[o]) <= PipeCap /\ Len(chan[o]) <= ChanCap /\ Len(net[o]) <= NetCap

InBounds ==
    /\ Len(spipe) <= PipeCap /\ Len(ichan) <= 1 /\ Len(inet) <= NetCap
    /\ Len(tin) <= typed

(* A task puts a unit into a queue of an output only when there is room. *)
LEMMA BoundsOutput ==
    ASSUME TypeInv, NEW o \in Outs, NEW p \in Outs, OutBounds(p),
           ChildWrites(o) \/ OutCloses(o) \/ ClientOpens(o) \/ OutStep(o)
    PROVE  OutBounds(p)'
<1> USE DEF OutBounds
<1> /\ pipe[p] \in Seq(Nat) /\ chan[p] \in Seq(Nat) /\ net[p] \in Seq(Nat)
    /\ pipe \in [Outs -> Seq(Nat)] /\ chan \in [Outs -> Seq(Nat)]
    /\ net \in [Outs -> Seq(Nat)]
  BY DEF TypeInv, OutTypes
<1> USE BoundAssumption
<1>1. CASE ChildWrites(o)
  <2>1. \/ pipe'[p] = pipe[p]
        \/ Len(pipe[p]) < PipeCap /\ pipe'[p] = Append(pipe[p], written'[o])
    BY <1>1 DEF ChildWrites
  <2>2. UNCHANGED <<chan, net>>
    BY <1>1 DEF ChildWrites
  <2>3. written'[o] \in Nat
    <3>1. TypeInv'
      BY <1>1, TypeOutput
    <3>2. QED
      BY <3>1 DEF TypeInv, OutTypes
  <2>4. Len(pipe'[p]) <= PipeCap
    BY <2>1, <2>3, Room
  <2>5. QED
    BY <2>2, <2>4
<1>2. CASE OutCloses(o) \/ ClientOpens(o) \/ CopierAtEnd(o) \/ CopierFails(o)
           \/ TransmitEnd(o) \/ SinkFails(o) \/ SinkEnds(o)
  <2>1. /\ pipe'[p] = pipe[p]
        /\ chan'[p] = chan[p] \/ chan'[p] = << >>
        /\ net'[p] = net[p] \/ net'[p] = << >>
    BY <1>2 DEF OutCloses, ClientOpens, CopierAtEnd, CopierFails, TransmitEnd, SinkFails,
                SinkEnds
  <2>2. Len(<< >>) = 0
    OBVIOUS
  <2>3. 0 <= ChanCap /\ 0 <= NetCap
    OBVIOUS
  <2>4. Len(chan'[p]) <= ChanCap /\ Len(net'[p]) <= NetCap
    <3>1. Len(chan'[p]) <= ChanCap
      <4>1. CASE chan'[p] = chan[p]
        BY <4>1
      <4>2. CASE chan'[p] = << >>
        BY <4>2, <2>2, <2>3
      <4>3. QED
        BY <2>1, <4>1, <4>2
    <3>2. Len(net'[p]) <= NetCap
      <4>1. CASE net'[p] = net[p]
        BY <4>1
      <4>2. CASE net'[p] = << >>
        BY <4>2, <2>2, <2>3
      <4>3. QED
        BY <2>1, <4>1, <4>2
    <3>3. QED
      BY <3>1, <3>2
  <2>5. QED
    BY <2>1, <2>4
<1>3. CASE CopierReads(o)
  <2>1. \/ pipe'[p] = pipe[p]
        \/ pipe[p] # << >> /\ pipe'[p] = Tail(pipe[p])
    BY <1>3 DEF CopierReads
  <2>2. UNCHANGED <<chan, net>>
    BY <1>3 DEF CopierReads
  <2>3. QED
    BY <2>1, <2>2, Room
<1>4. CASE CopierSends(o)
  <2>1. \/ chan'[p] = chan[p]
        \/ Len(chan[p]) < ChanCap /\ chan'[p] = Append(chan[p], copier[o].buf)
    BY <1>4 DEF CopierSends
  <2>2. UNCHANGED <<pipe, net>> /\ copier[o].buf \in Nat
    BY <1>4 DEF CopierSends, TypeInv, OutTypes, TaskOf
  <2>3. QED
    BY <2>1, <2>2, LenStep
<1>5. CASE Transmit(o)
  <2>1. \/ chan'[p] = chan[p] /\ net'[p] = net[p]
        \/ /\ chan[p] # << >> /\ chan'[p] = Tail(chan[p])
           /\ Len(net[p]) < NetCap /\ net'[p] = Append(net[p], Head(chan[p]))
    BY <1>5 DEF Transmit
  <2>2. UNCHANGED pipe
    BY <1>5 DEF Transmit
  <2>3. Len(chan'[p]) <= ChanCap
    BY <2>1, Room
  <2>4. Len(net'[p]) <= NetCap
    <3>1. chan[p] # << >> => Head(chan[p]) \in Nat
      BY HeadTail
    <3>2. QED
      BY <2>1, <3>1, Room
  <2>5. QED
    BY <2>2, <2>3, <2>4
<1>6. CASE SinkWrites(o)
  <2>1. \/ net'[p] = net[p]
        \/ net[p] # << >> /\ net'[p] = Tail(net[p])
    BY <1>6 DEF SinkWrites
  <2>2. UNCHANGED <<chan, pipe>>
    BY <1>6 DEF SinkWrites
  <2>3. QED
    BY <2>1, <2>2, Room
<1>7. QED
  BY <1>1, <1>2, <1>3, <1>4, <1>5, <1>6 DEF OutStep

(* Nor does any other step fill a queue of an output. *)
LEMMA BoundsOthers ==
    ASSUME NEW p \in Outs, OutBounds(p), OtherSteps
    PROVE  OutBounds(p)'
<1>1. CASE Disconnect
  <2>1. Len(chan'[p]) = 0
    BY <1>1 DEF Disconnect
  <2>2. QED
    BY <1>1, <2>1, BoundAssumption DEF Disconnect, OutBounds
<1>2. CASE ~Disconnect
  <2>1. UNCHANGED outvars
    BY <1>2 DEF OtherSteps, ChildReads, ChildExits, UserTypes, UserEnds, InTaskStep,
       InReads, InBreaks, InFails, InSends, InAwaits, RpcStep, RpcOpens, RpcForwards,
       RpcInputEnds, RpcReturns, SinStep, SinGets, SinReads, SinAtEnd, SinWrites,
       SinVars, WaitStep, ServerWaitChild, ServerWaitAnswers, ClientStarted,
       ClientWaits, ClientStops, ClientReturns, vars
  <2>2. QED
    BY <2>1 DEF outvars, OutBounds
<1>3. QED
  BY <1>1, <1>2

(* The input: each task on the way waits for room as well. *)
LEMMA BoundsInput ==
    ASSUME TypeInv, spipe \in Seq(Nat), InBounds, [Next]_vars
    PROVE  InBounds'
<1> USE DEF InBounds
<1> /\ tin \in Seq(Nat) /\ ichan \in Seq(Nat) /\ inet \in Seq(Nat)
    /\ intask.buf \in Nat /\ sin.buf \in Nat
  BY DEF TypeInv, InTypes, TaskOf
<1> typed \in Nat
  BY BoundAssumption DEF TypeInv, InTypes
<1>1. ASSUME NEW o \in Outs,
             ChildWrites(o) \/ OutCloses(o) \/ ClientOpens(o) \/ OutStep(o)
      PROVE  InBounds'
  <2>1. UNCHANGED invars
    BY <1>1 DEF ChildWrites, OutCloses, ClientOpens, OutStep, CopierReads, CopierAtEnd,
           CopierSends, CopierFails, Transmit, TransmitEnd, SinkWrites, SinkFails,
           SinkEnds
  <2>2. QED
    BY <2>1 DEF invars
<1>2. CASE ChildExits \/ Disconnect \/ UserEnds \/ WaitStep \/ UNCHANGED vars
  <2>1. UNCHANGED <<spipe, ichan, inet, tin, typed>>
    BY <1>2 DEF ChildExits, Disconnect, UserEnds, WaitStep, ServerWaitChild,
       ServerWaitAnswers, ClientStarted, ClientWaits, ClientStops, ClientReturns,
       vars, invars
  <2>2. QED
    BY <2>1
<1>3. CASE ChildReads
  <2>1. Len(Tail(spipe)) = Len(spipe) - 1 /\ Len(spipe) \in Nat
    BY <1>3, LenStep DEF ChildReads
  <2>2. Len(spipe') <= PipeCap
    BY <1>3, <2>1, BoundAssumption DEF ChildReads
  <2>3. QED
    BY <1>3, <2>2 DEF ChildReads
<1>4. CASE UserTypes
  <2>1. Len(tin') = Len(tin) + 1 /\ typed' = typed + 1
    BY <1>4, LenStep DEF UserTypes
  <2>2. Len(tin') <= typed'
    BY <2>1, LenStep
  <2>3. QED
    BY <1>4, <2>2 DEF UserTypes
<1>5. CASE InReads
  <2>1. Len(Tail(tin)) = Len(tin) - 1 /\ Len(tin) \in Nat
    BY <1>5, LenStep DEF InReads
  <2>2. Len(tin') <= typed
    BY <1>5, <2>1 DEF InReads
  <2>3. QED
    BY <1>5, <2>2 DEF InReads
<1>6. CASE InBreaks \/ InFails \/ InAwaits \/ RpcInputEnds \/ RpcReturns \/ SinGets \/ SinAtEnd
  <2>1. UNCHANGED <<spipe, ichan, inet, tin, typed>>
    BY <1>6 DEF InBreaks, InFails, InAwaits, RpcInputEnds, RpcReturns, SinGets, SinAtEnd, SinVars
  <2>2. QED
    BY <2>1
<1>7. CASE InSends
  <2>1. ichan' = <<intask.buf>> \/ ichan' = ichan
    BY <1>7 DEF InSends
  <2>2. Len(ichan') <= 1
    <3>1. CASE ichan' = <<intask.buf>>
      BY <3>1
    <3>2. CASE ichan' = ichan
      BY <3>2
    <3>3. QED
      BY <2>1, <3>1, <3>2
  <2>3. QED
    BY <1>7, <2>2 DEF InSends
<1>8. CASE RpcOpens
  <2>1. Len(<< >>) = 0 /\ Len(ichan) <= NetCap
    BY BoundAssumption
  <2>2. Len(ichan') <= 1 /\ Len(inet') <= NetCap
    BY <1>8, <2>1 DEF RpcOpens
  <2>3. QED
    BY <1>8, <2>2 DEF RpcOpens
<1>9. CASE RpcForwards
  <2>1. Len(<< >>) = 0 /\ Len(inet \o ichan) = Len(inet) + Len(ichan)
    OBVIOUS
  <2>2. Len(ichan') <= 1 /\ Len(inet') <= NetCap
    BY <1>9, <2>1, BoundAssumption DEF RpcForwards
  <2>3. QED
    BY <1>9, <2>2 DEF RpcForwards
<1>10. CASE SinReads
  <2>1. Len(Tail(inet)) = Len(inet) - 1 /\ Len(inet) \in Nat
    BY <1>10, LenStep DEF SinReads
  <2>2. Len(inet') <= NetCap
    BY <1>10, <2>1, BoundAssumption DEF SinReads
  <2>3. QED
    BY <1>10, <2>2 DEF SinReads, SinVars
<1>11. CASE SinWrites
  <2>1. Len(Append(spipe, sin.buf)) = Len(spipe) + 1 /\ Len(spipe) \in Nat
    BY LenStep
  <2>2. Len(spipe') <= PipeCap
    BY <1>11, <2>1, BoundAssumption DEF SinWrites
  <2>3. QED
    BY <1>11, <2>2 DEF SinWrites, SinVars
<1>12. QED
  BY <1>1, <1>2, <1>3, <1>4, <1>5, <1>6, <1>7, <1>8, <1>9, <1>10, <1>11
     DEF Next, InTaskStep, RpcStep, SinStep

-----------------------------------------------------------------------------
(* The input.                                                              *)

(* Server::stdin runs only while the connection holds and the task that    *)
(* called it waits for the answer.                                         *)
LEMMA StdinCallStep ==
    ASSUME TypeInv, StdinCall, [Next]_vars
    PROVE  StdinCall'
<1> USE DEF StdinCall, Serving
<1> sin \in TaskOf(SinPcs)
  BY DEF TypeInv, InTypes
<1>1. ASSUME NEW o \in Outs,
             ChildWrites(o) \/ OutCloses(o) \/ ClientOpens(o) \/ OutStep(o)
      PROVE  StdinCall'
  <2>1. UNCHANGED <<invars, conn, client>>
    BY <1>1 DEF ChildWrites, OutCloses, ClientOpens, OutStep, CopierReads, CopierAtEnd,
           CopierSends, CopierFails, Transmit, TransmitEnd, SinkWrites, SinkFails,
           SinkEnds
  <2>2. QED
    BY <2>1 DEF invars
<1>2. CASE ChildReads \/ ChildExits \/ UserTypes \/ UserEnds \/ WaitStep \/ InTaskStep
           \/ InFails
           \/ UNCHANGED vars
  <2>1. UNCHANGED <<sin, rpcin, inet, conn>>
    BY <1>2 DEF ChildReads, ChildExits, UserTypes, UserEnds, WaitStep, ServerWaitChild,
       ServerWaitAnswers, ClientStarted, ClientWaits, ClientStops, ClientReturns,
       InTaskStep, InReads, InBreaks, InFails, InSends, InAwaits, vars, invars
  <2>2. client'.pc = "open" => client.pc = "open" /\ intask' = intask
    BY <1>2 DEF ChildReads, ChildExits, UserTypes, UserEnds, WaitStep, ServerWaitChild,
       ServerWaitAnswers, ClientStarted, ClientWaits, ClientStops, ClientReturns,
       InTaskStep, InReads, InBreaks, InFails, InSends, InAwaits, vars, invars,
       TypeInv, WaitTypes
  <2>3. QED
    BY <2>1, <2>2
<1>3. CASE Disconnect
  BY <1>3 DEF Disconnect, TaskOf, SinPcs
<1>4. CASE RpcStep
  BY <1>4 DEF RpcStep, RpcOpens, RpcForwards, RpcInputEnds, RpcReturns, TaskOf
<1>5. CASE SinStep
  BY <1>5 DEF SinStep, SinGets, SinReads, SinAtEnd, SinWrites, SinVars, TaskOf
<1>6. QED
  BY <1>1, <1>2, <1>3, <1>4, <1>5 DEF Next

(* Each step keeps the queues of the input consecutive. *)
LEMMA InputStep ==
    ASSUME TypeInv, Bounds, StdinCall, InputRuns, [Next]_vars
    PROVE  InputRuns'
<1> PICK a \in Nat, b \in Nat, c \in Nat, d \in Nat : InputAt(a, b, c, d)
  BY DEF InputRuns
<1> SUFFICES \E w, x, y, z \in Nat : InputAt(w, x, y, z)'
  BY DEF InputRuns
<1> /\ sin \in TaskOf(SinPcs) /\ intask \in TaskOf(InTaskPcs) /\ typed \in Nat
    /\ rpcin \in {"first", "stream", "closing", "done"}
  BY BoundAssumption DEF TypeInv, InTypes
<1> USE DEF InputAt, Serving, Feeding
<1>1. ASSUME NEW o \in Outs,
             ChildWrites(o) \/ OutCloses(o) \/ ClientOpens(o) \/ OutStep(o)
      PROVE  InputAt(a, b, c, d)'
  <2>1. UNCHANGED invars
    BY <1>1 DEF ChildWrites, OutCloses, ClientOpens, OutStep, CopierReads, CopierAtEnd,
           CopierSends, CopierFails, Transmit, TransmitEnd, SinkWrites, SinkFails,
           SinkEnds
  <2>2. QED
    BY <2>1 DEF invars
<1>2. CASE ChildExits \/ UserEnds \/ UNCHANGED vars \/ ServerWaitChild
           \/ ServerWaitAnswers \/ ClientWaits \/ ClientStops \/ ClientReturns
  <2>1. UNCHANGED <<typed, tin, intask, ichan, rpcin, inet, sin, spipe, consumed>>
    BY <1>2 DEF ChildExits, UserEnds, ServerWaitChild, ServerWaitAnswers, ClientWaits,
                ClientStops, ClientReturns, vars, invars
  <2>2. InputAt(a, b, c, d)'
    BY <2>1
  <2>3. QED
    BY <2>2
<1>3. CASE ClientStarted
  <2>1. /\ UNCHANGED <<typed, tin, ichan, rpcin, inet, sin, spipe, consumed>>
        /\ intask'.pc = "read" /\ intask.pc # "send"
    BY <1>3 DEF ClientStarted, TaskOf, StdinCall
  <2>2. InputAt(a, b, c, d)'
    BY <2>1
  <2>3. QED
    BY <2>2
<1>4. CASE ChildReads
  <2>1. /\ spipe # << >> /\ spipe' = Tail(spipe)
        /\ consumed' = Append(consumed, Head(spipe))
        /\ UNCHANGED <<typed, tin, intask, ichan, rpcin, inet, sin>>
    BY <1>4 DEF ChildReads
  <2>2. Head(spipe) = a + 1 /\ Run(spipe', a + 1, b)
    BY <2>1, RunTail
  <2>3. Run(consumed', 0, a + 1)
    BY <2>1, <2>2, RunAppend
  <2>4. InputAt(a + 1, b, c, d)' /\ a + 1 \in Nat
    BY <2>1, <2>2, <2>3
  <2>5. QED
    BY <2>4
<1>5. CASE Disconnect
  <2>1. /\ ~Serving'
        /\ UNCHANGED <<typed, tin, intask, ichan, rpcin, inet, spipe, consumed>>
    BY <1>5 DEF Disconnect, TaskOf
  <2>2. InputAt(a, b, c, d)'
    BY <2>1
  <2>3. QED
    BY <2>2
<1>6. CASE UserTypes
  <2>1. /\ typed' = typed + 1 /\ tin' = Append(tin, typed + 1)
        /\ UNCHANGED <<intask, ichan, rpcin, inet, sin, spipe, consumed>>
    BY <1>6 DEF UserTypes
  <2>2. \A x : Run(tin, x, typed) => Run(tin', x, typed')
    BY <2>1, RunAppend
  <2>3. InputAt(a, b, c, d)'
    BY <2>1, <2>2
  <2>4. QED
    BY <2>3
<1>7. CASE InReads
  <2>1. /\ intask.pc = "read" /\ tin # << >>
        /\ intask'.pc = "send" /\ intask'.buf = Head(tin) /\ tin' = Tail(tin)
        /\ UNCHANGED <<typed, ichan, rpcin, inet, sin, spipe, consumed>>
    BY <1>7 DEF InReads
  <2>2. Feeding => Head(tin) = d + 1 /\ Run(tin', d + 1, typed)
    <3>1. Feeding => Run(tin, d, typed)
      BY <2>1
    <3>2. QED
      BY <2>1, <3>1, RunTail
  <2>3. InputAt(a, b, c, d)'
    BY <2>1, <2>2
  <2>4. QED
    BY <2>3
<1>8. CASE InBreaks \/ InFails \/ InAwaits
  <2>1. /\ intask.pc # "send" /\ intask'.pc # "send"
        /\ UNCHANGED <<typed, tin, ichan, rpcin, inet, sin, spipe, consumed>>
    BY <1>8 DEF InBreaks, InFails, InAwaits, TaskOf
  <2>2. InputAt(a, b, c, d)'
    BY <2>1
  <2>3. QED
    BY <2>2
<1>9. CASE InSends
  <2>1. /\ intask.pc = "send" /\ intask'.pc # "send"
        /\ \/ ichan = << >> /\ ichan' = <<intask.buf>>
           \/ rpcin = "done" /\ ichan' = ichan
        /\ UNCHANGED <<typed, tin, rpcin, inet, sin, spipe, consumed>>
    BY <1>9 DEF InSends, TaskOf
  <2>2. Feeding => Run(ichan', c, d + 1)
    <3>1. SUFFICES ASSUME Feeding PROVE Run(ichan', c, d + 1)
      OBVIOUS
    <3>2. ichan = << >> /\ intask.buf = d + 1 /\ Run(ichan, c, d)
      BY <2>1, <3>1
    <3>3. ichan' = Append(ichan, d + 1)
      BY <2>1, <3>1, <3>2
    <3>4. QED
      BY <3>2, <3>3, RunAppend
  <2>3. InputAt(a, b, c, d + 1)' /\ d + 1 \in Nat
    BY <2>1, <2>2
  <2>4. QED
    BY <2>3
<1>10. CASE RpcOpens
  <2>1. /\ rpcin = "first" /\ ichan' = << >>
        /\ UNCHANGED <<typed, tin, intask, spipe, consumed>>
        /\ \/ rpcin' = "stream" /\ inet' = ichan /\ sin'.pc = "get"
           \/ rpcin' = "done" /\ inet' = inet /\ sin' = sin
    BY <1>10 DEF RpcOpens, TaskOf
  <2>2. b = 0 /\ c = 0 /\ Run(ichan, 0, d) /\ Run(ichan', d, d) /\ ~Serving
    BY <2>1, RunEmpty DEF StdinCall
  <2>3. d <= typed
    <3>1. Run(tin, d, typed) \/ Run(tin, d + 1, typed)
      BY <2>1
    <3>2. d <= typed \/ d + 1 <= typed
      BY <3>1, RunBounds
    <3>3. QED
      BY <3>2
  <2>4. InputAt(a, b, d, d)'
    BY <2>1, <2>2, <2>3
  <2>5. QED
    BY <2>4
<1>11. CASE RpcForwards
  <2>1. /\ rpcin = "stream" /\ inet' = inet \o ichan /\ ichan' = << >>
        /\ UNCHANGED <<typed, tin, intask, rpcin, sin, spipe, consumed>>
    BY <1>11 DEF RpcForwards
  <2>2. CASE Serving
    <3>1. Run(ichan, c, d) /\ Run(ichan', d, d)
      BY <2>1, <2>2, RunEmpty
    <3>2. /\ sin.pc # "write" => Run(inet', b, d)
          /\ sin.pc = "write" => Run(inet', b + 1, d)
      BY <2>1, <2>2, <3>1, RunConcat
    <3>3. d <= typed
      <4>1. Run(tin, d, typed) \/ Run(tin, d + 1, typed)
        BY <2>1, <2>2
      <4>2. d <= typed \/ d + 1 <= typed
        BY <4>1, RunBounds
      <4>3. QED
        BY <4>2
    <3>4. InputAt(a, b, d, d)'
      BY <2>1, <2>2, <3>1, <3>2, <3>3
    <3>5. QED
      BY <3>4
  <2>3. CASE ~Serving
    <3>1. InputAt(a, b, c, d)'
      BY <2>1, <2>3
    <3>2. QED
      BY <3>1
  <2>4. QED
    BY <2>2, <2>3
<1>12. CASE RpcInputEnds \/ RpcReturns
  <2>1. /\ rpcin' \in {"closing", "done"}
        /\ UNCHANGED <<typed, tin, intask, ichan, inet, sin, spipe, consumed>>
    BY <1>12 DEF RpcInputEnds, RpcReturns
  <2>2. InputAt(a, b, c, d)'
    BY <2>1
  <2>3. QED
    BY <2>2
<1>13. CASE SinGets \/ SinAtEnd
  <2>1. /\ Serving /\ sin.pc # "write" /\ sin'.pc # "write"
        /\ UNCHANGED <<typed, tin, intask, ichan, rpcin, inet, spipe, consumed>>
    BY <1>13 DEF SinGets, SinAtEnd, SinVars, TaskOf
  <2>2. rpcin # "first"
    BY <2>1 DEF StdinCall
  <2>3. InputAt(a, b, c, d)'
    BY <2>1, <2>2
  <2>4. QED
    BY <2>3
<1>14. CASE SinReads
  <2>1. /\ sin.pc = "read" /\ inet # << >>
        /\ sin'.pc = "write" /\ sin'.buf = Head(inet) /\ inet' = Tail(inet)
        /\ UNCHANGED <<typed, tin, intask, ichan, rpcin, spipe, consumed>>
    BY <1>14 DEF SinReads, SinVars
  <2>2. Head(inet) = b + 1 /\ Run(inet', b + 1, c)
    BY <2>1, RunTail
  <2>3. InputAt(a, b, c, d)'
    BY <2>1, <2>2
  <2>4. QED
    BY <2>3
<1>15. CASE SinWrites
  <2>1. /\ sin.pc = "write"
        /\ \/ spipe' = Append(spipe, sin.buf) /\ sin'.pc = "read"
           \/ spipe' = spipe /\ sin'.pc = "error"
        /\ UNCHANGED <<typed, tin, intask, ichan, rpcin, inet, consumed>>
    BY <1>15 DEF SinWrites, SinVars, TaskOf
  <2>2. rpcin # "first"
    BY <2>1 DEF StdinCall
  <2>3. CASE spipe' = spipe /\ sin'.pc = "error"
    <3>1. InputAt(a, b, c, d)'
      BY <2>1, <2>2, <2>3
    <3>2. QED
      BY <3>1
  <2>4. CASE spipe' = Append(spipe, sin.buf) /\ sin'.pc = "read"
    <3>1. sin.buf = b + 1 /\ Run(inet, b + 1, c)
      BY <2>1
    <3>2. Run(spipe', a, b + 1)
      BY <2>4, <3>1, RunAppend
    <3>3. b + 1 <= c
      BY <3>1, RunBounds
    <3>4. InputAt(a, b + 1, c, d)' /\ b + 1 \in Nat
      BY <2>1, <2>2, <2>4, <3>1, <3>2, <3>3
    <3>5. QED
      BY <3>4
  <2>5. QED
    BY <2>1, <2>3, <2>4
<1>16. QED
  BY <1>1, <1>2, <1>3, <1>4, <1>5, <1>6, <1>7, <1>8, <1>9, <1>10, <1>11, <1>12,
     <1>13, <1>14, <1>15 DEF Next, InTaskStep, RpcStep, SinStep, WaitStep

-----------------------------------------------------------------------------
(* The theorems.                                                           *)

(* The inductive invariant holds at the start. *)
LEMMA IInvInit == Init => IInv
<1> SUFFICES ASSUME Init PROVE IInv
  OBVIOUS
<1>1. TypeInv
  BY TypeInit
<1>2. Bounds
  BY BoundAssumption DEF Init, Bounds
<1>3. ASSUME NEW o \in Outs PROVE OutputRuns(o) /\ OutputEnds(o)
  <2>1. OutputAt(o, 0, 0, 0)
    BY RunEmpty DEF Init, OutputAt
  <2>2. OutputEnds(o)
    BY DEF Init, OutputEnds
  <2>3. QED
    BY <2>1, <2>2 DEF OutputRuns
<1>4. WaitsJoin
  BY DEF Init, WaitsJoin
<1>5. StdinCall
  BY DEF Init, StdinCall, Serving
<1>6. InputRuns
  <2>1. InputAt(0, 0, 0, 0)
    BY RunEmpty DEF Init, InputAt, Serving
  <2>2. QED
    BY <2>1 DEF InputRuns
<1>7. QED
  BY <1>1, <1>2, <1>3, <1>4, <1>5, <1>6 DEF IInv

(* Every step keeps it. *)
LEMMA IInvNext == IInv /\ [Next]_vars => IInv'
<1> SUFFICES ASSUME IInv, [Next]_vars PROVE IInv'
  OBVIOUS
<1> USE DEF IInv
<1>1. OtherSteps \/ \E o \in Outs :
          ChildWrites(o) \/ OutCloses(o) \/ ClientOpens(o) \/ OutStep(o)
  BY DEF Next, OtherSteps
<1>2. TypeInv'
  BY <1>1, TypeOutput, TypeOthers DEF OtherSteps
<1>3. ASSUME NEW p \in Outs PROVE (OutputRuns(p) /\ OutputEnds(p))'
  <2>1. OutputInv(p)
    BY DEF OutputInv
  <2>2. OutputInv(p)'
    BY <1>1, <2>1, OutputStep, OutputOther, OutputOthers
  <2>3. QED
    BY <2>2 DEF OutputInv
<1>4. WaitsJoin'
  BY WaitsStep
<1>5. StdinCall' /\ InputRuns'
  BY StdinCallStep, InputStep
<1>6. Bounds'
  <2>1. ASSUME NEW p \in Outs PROVE OutBounds(p)'
    <3>1. OutBounds(p)
      BY DEF Bounds, OutBounds
    <3>2. QED
      BY <1>1, <3>1, BoundsOutput, BoundsOthers
  <2>2. InBounds'
    <3>1. spipe \in Seq(Nat)
      BY RunBounds DEF InputRuns, InputAt
    <3>2. InBounds
      BY DEF Bounds, InBounds
    <3>3. QED
      BY <3>1, <3>2, BoundsInput
  <2>3. QED
    BY <2>1, <2>2 DEF Bounds, OutBounds, InBounds
<1>7. QED
  BY <1>2, <1>3, <1>4, <1>5, <1>6

(* It says that both streams arrive in order and without a gap. *)
LEMMA IInvStreams == IInv => StreamsInv
<1> SUFFICES ASSUME IInv PROVE StreamsInv
  OBVIOUS
<1> USE DEF IInv
<1>1. ASSUME NEW o \in Outs
      PROVE  IsPrefix(out[o], Units(written[o])) /\ Len(out[o]) <= MaxOut
  <2>1. PICK a \in Nat, b \in Nat, c \in Nat : OutputAt(o, a, b, c)
    BY DEF OutputRuns
  <2>2. Run(out[o], 0, a) /\ a <= b /\ b <= written[o]
    BY <2>1, RunBounds DEF OutputAt
  <2>3. written[o] \in Nat /\ written[o] <= MaxOut /\ MaxOut \in Nat
    BY BoundAssumption DEF TypeInv, OutTypes
  <2>4. Len(out[o]) = a - 0
    BY <2>2, RunBounds
  <2>5. a <= written[o] /\ Len(out[o]) <= MaxOut
    BY <2>2, <2>3, <2>4
  <2>6. QED
    BY <2>2, <2>3, <2>5, RunPrefix
<1>2. IsPrefix(consumed \o spipe, Units(typed)) /\ Len(consumed) <= MaxIn
  <2>1. PICK a \in Nat, b \in Nat, c \in Nat, d \in Nat : InputAt(a, b, c, d)
    BY DEF InputRuns
  <2>2. Run(consumed, 0, a) /\ Run(spipe, a, b) /\ b <= typed
    BY <2>1 DEF InputAt
  <2>3. typed \in Nat /\ typed <= MaxIn /\ MaxIn \in Nat
    BY BoundAssumption DEF TypeInv, InTypes
  <2>4. Run(consumed \o spipe, 0, b)
    BY <2>2, RunConcat
  <2>5. Len(consumed) = a - 0 /\ a <= b
    BY <2>2, RunBounds
  <2>6. Len(consumed) <= MaxIn
    BY <2>2, <2>3, <2>5
  <2>7. QED
    BY <2>2, <2>3, <2>4, <2>6, RunPrefix
<1>3. TypeOK
  <2>1. ASSUME NEW o \in Outs
        PROVE  /\ written[o] \in 0..MaxOut
               /\ open[o] \in BOOLEAN /\ ended[o] \in BOOLEAN
               /\ copier[o] \in TaskOf({"unopened", "read", "send", "done"})
               /\ sink[o] \in {"unopened", "run", "done", "failed"}
    BY DEF TypeInv, OutTypes, CopierPcs
  <2>2. Len(tin) <= MaxIn
    <3>1. tin \in Seq(Nat) /\ Len(tin) <= typed /\ typed \in 0..MaxIn
      BY DEF TypeInv, InTypes, Bounds
    <3>2. QED
      BY <3>1, BoundAssumption
  <2>3. QED
    BY <1>1, <1>2, <2>1, <2>2
       DEF TypeOK, TypeInv, InTypes, WaitTypes, Bounds, InTaskPcs, SinPcs
<1>4. QED
  BY <1>1, <1>2, <1>3 DEF StreamsInv, OutputInOrder, InputInOrder

(* And that nothing is left on the way when the exit code is returned,     *)
(* unless the client could not write it.                                   *)
LEMMA IInvReturn == IInv => AllOutputAtReturn
<1> SUFFICES ASSUME IInv, conn, client = [pc |-> "returned", res |-> "code"],
                    NEW o \in Outs, sink[o] # "failed"
             PROVE  out[o] = Units(written[o])
  BY DEF AllOutputAtReturn
<1>1. copier[o].pc = "done" /\ sink[o] = "done" /\ Held(o)
  BY DEF IInv, WaitsJoin, Held
<1>2. pipe[o] = << >> /\ chan[o] = << >> /\ net[o] = << >>
  BY <1>1 DEF IInv, OutputEnds
<1>3. PICK a \in Nat, b \in Nat, c \in Nat : OutputAt(o, a, b, c)
  BY DEF IInv, OutputRuns
<1>4. /\ Run(out[o], 0, a) /\ Run(<< >>, a, b) /\ Run(<< >>, b, c)
      /\ Run(<< >>, c, written[o])
  BY <1>1, <1>2, <1>3 DEF OutputAt
<1>5. a = written[o]
  BY <1>4, RunEmpty
<1>6. QED
  BY <1>4, <1>5, RunPrefix

(* Whatever the sizes of the buffers and the order in which the tasks run, *)
(* the queues keep their capacities, what reaches the terminal is a prefix *)
(* of what the command wrote, and what reaches the command is a prefix of  *)
(* what the user typed: copy_to, the channels, copy_stream, in_task and    *)
(* Server::stdin neither lose nor repeat nor reorder a buffer.             *)
THEOREM StreamsCorrect == Spec => []StreamsInv
<1>1. Spec => []IInv
  BY IInvInit, IInvNext, PTL DEF Spec
<1>2. QED
  BY <1>1, IInvStreams, PTL

(* When P9cpuClient::wait returns the exit code over a connection that     *)
(* held, each output is on the terminal in full, unless a write or flush   *)
(* to it failed on the client's side: Server::wait joins every copy_to     *)
(* before it answers, and the client every copy_stream.                    *)
THEOREM OutputComplete == Spec => []AllOutputAtReturn
<1>1. Spec => []IInv
  BY IInvInit, IInvNext, PTL DEF Spec
<1>2. QED
  BY <1>1, IInvReturn, PTL
=============================================================================
