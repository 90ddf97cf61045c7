-------------------------- MODULE SessionLifecycle --------------------------
(***************************************************************************)
(* What the session table promises, without calls, locks and tasks: each   *)
(* id is handed out once and moves                                         *)
(*                                                                         *)
(*     unknown -> dialed -> starting -> live -> gone                       *)
(*                             |                  ^                        *)
(*                             +------------------+                        *)
(*                                                                         *)
(* one way only, and a program runs under an id only while it is live.     *)
(* SessionServer with fresh ids implements this specification.             *)
(***************************************************************************)
CONSTANT Sids

VARIABLES
    life,     \* where each id is
    running   \* the ids under which a program runs

lvars == <<life, running>>

LifeInit ==
    /\ life = [s \in Sids |-> "unknown"]
    /\ running = {}

Dialed(s) ==
    /\ life[s] = "unknown"
    /\ life' = [life EXCEPT ![s] = "dialed"]
    /\ UNCHANGED running

Claimed(s) ==
    /\ life[s] = "dialed"
    /\ life' = [life EXCEPT ![s] = "starting"]
    /\ UNCHANGED running

StartFailed(s) ==
    /\ life[s] = "starting"
    /\ life' = [life EXCEPT ![s] = "gone"]
    /\ UNCHANGED running

(* The launcher may have died by the time the session is registered.       *)
Registered(s) ==
    /\ life[s] = "starting"
    /\ life' = [life EXCEPT ![s] = "live"]
    /\ running' \in {running, running \cup {s}}

ProgramEnds(s) ==
    /\ s \in running
    /\ running' = running \ {s}
    /\ UNCHANGED life

Reaped(s) ==
    /\ life[s] = "live"
    /\ s \notin running
    /\ life' = [life EXCEPT ![s] = "gone"]
    /\ UNCHANGED running

LifeNext == \E s \in Sids :
    \/ Dialed(s) \/ Claimed(s) \/ StartFailed(s)
    \/ Registered(s) \/ ProgramEnds(s) \/ Reaped(s)

LifeSpec == LifeInit /\ [][LifeNext]_lvars
=============================================================================
