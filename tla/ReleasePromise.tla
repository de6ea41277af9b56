--------------------------- MODULE ReleasePromise ---------------------------
(***************************************************************************)
(* What Bind Plane promises of its releases, without workers, leases and   *)
(* checkpoints.  A release that was asked for starts when no other release *)
(* of its address is under way or in doubt; its command goes out once, if  *)
(* it does; and it is concluded truthfully, or its outcome is unknown for   *)
(* good.  What is in doubt may still send its command, nothing else may.   *)
(***************************************************************************)
EXTENDS Integers

CONSTANTS Jobs, Addresses, Nowhere

VARIABLES
    stage,    \* none, asked, started, unknown, or concluded: untouched or answered
    target,   \* the address of a release that was asked for
    commands  \* how many commands of it went out

promiseVars == <<stage, target, commands>>

Promised ==
    /\ stage = [j \in Jobs |-> "none"]
    /\ target = [j \in Jobs |-> Nowhere]
    /\ commands = [j \in Jobs |-> 0]

Ask(j) ==
    /\ stage[j] = "none"
    /\ stage' = [stage EXCEPT ![j] = "asked"]
    /\ \E a \in Addresses : target' = [target EXCEPT ![j] = a]
    /\ UNCHANGED commands

Free(a) == \A k \in Jobs : target[k] = a => stage[k] \notin {"started", "unknown"}

Start(j) ==
    /\ stage[j] = "asked"
    /\ stage' = [stage EXCEPT ![j] = "started"]
    /\ Free(target[j])
    /\ UNCHANGED <<target, commands>>

Send(j) ==
    /\ commands[j] = 0
    /\ commands' = [commands EXCEPT ![j] = 1]
    /\ stage[j] \in {"started", "unknown"}
    /\ UNCHANGED <<stage, target>>

\* An answer is one to a command that went out, and nothing happened where none did.
Conclude(j) ==
    /\ stage[j] = "started"
    /\ \/ commands[j] = 0 /\ stage' = [stage EXCEPT ![j] = "untouched"]
       \/ commands[j] = 1 /\ stage' = [stage EXCEPT ![j] = "answered"]
    /\ UNCHANGED <<target, commands>>

\* Several outcomes may be found unknown at once.
Doubt(lost) ==
    /\ stage' = [j \in Jobs |-> IF j \in lost THEN "unknown" ELSE stage[j]]
    /\ UNCHANGED <<target, commands>>

Promise ==
    \/ \E lost \in SUBSET {j \in Jobs : stage[j] = "started"} : Doubt(lost)
    \/ \E j \in Jobs : Ask(j) \/ Start(j) \/ Send(j) \/ Conclude(j)

PromiseSpec == Promised /\ [][Promise]_promiseVars
=============================================================================
