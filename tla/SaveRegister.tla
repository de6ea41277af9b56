---------------------------- MODULE SaveRegister ----------------------------
(***************************************************************************)
(* What saving promises, with no forms, drafts or sessions in it: every    *)
(* resource is a register that is written by compare-and-swap.  A save is  *)
(* accepted only while the register still holds the revision its author    *)
(* worked from; what others write in between is never lost.                *)
(***************************************************************************)
EXTENDS Integers

CONSTANT Resources

VARIABLES
    register,  \* the revision each resource is at; 0 once it is deleted
    pending,   \* saves on their way, each with its resource and its base
    accepted   \* saves the server has applied and nobody has heard of yet

registerVars == <<register, pending, accepted>>

Register ==
    /\ register = [r \in Resources |-> 1]
    /\ pending = {} /\ accepted = {}

\* A save starts from a revision the resource has had.
Send ==
    /\ \E t \in pending' \ pending :
          /\ t.resource \in Resources /\ t.base >= 1
          /\ pending' = pending \union {t}
    /\ UNCHANGED <<register, accepted>>

\* Two saves may look alike, and then one of them may remain.
Accept(t) ==
    /\ t.base = register[t.resource]
    /\ register' = [register EXCEPT ![t.resource] = @ + 1]
    /\ accepted' = accepted \union {t}
    /\ pending' \in {pending, pending \ {t}}

\* Refused, failed or never heard of again.
Refuse(t) == pending' = pending \ {t} /\ UNCHANGED <<register, accepted>>

Answer(t) == accepted' = accepted \ {t} /\ UNCHANGED <<register, pending>>

\* Somebody else writes or deletes the resource.
Elsewhere(r) ==
    /\ register[r] > 0
    /\ \E n \in {0, register[r] + 1} : register' = [register EXCEPT ![r] = n]
    /\ UNCHANGED <<pending, accepted>>

CompareAndSwap ==
    \/ Send
    \/ \E t \in pending : Accept(t) \/ Refuse(t)
    \/ \E t \in accepted : Answer(t)
    \/ \E r \in Resources : Elsewhere(r)

RegisterSpec == Register /\ [][CompareAndSwap]_registerVars
=============================================================================
