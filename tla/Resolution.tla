---------------------------- MODULE Resolution ----------------------------
(***************************************************************************)
(* ResolveNetwork of Bind Plane: which switch owns an IPv4 address.  The   *)
(* loop of the source is a state machine, one step per network, so that    *)
(* what it computes can be proved for every list of networks.              *)
(***************************************************************************)
EXTENDS Integers, Sequences

CONSTANTS
    NetworkSwitches,
    Prefixes,         \* parsed IPv4 prefixes
    Addresses,        \* IPv4 addresses
    Bits(_),          \* Prefix.Bits
    Covers(_, _),     \* Prefix.Contains of an address
    Lists             \* the lists of networks that are resolved against

\* active: enabled, validated, of an enabled switch, and its CIDR parses.
Networks == [switch : NetworkSwitches, prefix : Prefixes, active : BOOLEAN]

ASSUME PrefixesOK ==
    /\ \A p \in Prefixes : Bits(p) \in Nat
    /\ \A p \in Prefixes, a \in Addresses : Covers(p, a) \in BOOLEAN
    /\ Lists \subseteq Seq(Networks)

VARIABLES networks, address, i, best, selected, ambiguous
resolutionVars == <<networks, address, i, best, selected, ambiguous>>

ResolutionInit ==
    /\ networks \in Lists
    /\ address \in Addresses
    /\ i = 1
    /\ best = -1
    /\ selected = 0    \* the index of the selected network
    /\ ambiguous = FALSE

Active(n) == networks[n].active /\ Covers(networks[n].prefix, address)
Length(n) == Bits(networks[n].prefix)

Skip ==
    /\ ~Active(i)
    /\ UNCHANGED <<best, selected, ambiguous>>

\* Mutant: an earlier ambiguity is never forgotten.
LongerStaysAmbiguous ==
    /\ Active(i) /\ Length(i) > best
    /\ best' = Length(i) /\ selected' = i /\ UNCHANGED ambiguous

\* A longer prefix wins and settles an earlier ambiguity.
Longer ==
    /\ Active(i) /\ Length(i) > best
    /\ best' = Length(i) /\ selected' = i /\ ambiguous' = FALSE

\* As long as the best prefix: ambiguous when it belongs to another switch.
AsLong ==
    /\ Active(i) /\ Length(i) = best
    /\ ambiguous' = (ambiguous \/ networks[i].switch # networks[selected].switch)
    /\ UNCHANGED <<best, selected>>

Shorter ==
    /\ Active(i) /\ Length(i) < best
    /\ UNCHANGED <<best, selected, ambiguous>>

ResolutionNext ==
    /\ i <= Len(networks)
    /\ i' = i + 1
    /\ Skip \/ Longer \/ AsLong \/ Shorter
    /\ UNCHANGED <<networks, address>>

ResolutionSpec == ResolutionInit /\ [][ResolutionNext]_resolutionVars

Returned == i > Len(networks)

\* What is returned: ErrNoSwitch, ErrAmbiguous, or the selected network.
Owner ==
    IF best < 0 THEN "no switch"
    ELSE IF ambiguous THEN "ambiguous"
    ELSE "owned"

-----------------------------------------------------------------------------
(***************************************************************************)
(* Correctness: longest-prefix ownership, whatever the order of the list.  *)
(***************************************************************************)

\* The networks among the first n that no active network beats.
Longest(n) ==
    {k \in 1..n : Active(k) /\ \A j \in 1..n : Active(j) => Length(j) <= Length(k)}

\* The loop variables hold values of their type.
ResolutionTypeOK ==
    /\ networks \in Seq(Networks)
    /\ address \in Addresses
    /\ i \in 1..(Len(networks) + 1)
    /\ best \in Nat \cup {-1}
    /\ selected \in 0..Len(networks)
    /\ ambiguous \in BOOLEAN

\* ResolveNetwork answers "no switch" exactly when no active network holds the address,
\* "ambiguous" exactly when two switches own a longest prefix of it, and otherwise a
\* network whose switch is the only owner: the order of the rows never matters.
LongestPrefixOwns ==
    Returned =>
      LET owners == {networks[k].switch : k \in Longest(Len(networks))} IN
      CASE Owner = "no switch" -> owners = {}
        [] Owner = "ambiguous" -> \E r, s \in owners : r # s
        [] Owner = "owned"     -> owners = {networks[selected].switch}
=============================================================================
