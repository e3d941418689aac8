---------------------------- MODULE MC_Ifupdown -----------------------------
(***************************************************************************)
(* Instances of Ifupdown for TLC: a physical interface eth0 with a VLAN    *)
(* eth0.10 on it and an interface wlan0 filtered out by --exclude; eth0    *)
(* has an inet and an inet6 stanza; a mapping stanza may turn the logical *)
(* name eth0.10 into "guest", another stanza for the VLAN.                 *)
(***************************************************************************)
EXTENDS Ifupdown, TLC

CONSTANTS p1, p2, p3, p4

MCProcs == {p1, p2, p3}
MCProcs2 == {p1, p2}
MCProcs4 == {p1, p2, p3, p4}
MCPhys == {"eth0", "eth0.10", "wlan0"}
MCLogical == {"eth0", "eth0.10", "wlan0", "guest"}
MCParent == [i \in MCPhys |-> IF i = "eth0.10" THEN "eth0" ELSE None]
MCNFams == [l \in MCLogical |-> IF l = "eth0" THEN 2 ELSE 1]
MCExcluded == {"wlan0"}
MCNoExcluded == {}

IfUp(i) == [cmd |-> "up", iface |-> i, liface |-> i, force |-> FALSE]
IfDown(i) == [cmd |-> "down", iface |-> i, liface |-> i, force |-> FALSE]
Forced(c) == [c EXCEPT !.force = TRUE]

\* ifup and ifdown of eth0 and its VLAN, a forced ifup of the VLAN, and an
\* ifup of the excluded interface.
MCTopCalls == {IfUp("eth0"), IfDown("eth0"), IfUp("eth0.10"), Forced(IfUp("eth0.10")),
               IfDown("eth0.10"), IfUp("wlan0")}

\* The up/down commands of eth0 bring its VLAN up (a typical "up ifup
\* eth0.10" line); those of the VLAN run "ifup eth0".
MCHookCalls == [i \in MCPhys |->
                  CASE i = "eth0" -> {IfUp("eth0.10")}
                    [] i = "eth0.10" -> {IfUp("eth0")}
                    [] OTHER -> {}]

\* Two interfaces whose hooks bring up each other (a bridge br0 on wlan0
\* whose "up" runs "ifup eth0", and the other way round), nothing excluded.
MCCrossCalls == {IfUp("eth0"), IfUp("wlan0")}
MCCrossHooks == [i \in MCPhys |->
                   CASE i = "eth0" -> {IfUp("wlan0")}
                     [] i = "wlan0" -> {IfUp("eth0")}
                     [] OTHER -> {}]

\* ifup and ifdown of eth0 next to an ifup of wlan0, nothing excluded.
MCStaleCalls == {IfUp("eth0"), IfDown("eth0"), IfUp("wlan0")}
MCNoHooks == [i \in MCPhys |-> {}]

\* A mapping stanza for the VLAN whose script prints eth0.10 or guest.
MCMapStanzas == << [match |-> {"eth0.10"}, out |-> {"eth0.10", "guest"}] >>
MCNoMapStanzas == << >>

Symmetry == Permutations(MCProcs)
Symmetry4 == Permutations(MCProcs4)

\* The detailed state mapped to the abstract one: an interface being
\* configured is still at the value read under its lock.
Configuring(i) == {p \in Procs : pc[p] \in Section /\ Iface(p) = i}

AbsConfigured ==
    [i \in Phys |-> IF Configuring(i) # {}
                    THEN curState[CHOOSE p \in Configuring(i) : TRUE]
                    ELSE stateFile[i]]

AbsStatus ==
    [p \in Procs |-> CASE pc[p] = "idle" -> "idle"
                       [] pc[p] \in {"end", "done"} ->
                              IF success[p] THEN "ok" ELSE "fail"
                       [] OTHER -> "pending"]

Abs == INSTANCE IfState WITH configured <- AbsConfigured, status <- AbsStatus,
                             request <- call, Calls <- Calls,
                             Resolve <- [l \in Logical |-> MapFrom(l, 1)]

\* Every behaviour of the processes, seen through the mapping, is one of
\* IfState: each invocation's effect on the recorded state happens at one
\* step and matches its result.
RefinesIfState == Abs!Spec

====
