------------------------------ MODULE IfState -------------------------------
(***************************************************************************)
(* What an ifup/ifdown invocation promises about the recorded state of the *)
(* interfaces: each invocation takes effect at one instant, an ifup that   *)
(* succeeds records the logical interface it configured, one that fails    *)
(* part way records nothing, an ifdown clears the record, and an ifup of a *)
(* configured interface without --force changes nothing.  An invocation    *)
(* that is refused before it touches the interface (unknown interface,     *)
(* recursion) fails and changes nothing; one for an interface filtered out *)
(* by --exclude/--allow succeeds and changes nothing.  What ifup records  *)
(* is a name the mapping stanzas may turn its logical interface into.     *)
(***************************************************************************)
CONSTANTS Procs, Phys, Logical, None, Calls, Excluded,
          Resolve   \* Resolve[l]: the logical names mapping may turn l into

VARIABLES
    configured,   \* configured[i]: the logical interface recorded for i, or None
    status,       \* status[p]: "idle", "pending", "ok" or "fail"
    request       \* request[p]: the invocation p runs, or None

vars == <<configured, status, request>>

Init == /\ configured = [i \in Phys |-> None]
        /\ status = [p \in Procs |-> "idle"]
        /\ request = [p \in Procs |-> None]

Invoke(p) == /\ status[p] = "idle"
             /\ \E c \in Calls : request' = [request EXCEPT ![p] = c]
             /\ status' = [status EXCEPT ![p] = "pending"]
             /\ UNCHANGED configured

\* The invocation of p takes effect: the record of its interface becomes
\* v and its result is s.
Finish(p, v, s) ==
    /\ configured' = [configured EXCEPT ![request[p].iface] = v]
    /\ status' = [status EXCEPT ![p] = s]

Complete(p) ==
    LET r == request[p]
        i == r.iface
    IN  /\ status[p] = "pending"
        /\ \/ Finish(p, configured[i], "fail")
           \/ i \in Excluded /\ Finish(p, configured[i], "ok")
           \/ /\ r.cmd = "up"
              /\ \/ ~r.force /\ configured[i] # None
                    /\ Finish(p, configured[i], "ok")
                 \/ \E l \in Resolve[r.liface] : Finish(p, l, "ok")
                 \/ Finish(p, None, "fail")
           \/ r.cmd = "down" /\ \E s \in {"ok", "fail"} : Finish(p, None, s)
        /\ UNCHANGED request

Reap(p) == /\ status[p] \in {"ok", "fail"}
           /\ status' = [status EXCEPT ![p] = "idle"]
           /\ request' = [request EXCEPT ![p] = None]
           /\ UNCHANGED configured

Next == \E p \in Procs : Invoke(p) \/ Complete(p) \/ Reap(p)

Spec == Init /\ [][Next]_vars

====
