------------------------------ MODULE Ifupdown ------------------------------
(***************************************************************************)
(* The interface lifecycle controller of ifupdown (do_interface, main.c)   *)
(* together with the state store it drives (lock_interface, is_locked,     *)
(* update_state) and the execution driver's command runner (doit,          *)
(* set_environ, iface_predown in execute.c).                               *)
(*                                                                         *)
(* Several ifup/ifdown processes run at once: started by a user or an init *)
(* script, or by the hook commands of another ifup/ifdown (a bridge or     *)
(* bond "up" command that runs "ifup eth0", say).  A process is a slot of  *)
(* Procs; its number is its pid, and a reaped slot is reused, which is how *)
(* the model has pid reuse.  A process may die at any step (SIGKILL, OOM,  *)
(* or the SIGTERM of an ifdown); the kernel then drops its fcntl locks.    *)
(*                                                                         *)
(* Data is abstracted: a physical interface is a member of Phys, a logical *)
(* interface (an "iface" stanza name) a member of Logical, and the number  *)
(* of address-family stanzas of a logical interface is NFams[l].  The      *)
(* commands of a stanza are one step that succeeds or fails, or that runs  *)
(* one nested ifup/ifdown taken from HookCalls.                            *)
(***************************************************************************)
EXTENDS Naturals, Sequences, FiniteSets, Relation

CONSTANTS
    Procs,        \* process slots (pids)
    Phys,         \* physical interface names
    Logical,      \* logical interface names (iface stanzas)
    None,         \* an absent value: no state, no owner, no process
    Parent,       \* Parent[i]: i up to its first '.', or None
    NFams,        \* NFams[l]: number of iface stanzas named l
    Excluded,     \* interfaces ignore_interface skips (--exclude, --allow)
    TopCalls,     \* invocations started from outside ifupdown
    HookCalls,    \* HookCalls[i]: ifup/ifdown calls the hooks of i run
    MapStanzas,   \* the mapping stanzas in file order: the logical names each
                  \* matches, and the names its script may print
    LinkCanFail,  \* whether the link method's command may fail
    MaxStarts,    \* bound on the number of processes ever started
    MaxCrashes    \* bound on the number of processes that die abnormally

\* An invocation "ifup|ifdown [--force] iface[=liface]" (determine_command,
\* parse_options and the split at the top of do_interface).
Calls == [cmd : {"up", "down"}, iface : Phys, liface : Logical, force : BOOLEAN]

ASSUME /\ None \notin Phys \cup Logical \cup Procs
       /\ Parent \in [Phys -> Phys \cup {None}]
       /\ NFams \in [Logical -> Nat]
       /\ Excluded \subseteq Phys
       /\ TopCalls \subseteq Calls
       /\ HookCalls \in [Phys -> SUBSET Calls]
       /\ MapStanzas \in Seq([match : SUBSET Logical, out : SUBSET Logical])
       /\ LinkCanFail \in BOOLEAN
       /\ MaxStarts \in Nat /\ MaxCrashes \in Nat

VARIABLES
    pc,           \* pc[p]: where process p is in do_interface
    call,         \* call[p]: the invocation p runs, or None for a free slot
    liface,       \* liface[p]: the logical interface p configures
    env,          \* env[p]: interfaces with an IFUPDOWN_<iface> variable in p's environment
    waiter,       \* waiter[p]: the process waiting for p in waitpid, or None
    pgrp,         \* pgrp[p]: p's process group, None while it is its caller's
    curState,     \* curState[p]: current_state read under the interface lock
    mapIdx,       \* mapIdx[p]: the mapping stanza p looks at next
    fam,          \* fam[p]: the iface stanza of liface[p] being run
    okay,         \* okay[p]: some stanza of liface[p] was reached
    failed,       \* failed[p]: the last stanza's commands failed
    success,      \* success[p]: do_interface's result
    hooked,       \* hooked[p]: this stanza's commands already ran a nested call
    held,         \* held[p]: the interface lock files p holds a lock on
    lockContent,  \* lockContent[i]: the state line in the lock file of i
    lockFile,     \* the interfaces whose lock file exists
    stateFile,    \* stateFile[i]: the "i=l" line of the statefile, or None
    upPid,        \* upPid[i]: the pid in ifup-<i>.pid, or None when it does not exist
    starts,       \* processes started so far
    crashes       \* processes that died abnormally so far

procVars == <<pc, call, liface, env, waiter, pgrp, curState, mapIdx, fam, okay,
              failed, success, hooked, held>>
fileVars == <<lockContent, lockFile, stateFile, upPid>>
vars == <<procVars, fileVars, starts, crashes>>

\* The stages of do_interface a process goes through.
PCs == {"idle", "check", "lockParent", "lockIface", "mapping", "preWrite", "preState",
        "linkUp", "predown", "family", "commands", "await", "famEnd",
        "linkDown", "finalWrite", "finalState", "end", "done"}

\* Holding the lock of call[p].iface, before the final state is written.
Section == {"mapping", "preWrite", "preState", "linkUp", "predown", "family", "commands",
            "await", "famEnd", "linkDown", "finalWrite", "finalState"}

Live == PCs \ {"idle", "done"}

-----------------------------------------------------------------------------
(* Helpers *)

Iface(p) == call[p].iface
Up(p) == call[p].cmd = "up"

\* The process holding the fcntl write lock on the lock file of i.
LockOwner(i) == IF \E p \in Procs : i \in held[p]
                THEN CHOOSE p \in Procs : i \in held[p] ELSE None

\* is_locked: F_GETLK on the lock file reports some other process's lock.
is_locked(i) == i \in lockFile /\ LockOwner(i) # None

\* ignore_interface: the interface is filtered out by --exclude or --allow.
ignore_interface(i) == i \in Excluded

\* Some mapping stanza matches the logical name l (fnmatch on its globs).
Mapped(l) == \E k \in 1..Len(MapStanzas) : l \in MapStanzas[k].match

\* The logical names the mapping stanzas k, k+1, ... may turn l into, when
\* none of their scripts fails.
RECURSIVE MapFrom(_, _)
MapFrom(l, k) ==
    IF k > Len(MapStanzas) THEN {l}
    ELSE IF l \in MapStanzas[k].match
         THEN UNION {MapFrom(x, k + 1) : x \in MapStanzas[k].out}
         ELSE MapFrom(l, k + 1)

\* found: liface has an iface stanza or a mapping, or, for ifdown, the
\* lock file exists.
found(p) == \/ NFams[liface[p]] > 0
            \/ Mapped(liface[p])
            \/ ~Up(p) /\ Iface(p) \in lockFile

\* Mutant: the recursion check is missing.
RecursionNever(p, x) == FALSE

\* The IFUPDOWN_<x> variable is set and x's lock is held: recursion.
Recursion(p, x) == x # None /\ x \in env[p] /\ is_locked(x)

\* ignore_failures is set for ifdown (determine_command).
IgnoreFailures(p) == ~Up(p)

\* Mutant: set_environ does not add IFUPDOWN_<piface>=parent-lock.
HookEnvNoParent(p) == env[p] \cup {Iface(p)}

\* The IFUPDOWN_ variables set_environ passes to the commands of p.
HookEnv(p) == env[p] \cup {Iface(p)} \cup
              (IF Parent[Iface(p)] # None THEN {Parent[Iface(p)]} ELSE {})

\* Without --force, ifup of a configured interface and ifdown of an
\* unconfigured one succeed at once.
NoOp(p, cur) == /\ ~call[p].force
                /\ \/ Up(p) /\ cur # None
                   \/ ~Up(p) /\ cur = None

\* Mutants: the VLAN test on piface is missing, or always true.
LockStageNoParent(i) == "lockIface"
LockStageAlways(i) == "lockParent"

\* The lock stage after the checks: a name with a '.' is a VLAN, whose
\* parent is locked first.
LockStage(i) == IF Parent[i] # None THEN "lockParent" ELSE "lockIface"

\* Mutant: the rewrite keeps the old line of iface when the state is NULL.
RewriteKeep(f, i, v) == IF v = None THEN f ELSE [f EXCEPT ![i] = v]

\* update_state's copy of the statefile with the line "i=..." replaced by
\* "i=v", or dropped when v is NULL.
Rewrite(f, i, v) == [f EXCEPT ![i] = v]

\* The state written before any command runs.
Tentative(p) == IF Up(p) THEN liface[p] ELSE None

\* The state written at the end ("Ignoring unknown interface" when no
\* stanza was reached; a failed ifup of an unconfigured interface clears it).
FinalValue(p) ==
    IF ~okay[p] /\ ~call[p].force THEN None
    ELSE IF Up(p) /\ curState[p] = None /\ failed[p] THEN None
    ELSE Tentative(p)

\* Mutant: the "Failed to bring up" exit falls through to success = true.
FinalSuccessAlways(p) == TRUE

\* do_interface's result once the final state is written.
FinalSuccess(p) ==
    ~(/\ okay[p] \/ call[p].force
      /\ Up(p) /\ curState[p] = None /\ failed[p])

\* The processes a kill(-q, SIGTERM) reaches: q's process group.
Group(q) == {r \in Procs : pc[r] \in Live /\ pgrp[r] = q}

\* pc after the processes of V die and p moves on to stage s.
PcAfterDeath(V, p, s) == [r \in Procs |-> IF r \in V THEN "done"
                                          ELSE IF r = p THEN s ELSE pc[r]]

\* The processes of V die: the kernel drops their locks, their children
\* are orphaned, and their callers see a failure.
Die(V) == /\ held' = [r \in Procs |-> IF r \in V THEN {} ELSE held[r]]
          /\ waiter' = [r \in Procs |-> IF waiter[r] \in V THEN None ELSE waiter[r]]
          /\ success' = [r \in Procs |-> IF r \in V THEN FALSE ELSE success[r]]

\* A new process in slot p runs c with environment e, for caller w.  The
\* other fields of a free slot hold their initial values (Init, Free).
Begin(p, c, e, w) ==
    /\ call' = [call EXCEPT ![p] = c]
    /\ liface' = [liface EXCEPT ![p] = c.liface]
    /\ env' = [env EXCEPT ![p] = e]
    /\ waiter' = [waiter EXCEPT ![p] = w]
    /\ starts' = starts + 1

\* doit calls setpgid(0, 0) before it forks a command.
Setpgid(p) == pgrp' = [pgrp EXCEPT ![p] = p]

Goto(p, s) == pc' = [pc EXCEPT ![p] = s]

Return(p, ok) == /\ Goto(p, "done")
                 /\ success' = [success EXCEPT ![p] = ok]

-----------------------------------------------------------------------------
(* Actions of process p *)

\* main: a user or an init script starts "ifup|ifdown c" in a free slot; it
\* inherits no IFUPDOWN_ variable and runs in its caller's process group.
Invoke(p, c) ==
    /\ pc[p] = "idle"
    /\ starts < MaxStarts
    /\ Begin(p, c, {}, None)
    /\ Goto(p, "check")
    /\ UNCHANGED <<pgrp, curState, mapIdx, fam, okay, failed, success, hooked, held,
                   fileVars, crashes>>

\* do_interface up to the parent lock: the interface filter, the "Unknown
\* interface" check and the recursion checks on the interface and on the
\* parent of a VLAN interface.
Check(p) ==
    LET i == Iface(p)
        rejected == ~found(p) \/ Recursion(p, i) \/ Recursion(p, Parent[i])
    IN  /\ pc[p] = "check"
        /\ \/ /\ ignore_interface(i)
              /\ Return(p, TRUE)
           \/ /\ ~ignore_interface(i) /\ rejected
              /\ Return(p, FALSE)
           \/ /\ ~ignore_interface(i) /\ ~rejected
              /\ Goto(p, LockStage(i))
              /\ UNCHANGED success
        /\ UNCHANGED <<call, liface, env, waiter, pgrp, curState, mapIdx, fam, okay,
                       failed, hooked, held, fileVars, starts, crashes>>

\* lock_interface(piface, NULL): open (creating) the parent's lock file and
\* take its write lock, waiting (F_SETLKW) while another process holds it.
LockParent(p) ==
    LET x == Parent[Iface(p)]
    IN  /\ pc[p] = "lockParent"
        /\ LockOwner(x) = None
        /\ held' = [held EXCEPT ![p] = @ \cup {x}]
        /\ lockFile' = lockFile \cup {x}
        /\ Goto(p, "lockIface")
        /\ UNCHANGED <<call, liface, env, waiter, pgrp, curState, mapIdx, fam, okay,
                       failed, success, hooked, lockContent, stateFile, upPid,
                       starts, crashes>>

\* lock_interface(iface, &current_state), then the no-op exits of an ifup
\* of a configured or an ifdown of an unconfigured interface; ifdown goes
\* on with the logical interface recorded in the state.
LockIface(p) ==
    LET i == Iface(p)
        cur == lockContent[i]
    IN  /\ pc[p] = "lockIface"
        /\ LockOwner(i) = None
        /\ held' = [held EXCEPT ![p] = @ \cup {i}]
        /\ lockFile' = lockFile \cup {i}
        /\ curState' = [curState EXCEPT ![p] = cur]
        /\ \/ /\ NoOp(p, cur)
              /\ Goto(p, "end")
              /\ success' = [success EXCEPT ![p] = TRUE]
              /\ UNCHANGED <<liface, mapIdx>>
           \/ /\ ~NoOp(p, cur)
              /\ Goto(p, IF Up(p) THEN "mapping" ELSE "preWrite")
              /\ mapIdx' = [mapIdx EXCEPT ![p] = 1]
              /\ liface' = [liface EXCEPT ![p] =
                               IF ~Up(p) /\ ~call[p].force THEN cur ELSE @]
              /\ UNCHANGED success
        /\ UNCHANGED <<call, env, waiter, pgrp, fam, okay, failed, hooked,
                       lockContent, stateFile, upPid, starts, crashes>>

\* The mapping stanzas, in file order, for ifup: each one whose globs
\* match the current logical name runs its script (run_mapping), whose
\* output line becomes the logical name the later stanzas see; a script
\* that fails or prints nothing ends do_interface with failure.
Mapping(p) ==
    LET k == mapIdx[p]
        m == MapStanzas[k]
    IN  /\ pc[p] = "mapping"
        /\ \/ /\ k > Len(MapStanzas)
              /\ Goto(p, "preWrite")
              /\ UNCHANGED <<liface, mapIdx, success>>
           \/ /\ k <= Len(MapStanzas) /\ liface[p] \notin m.match
              /\ mapIdx' = [mapIdx EXCEPT ![p] = k + 1]
              /\ UNCHANGED <<pc, liface, success>>
           \/ /\ k <= Len(MapStanzas) /\ liface[p] \in m.match
              /\ Goto(p, "end")
              /\ success' = [success EXCEPT ![p] = FALSE]
              /\ UNCHANGED <<liface, mapIdx>>
           \/ /\ k <= Len(MapStanzas) /\ liface[p] \in m.match
              /\ \E l \in m.out : liface' = [liface EXCEPT ![p] = l]
              /\ mapIdx' = [mapIdx EXCEPT ![p] = k + 1]
              /\ UNCHANGED <<pc, success>>
        /\ UNCHANGED <<call, env, waiter, pgrp, curState, fam, okay, failed,
                       hooked, held, fileVars, starts, crashes>>

\* update_state, first half: the new state is written into the lock file.
PreWrite(p) ==
    /\ pc[p] = "preWrite"
    /\ lockContent' = [lockContent EXCEPT ![Iface(p)] = Tentative(p)]
    /\ Goto(p, "preState")
    /\ UNCHANGED <<call, liface, env, waiter, pgrp, curState, mapIdx, fam, okay,
                   failed, success, hooked, held, lockFile, stateFile, upPid,
                   starts, crashes>>

\* update_state, second half: under the global lock the statefile is
\* copied to a temporary file with the line of iface replaced, and renamed
\* over the statefile.  Then the loop over the iface stanzas of liface.
PreState(p) ==
    /\ pc[p] = "preState"
    /\ stateFile' = Rewrite(stateFile, Iface(p), Tentative(p))
    /\ fam' = [fam EXCEPT ![p] = 1]
    /\ Goto(p, IF NFams[liface[p]] = 0 THEN "finalWrite"
               ELSE IF Up(p) THEN "linkUp" ELSE "predown")
    /\ UNCHANGED <<call, liface, env, waiter, pgrp, curState, mapIdx, okay,
                   failed, success, hooked, held, lockContent, lockFile, upPid,
                   starts, crashes>>

\* Before the first stanza of ifup, the link method brings the link up; if
\* its command fails the loop is left with okay still false.
LinkUp(p) ==
    /\ pc[p] = "linkUp"
    /\ Setpgid(p)
    /\ \/ Goto(p, "family")
       \/ LinkCanFail /\ Goto(p, "finalWrite")
    /\ UNCHANGED <<call, liface, env, waiter, curState, mapIdx, fam, okay, failed,
                   success, hooked, held, fileVars, starts, crashes>>

\* iface_predown: if ifup-<iface>.pid exists, SIGTERM the process group of
\* the pid it holds, then unlink it.
Predown(p) ==
    LET i == Iface(p)
        V == IF upPid[i] = None THEN {} ELSE Group(upPid[i])
    IN  /\ pc[p] = "predown"
        /\ pc' = PcAfterDeath(V, p, "family")
        /\ Die(V)
        /\ upPid' = [upPid EXCEPT ![i] = None]
        /\ UNCHANGED <<call, liface, env, pgrp, curState, mapIdx, fam, okay, failed,
                       hooked, lockContent, lockFile, stateFile, starts,
                       crashes>>

\* A stanza: okay is set, ifup writes its pid into ifup-<iface>.pid, and
\* the method's check of the required variables may fail (cmds returns -1).
Family(p) ==
    /\ pc[p] = "family"
    /\ okay' = [okay EXCEPT ![p] = TRUE]
    /\ upPid' = IF Up(p) THEN [upPid EXCEPT ![Iface(p)] = p] ELSE upPid
    /\ hooked' = [hooked EXCEPT ![p] = FALSE]
    /\ \/ Goto(p, "commands") /\ UNCHANGED failed
       \/ Goto(p, "famEnd") /\ failed' = [failed EXCEPT ![p] = TRUE]
    /\ UNCHANGED <<call, liface, env, waiter, pgrp, curState, mapIdx, fam, success,
                   held, lockContent, lockFile, stateFile, starts, crashes>>

\* The stanza's method commands, options and run-parts scripts: the result
\* of cmds is 1 (success) or 0 (a command or a template expansion failed).
Commands(p) ==
    /\ pc[p] = "commands"
    /\ Setpgid(p)
    /\ \E ok \in BOOLEAN : failed' = [failed EXCEPT ![p] = ~ok]
    /\ Goto(p, "famEnd")
    /\ UNCHANGED <<call, liface, env, waiter, curState, mapIdx, fam, okay, success,
                   hooked, held, fileVars, starts, crashes>>

\* doit of a hook command that runs a nested ifup/ifdown c: setpgid, fork
\* with the environment of set_environ, and waitpid.
Spawn(p, q, c) ==
    /\ pc[p] = "commands"
    /\ ~hooked[p]
    /\ pc[q] = "idle"
    /\ starts < MaxStarts
    /\ c \in HookCalls[Iface(p)]
    /\ hooked' = [hooked EXCEPT ![p] = TRUE]
    /\ Begin(q, c, HookEnv(p), p)
    /\ pgrp' = [pgrp EXCEPT ![p] = p, ![q] = p]
    /\ pc' = [pc EXCEPT ![p] = "await", ![q] = "check"]
    /\ UNCHANGED <<curState, mapIdx, fam, okay, failed, success, held, fileVars,
                   crashes>>

\* The slot of an exited process q is free again (all but pc and failed).
Free(q) ==
    /\ call' = [call EXCEPT ![q] = None]
    /\ liface' = [liface EXCEPT ![q] = None]
    /\ env' = [env EXCEPT ![q] = {}]
    /\ waiter' = [waiter EXCEPT ![q] = None]
    /\ pgrp' = [pgrp EXCEPT ![q] = None]
    /\ curState' = [curState EXCEPT ![q] = None]
    /\ mapIdx' = [mapIdx EXCEPT ![q] = 0]
    /\ fam' = [fam EXCEPT ![q] = 0]
    /\ okay' = [okay EXCEPT ![q] = FALSE]
    /\ success' = [success EXCEPT ![q] = FALSE]
    /\ hooked' = [hooked EXCEPT ![q] = FALSE]

\* waitpid returns for the nested call q; unless failures are ignored
\* (ifdown) a failed call fails the stanza.
ChildExit(p, q) ==
    /\ pc[p] = "await"
    /\ waiter[q] = p
    /\ pc[q] = "done"
    /\ \/ /\ ~success[q] /\ ~IgnoreFailures(p)
          /\ pc' = [pc EXCEPT ![p] = "famEnd", ![q] = "idle"]
          /\ failed' = [failed EXCEPT ![p] = TRUE, ![q] = FALSE]
       \/ /\ success[q] \/ IgnoreFailures(p)
          /\ pc' = [pc EXCEPT ![p] = "commands", ![q] = "idle"]
          /\ failed' = [failed EXCEPT ![q] = FALSE]
    /\ Free(q)
    /\ UNCHANGED <<held, fileVars, starts, crashes>>

\* The end of a stanza: ifup unlinks its pidfile; the loop stops at the
\* first failed stanza; after the last one ifdown brings the link down.
FamEnd(p) ==
    LET last == failed[p] \/ fam[p] = NFams[liface[p]]
    IN  /\ pc[p] = "famEnd"
        /\ upPid' = IF Up(p) THEN [upPid EXCEPT ![Iface(p)] = None] ELSE upPid
        /\ \/ /\ ~last
              /\ fam' = [fam EXCEPT ![p] = @ + 1]
              /\ Goto(p, IF Up(p) THEN "family" ELSE "predown")
           \/ /\ last
              /\ Goto(p, IF Up(p) THEN "finalWrite" ELSE "linkDown")
              /\ UNCHANGED fam
        /\ UNCHANGED <<call, liface, env, waiter, pgrp, curState, mapIdx,
                       okay, failed, success, hooked, held, lockContent, lockFile,
                       stateFile, starts, crashes>>

\* ifdown brings the link down; if that fails do_interface returns false
\* without writing the final state.
LinkDown(p) ==
    /\ pc[p] = "linkDown"
    /\ Setpgid(p)
    /\ \/ Goto(p, "finalWrite") /\ UNCHANGED success
       \/ /\ LinkCanFail
          /\ Goto(p, "end")
          /\ success' = [success EXCEPT ![p] = FALSE]
    /\ UNCHANGED <<call, liface, env, waiter, curState, mapIdx, fam, okay, failed,
                   hooked, held, fileVars, starts, crashes>>

\* update_state of the final state, first half: the lock file.
FinalWrite(p) ==
    /\ pc[p] = "finalWrite"
    /\ lockContent' = [lockContent EXCEPT ![Iface(p)] = FinalValue(p)]
    /\ Goto(p, "finalState")
    /\ UNCHANGED <<call, liface, env, waiter, pgrp, curState, mapIdx, fam, okay,
                   failed, success, hooked, held, lockFile, stateFile, upPid,
                   starts, crashes>>

\* update_state of the final state, second half: the statefile; then
\* do_interface's result.
FinalState(p) ==
    /\ pc[p] = "finalState"
    /\ stateFile' = Rewrite(stateFile, Iface(p), FinalValue(p))
    /\ success' = [success EXCEPT ![p] = FinalSuccess(p)]
    /\ Goto(p, "end")
    /\ UNCHANGED <<call, liface, env, waiter, pgrp, curState, mapIdx, fam, okay,
                   failed, hooked, held, lockContent, lockFile, upPid,
                   starts, crashes>>

\* end: fclose of the interface and parent lock files drops the locks.
End(p) ==
    /\ pc[p] = "end"
    /\ held' = [held EXCEPT ![p] = {}]
    /\ Goto(p, "done")
    /\ UNCHANGED <<call, liface, env, waiter, pgrp, curState, mapIdx, fam, okay,
                   failed, success, hooked, fileVars, starts, crashes>>

\* A process nobody waits for exits and its slot (pid) becomes free.
Reap(p) ==
    /\ pc[p] = "done"
    /\ waiter[p] = None
    /\ Goto(p, "idle")
    /\ failed' = [failed EXCEPT ![p] = FALSE]
    /\ Free(p)
    /\ UNCHANGED <<held, fileVars, starts, crashes>>

\* The process dies at an arbitrary point (SIGKILL, OOM killer, power
\* loss of the process); the files it wrote stay as they are.
Crash(p) ==
    /\ pc[p] \in Live
    /\ crashes < MaxCrashes
    /\ pc' = PcAfterDeath({p}, p, "done")
    /\ Die({p})
    /\ crashes' = crashes + 1
    /\ UNCHANGED <<call, liface, env, pgrp, curState, mapIdx, fam, okay, failed,
                   hooked, fileVars, starts>>

\* Every process has finished and no more are started.
Terminated == /\ starts = MaxStarts
              /\ \A p \in Procs : pc[p] = "idle"
              /\ UNCHANGED vars

-----------------------------------------------------------------------------

Init ==
    /\ pc = [p \in Procs |-> "idle"]
    /\ call = [p \in Procs |-> None]
    /\ liface = [p \in Procs |-> None]
    /\ env = [p \in Procs |-> {}]
    /\ waiter = [p \in Procs |-> None]
    /\ pgrp = [p \in Procs |-> None]
    /\ curState = [p \in Procs |-> None]
    /\ mapIdx = [p \in Procs |-> 0]
    /\ fam = [p \in Procs |-> 0]
    /\ okay = [p \in Procs |-> FALSE]
    /\ failed = [p \in Procs |-> FALSE]
    /\ success = [p \in Procs |-> FALSE]
    /\ hooked = [p \in Procs |-> FALSE]
    /\ held = [p \in Procs |-> {}]
    /\ lockContent = [i \in Phys |-> None]
    /\ lockFile = {}
    /\ stateFile = [i \in Phys |-> None]
    /\ upPid = [i \in Phys |-> None]
    /\ starts = 0
    /\ crashes = 0

\* The steps process p takes by itself once started.
Step(p) ==
    \/ Check(p) \/ LockParent(p) \/ LockIface(p) \/ Mapping(p) \/ PreWrite(p)
    \/ PreState(p) \/ LinkUp(p) \/ Predown(p) \/ Family(p) \/ Commands(p)
    \/ \E q \in Procs, c \in Calls : Spawn(p, q, c)
    \/ \E q \in Procs : ChildExit(p, q)
    \/ FamEnd(p) \/ LinkDown(p) \/ FinalWrite(p) \/ FinalState(p) \/ End(p)
    \/ Reap(p)

Next ==
    \/ \E p \in Procs, c \in TopCalls : Invoke(p, c)
    \/ \E p \in Procs : Step(p) \/ Crash(p)
    \/ Terminated

\* A started process keeps being scheduled: the kernel runs every runnable
\* process and F_SETLKW wakes a waiter when the lock is dropped.
Fairness == \A p \in Procs : WF_vars(Step(p))

Spec == Init /\ [][Next]_vars /\ Fairness

-----------------------------------------------------------------------------
(* Properties *)

TypeOK ==
    /\ pc \in [Procs -> PCs]
    /\ call \in [Procs -> Calls \cup {None}]
    /\ liface \in [Procs -> Logical \cup {None}]
    /\ env \in [Procs -> SUBSET Phys]
    /\ waiter \in [Procs -> Procs \cup {None}]
    /\ pgrp \in [Procs -> Procs \cup {None}]
    /\ curState \in [Procs -> Logical \cup {None}]
    /\ mapIdx \in [Procs -> Nat]
    /\ fam \in [Procs -> Nat]
    /\ okay \in [Procs -> BOOLEAN]
    /\ failed \in [Procs -> BOOLEAN]
    /\ success \in [Procs -> BOOLEAN]
    /\ hooked \in [Procs -> BOOLEAN]
    /\ held \in [Procs -> SUBSET Phys]
    /\ lockContent \in [Phys -> Logical \cup {None}]
    /\ lockFile \subseteq Phys
    /\ stateFile \in [Phys -> Logical \cup {None}]
    /\ upPid \in [Phys -> Procs \cup {None}]
    /\ starts \in 0..MaxStarts /\ crashes \in 0..MaxCrashes


\* p is blocked on q: in F_SETLKW on a lock q holds, or in waitpid for q.
WaitsFor(p, q) ==
    \/ pc[p] = "lockParent" /\ q = LockOwner(Parent[Iface(p)])
    \/ pc[p] = "lockIface" /\ q = LockOwner(Iface(p))
    \/ pc[p] = "await" /\ waiter[q] = p /\ pc[q] # "done"

\* No ifup/ifdown waits, through interface locks and the waitpid of hook
\* commands, on itself: the IFUPDOWN_<iface> recursion guard of
\* do_interface and the parent lock of VLAN interfaces keep a hook's nested
\* ifup from blocking on a lock its own caller holds.
NoWaitCycle ==
    IsIrreflexive(TransitiveClosure([x, y \in Procs |-> WaitsFor(x, y)], Procs),
                  Procs)

\* Two interfaces whose lock files exclude each other: the same one, a VLAN
\* and its parent, or two VLANs of one parent.
Related(i, j) == \/ i = j
                 \/ Parent[i] = j \/ Parent[j] = i
                 \/ Parent[i] = Parent[j] /\ Parent[i] # None

\* No two processes configure related interfaces at once: a VLAN is not
\* configured while its parent is (lock_interface on piface and iface).
ExclusiveConfiguration ==
    \A p, q \in Procs :
        p # q /\ pc[p] \in Section /\ pc[q] \in Section
            => ~Related(Iface(p), Iface(q))

\* The lock file content, which ifup/ifdown read as current_state, and the
\* statefile, which ifquery --state reads, agree for every interface no
\* process holds: update_state writes both under the interface lock.
StateFilesAgree ==
    \A i \in Phys : LockOwner(i) = None => lockContent[i] = stateFile[i]

\* Every started ifup/ifdown finishes: no lock wait or waitpid of a hook
\* command blocks forever.
Termination == \A p \in Procs : pc[p] = "check" ~> pc[p] = "done"

\* The SIGTERM of iface_predown only reaches a running ifup of the same
\* interface: the process group named by ifup-<iface>.pid is an ifup of it.
KillOnlyOwnIfup ==
    [][\A p \in Procs :
         Predown(p) /\ upPid[Iface(p)] # None
            => \A r \in Group(upPid[Iface(p)]) :
                   call[r].cmd = "up" /\ call[r].iface = Iface(p)]_vars

====
