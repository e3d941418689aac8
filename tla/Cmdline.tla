------------------------------ MODULE Cmdline --------------------------------
(***************************************************************************)
(* The front end of ifup, ifdown and ifquery (src/components/ifupdown/     *)
(* main.c): main() names the command after the basename of argv[0]        *)
(* (determine_command), takes the options one at a time as getopt_long()  *)
(* returns them (parse_options, with --read-environment's                 *)
(* parse_environment_variables), answers --state with do_state(), picks   *)
(* the target interfaces (select_interfaces), runs the pre hooks of the   *)
(* meta interface for --all, calls do_interface() on each target and the *)
(* post hooks, and returns 0 only if every call succeeded.                 *)
(*                                                                         *)
(* An argument is a record: an option [o |-> name, arg |-> its argument],  *)
(* with the short or long name as getopt_long() maps it, an operand        *)
(* [o |-> "word", arg |-> text], or [o |-> "--", arg |-> ""].  GNU         *)
(* getopt_long() moves the operands after the options, in their order;    *)
(* everything after "--" is an operand.  do_interface() itself is the     *)
(* controller of Ifupdown; here its result is either boolean.  The -o     *)
(* case is OptionOverrides' ParseOption and is not repeated.               *)
(***************************************************************************)
EXTENDS Integers, Sequences

CONSTANTS
    Argv0s,       \* argv[0] as its path components: <<"sbin", "ifup">> is /sbin/ifup
    ArgTokens,    \* the arguments an argument vector is made of
    MaxArgv,      \* the longest argument vector
    Environ,      \* VERBOSE, CONFIGURE_INTERFACES and EXCLUDE_INTERFACES
                  \* (its words, as strtok() splits it)
    AllowUps,     \* the allow-up groups of the interfaces file: class -> interfaces
    StateLines    \* the lines read_all_state() returns

VARIABLES
    clmode,     \* "idle", "opts", "main", "preall", "loop", "postall", "exit"
    clcmd,      \* cmds: "up", "down", "query", "list"
    clopt,      \* the option globals
    clargs,     \* the arguments getopt_long() has not returned yet
    clops,      \* the operands, in order
    cltargets,  \* target_iface[0 .. n_target_ifaces - 1]
    clsuccess,  \* success in main()
    clexit,     \* the exit status, and why the program ended
    clargv,     \* the argument vector and argv[0] as given
    clcalls,    \* do_interface() calls made: interface and result
    clhooks     \* results of the meta interface's hooks
clvars == <<clmode, clcmd, clopt, clargs, clops, cltargets, clsuccess, clexit, clargv, clcalls, clhooks>>

\* The argument vectors of at most MaxArgv arguments.
ArgVecs == UNION {[1..n -> ArgTokens] : n \in 0..MaxArgv}

\* The option globals as main.c initialises them.
InitialOptions ==
    [do_all |-> FALSE, run_mappings |-> TRUE, force |-> FALSE, list |-> FALSE,
     state_query |-> FALSE, no_act |-> FALSE, verbose |-> FALSE, ignore_failures |-> FALSE,
     run_scripts |-> TRUE, no_loopback |-> FALSE, allow_class |-> "NULL",
     interfaces |-> "/etc/network/interfaces", excludeint |-> <<>>]

\* determine_command(): the first character after the last '/'.
Commands == [ifup |-> "up", ifdown |-> "down", ifquery |-> "query"]
determine_command(a0) == IF a0[Len(a0)] \in DOMAIN Commands THEN Commands[a0[Len(a0)]] ELSE "none"

\* exit() from the option loop or select_interfaces(): usage() is 1,
\* help() and version() 0.
Quit(code, why) == [quit |-> TRUE, code |-> code, why |-> why]
Go(opt, cmd) == [quit |-> FALSE, opt |-> opt, cmd |-> cmd]

\* parse_environment_variables(), for --read-environment.
parse_environment_variables(o) ==
    [o EXCEPT !.verbose = @ \/ Environ.VERBOSE = "yes",
              !.no_act = @ \/ Environ.CONFIGURE_INTERFACES = "no",
              !.excludeint = @ \o Environ.EXCLUDE_INTERFACES]

(***************************************************************************)
(* One case of parse_options()' switch for the option t.  --no-act and   *)
(* --force are refused once the command is a query or a list, --list and  *)
(* --state unless it is still a query (--list makes it a list).           *)
(***************************************************************************)
Option(o, cmd, t) ==
    CASE t.o = "i" -> Go([o EXCEPT !.interfaces = t.arg], cmd)
      [] t.o = "v" -> Go([o EXCEPT !.verbose = TRUE], cmd)
      [] t.o = "a" -> Go([o EXCEPT !.do_all = TRUE], cmd)
      [] t.o = "allow" -> Go([o EXCEPT !.allow_class = t.arg], cmd)
      [] t.o \in {"n", "force"} /\ cmd \in {"list", "query"} -> Quit(1, "usage")
      [] t.o = "n" -> Go([o EXCEPT !.no_act = TRUE], cmd)
      [] t.o = "force" -> Go([o EXCEPT !.force = TRUE], cmd)
      [] t.o = "no-mappings" -> Go([o EXCEPT !.run_mappings = FALSE], cmd)
      [] t.o = "no-scripts" -> Go([o EXCEPT !.run_scripts = FALSE], cmd)
      [] t.o = "no-loopback" -> Go([o EXCEPT !.no_loopback = TRUE], cmd)
      [] t.o = "ignore-errors" -> Go([o EXCEPT !.ignore_failures = TRUE], cmd)
      [] t.o = "X" -> Go([o EXCEPT !.excludeint = Append(@, t.arg)], cmd)
      [] t.o = "l" /\ cmd # "query" -> Quit(1, "usage")
      [] t.o = "l" -> Go([o EXCEPT !.list = TRUE], "list")
      [] t.o = "h" -> Quit(0, "help")
      [] t.o = "V" -> Quit(0, "version")
      [] t.o = "state" /\ cmd # "query" -> Quit(1, "usage")
      [] t.o = "state" -> Go([o EXCEPT !.state_query = TRUE], cmd)
      [] t.o = "read-environment" -> Go(parse_environment_variables(o), cmd)
      [] OTHER -> Quit(1, "usage")

\* find_allowup(): the interfaces of the class, none for an unknown class.
find_allowup(class) == IF class \in DOMAIN AllowUps THEN AllowUps[class] ELSE <<>>

\* A selection that ignores --allow for the bulk targets.
select_interfacesAuto(o, cmd, ops, readok) ==
    LET bulk == o.do_all \/ o.list
    IN  CASE ops # <<>> /\ bulk -> Quit(1, "usage")
          [] ops = <<>> /\ ~bulk -> Quit(1, "usage")
          [] o.do_all /\ cmd = "query" -> Quit(1, "usage")
          [] ~readok -> Quit(1, "error")
          [] bulk /\ cmd \in {"list", "up"} -> [quit |-> FALSE, targets |-> find_allowup("auto")]
          [] bulk /\ cmd = "down" -> [quit |-> FALSE, targets |-> StateLines]
          [] bulk -> Quit(1, "usage")
          [] OTHER -> [quit |-> FALSE, targets |-> ops]

(***************************************************************************)
(* select_interfaces(): operands and --all/--list exclude each other, one *)
(* of them is needed, and ifquery takes no --all.  --all and --list take  *)
(* the allow-up group (--allow's class, else auto) for ifup and --list,  *)
(* and the statefile's lines for ifdown; otherwise the operands.  It     *)
(* exits when the interfaces file cannot be read (readok).               *)
(***************************************************************************)
select_interfaces(o, cmd, ops, readok) ==
    LET bulk == o.do_all \/ o.list
    IN  CASE ops # <<>> /\ bulk -> Quit(1, "usage")
          [] ops = <<>> /\ ~bulk -> Quit(1, "usage")
          [] o.do_all /\ cmd = "query" -> Quit(1, "usage")
          [] ~readok -> Quit(1, "error")
          [] bulk /\ cmd \in {"list", "up"} ->
                [quit |-> FALSE, targets |-> find_allowup(IF o.allow_class = "NULL" THEN "auto" ELSE o.allow_class)]
          [] bulk /\ cmd = "down" -> [quit |-> FALSE, targets |-> StateLines]
          [] bulk -> Quit(1, "usage")
          [] OTHER -> [quit |-> FALSE, targets |-> ops]

\* main() is waiting to be run.
ClInit ==
    /\ clmode = "idle" /\ clcmd = "none" /\ clopt = InitialOptions
    /\ clargs = <<>> /\ clops = <<>> /\ cltargets = <<>> /\ clsuccess = TRUE
    /\ clexit = [code |-> -1, why |-> "running"]
    /\ clargv = [a0 |-> <<>>, argv |-> <<>>]
    /\ clcalls = <<>> /\ clhooks = <<>>
ClIdle == clmode = "idle"

Exit(code, why) == clmode' = "exit" /\ clexit' = [code |-> code, why |-> why]

\* main() starts: determine_command(), which sets ignore_failures for ifdown
\* and no_act for ifquery, or exits for another name.
ClStart ==
    /\ clmode = "idle"
    /\ \E a0 \in Argv0s, argv \in ArgVecs :
          /\ clargv' = [a0 |-> a0, argv |-> argv]
          /\ clargs' = argv
          /\ clcmd' = determine_command(a0)
          /\ clopt' = [clopt EXCEPT !.ignore_failures = (clcmd' = "down"), !.no_act = (clcmd' = "query")]
          /\ IF clcmd' = "none" THEN Exit(1, "usage") ELSE clmode' = "opts" /\ UNCHANGED clexit
    /\ UNCHANGED <<clops, cltargets, clsuccess, clcalls, clhooks>>

\* One return of getopt_long(): an operand is set aside, "--" makes the
\* rest operands, an option runs its case; at the end main() goes on.
ClOption ==
    /\ clmode = "opts"
    /\ \/ /\ clargs = <<>>
          /\ clmode' = "main"
          /\ UNCHANGED <<clargs, clops, clopt, clcmd, clexit>>
       \/ /\ clargs # <<>> /\ Head(clargs).o = "word"
          /\ clops' = Append(clops, Head(clargs).arg)
          /\ clargs' = Tail(clargs)
          /\ UNCHANGED <<clmode, clopt, clcmd, clexit>>
       \/ /\ clargs # <<>> /\ Head(clargs).o = "--"
          /\ clops' = clops \o [i \in 1..Len(Tail(clargs)) |-> Tail(clargs)[i].arg]
          /\ clargs' = <<>>
          /\ UNCHANGED <<clmode, clopt, clcmd, clexit>>
       \/ /\ clargs # <<>> /\ Head(clargs).o \notin {"word", "--"}
          /\ clargs' = Tail(clargs)
          /\ LET r == Option(clopt, clcmd, Head(clargs))
             IN  IF r.quit THEN Exit(r.code, r.why) /\ UNCHANGED <<clopt, clcmd>>
                 ELSE clopt' = r.opt /\ clcmd' = r.cmd /\ UNCHANGED <<clmode, clexit>>
          /\ UNCHANGED clops
    /\ UNCHANGED <<cltargets, clsuccess, clargv, clcalls, clhooks>>

\* main() after the options: --state returns do_state()'s answer (StateFile
\* models it); otherwise select_interfaces(), then the pre hooks for --all.
ClMain ==
    /\ clmode = "main"
    /\ \/ /\ clopt.state_query
          /\ \E code \in {0, 1} : Exit(code, "state")
          /\ UNCHANGED cltargets
       \/ /\ ~clopt.state_query
          /\ \E readok \in BOOLEAN :
                LET r == select_interfaces(clopt, clcmd, clops, readok)
                IN  IF r.quit THEN Exit(r.code, r.why) /\ UNCHANGED cltargets
                    ELSE /\ cltargets' = r.targets
                         /\ clmode' = IF clopt.do_all THEN "preall" ELSE "loop"
                         /\ UNCHANGED clexit
    /\ UNCHANGED <<clcmd, clopt, clargs, clops, clsuccess, clargv, clcalls, clhooks>>

\* do_pre_all() and do_post_all(): the meta interface's pre-up or pre-down
\* (post-up or post-down) hooks for ifup and ifdown; a failure exits 1.
Hook(next, phase) ==
    /\ \E ok \in IF clcmd \in {"up", "down"} THEN BOOLEAN ELSE {TRUE} :
          /\ clhooks' = IF clcmd \in {"up", "down"} THEN Append(clhooks, [phase |-> phase, ok |-> ok]) ELSE clhooks
          /\ IF ok THEN next ELSE Exit(1, "hook")
ClPreAll ==
    /\ clmode = "preall"
    /\ Hook(clmode' = "loop" /\ UNCHANGED clexit, "pre")
    /\ UNCHANGED <<clcmd, clopt, clargs, clops, cltargets, clsuccess, clargv, clcalls>>

\* A loop that keeps only the last result: success = do_interface(...).
ClIfaceLast ==
    /\ clmode = "loop"
    /\ Len(clcalls) < Len(cltargets)
    /\ \E ok \in BOOLEAN :
          /\ clcalls' = Append(clcalls, [iface |-> cltargets[Len(clcalls) + 1], ok |-> ok])
          /\ clsuccess' = ok
    /\ UNCHANGED <<clmode, clcmd, clopt, clargs, clops, cltargets, clexit, clargv, clhooks>>

\* The loop of main(): success &= do_interface(target_iface[i]).
ClIface ==
    /\ clmode = "loop"
    /\ Len(clcalls) < Len(cltargets)
    /\ \E ok \in BOOLEAN :
          /\ clcalls' = Append(clcalls, [iface |-> cltargets[Len(clcalls) + 1], ok |-> ok])
          /\ clsuccess' = (clsuccess /\ ok)
    /\ UNCHANGED <<clmode, clcmd, clopt, clargs, clops, cltargets, clexit, clargv, clhooks>>

\* After the loop: the post hooks for --all, then return success ? 0 : 1.
ClDone ==
    /\ clmode = "loop"
    /\ Len(clcalls) = Len(cltargets)
    /\ IF clopt.do_all THEN clmode' = "postall" /\ UNCHANGED clexit
       ELSE Exit(IF clsuccess THEN 0 ELSE 1, "done")
    /\ UNCHANGED <<clcmd, clopt, clargs, clops, cltargets, clsuccess, clargv, clcalls, clhooks>>
ClPostAll ==
    /\ clmode = "postall"
    /\ Hook(Exit(IF clsuccess THEN 0 ELSE 1, "done"), "post")
    /\ UNCHANGED <<clcmd, clopt, clargs, clops, cltargets, clsuccess, clargv, clcalls>>

ClNext == ClStart \/ ClOption \/ ClMain \/ ClPreAll \/ ClIface \/ ClDone \/ ClPostAll

(***************************************************************************)
(* The command line as the manual page describes it, whatever the order   *)
(* of its arguments: the options are those before the first "--", the     *)
(* operands the words among them and everything after it.  --all or       *)
(* --list select the allow-up group of the last --allow (auto without     *)
(* one), or for ifdown the interfaces the statefile records.              *)
(***************************************************************************)
DashDash(argv) == LET dd == {i \in 1..Len(argv) : argv[i].o = "--"}
                  IN  IF dd = {} THEN Len(argv) + 1 ELSE CHOOSE i \in dd : \A j \in dd : i <= j
Given(argv, name) == {i \in 1..(DashDash(argv) - 1) : argv[i].o = name}
Operands(argv) ==
    LET words == SelectSeq(SubSeq(argv, 1, DashDash(argv) - 1), LAMBDA t : t.o = "word")
        rest == SubSeq(argv, DashDash(argv) + 1, Len(argv))
    IN  [k \in 1..Len(words \o rest) |-> (words \o rest)[k].arg]
Class(argv) == IF Given(argv, "allow") = {} THEN "auto"
               ELSE argv[CHOOSE i \in Given(argv, "allow") : \A j \in Given(argv, "allow") : j <= i].arg
Requested(c) ==
    IF Given(c.argv, "a") \cup Given(c.argv, "l") = {} THEN Operands(c.argv)
    ELSE IF determine_command(c.a0) = "down" THEN StateLines ELSE find_allowup(Class(c.argv))
Called == [i \in 1..Len(clcalls) |-> clcalls[i].iface]

(***************************************************************************)
(* do_interface() is called only for the interfaces the command line     *)
(* asks for, in their order, and when main() returns normally it was     *)
(* called for every one of them: operands wherever they stand among the  *)
(* options, the allow-up group of --all and --list, the statefile's     *)
(* lines for ifdown --all (parse_options, select_interfaces, main).      *)
(***************************************************************************)
TargetsAsRequested ==
    /\ Len(Called) <= Len(Requested(clargv))
    /\ Called = SubSeq(Requested(clargv), 1, Len(Called))
    /\ clexit.why = "done" => Called = Requested(clargv)

(***************************************************************************)
(* The exit status: apart from --help, --version and --state, ifup,      *)
(* ifdown and ifquery exit 0 exactly when they ran to the end and every   *)
(* do_interface() call, and every hook of the --all meta interface,       *)
(* succeeded (main, do_pre_all, do_post_all).                              *)
(***************************************************************************)
ExitStatus ==
    clmode = "exit" /\ clexit.why \notin {"help", "version", "state"} =>
        (clexit.code = 0 <=> /\ clexit.why = "done"
                             /\ \A i \in 1..Len(clcalls) : clcalls[i].ok
                             /\ \A i \in 1..Len(clhooks) : clhooks[i].ok)
====
