------------------------------ MODULE CanSleep -------------------------------
(***************************************************************************)
(* The decision of systemd's sleep configuration whether a sleep verb can *)
(* be used (src/components/systemd-245.4-4ubuntu3.15/src/shared/          *)
(* sleep-config.c): parse_sleep_config() applies the defaults to what     *)
(* sleep.conf set, sleep_settings() picks a verb's setting, can_sleep_state*)
(* and can_sleep_disk() look the verb's states and modes up in            *)
(* /sys/power/state and /sys/power/disk, and can_sleep_internal() adds    *)
(* the swap test of SleepConfig's enough_swap_for_hibernation(); for      *)
(* suspend-then-hibernate can_s2h() asks for suspend and hibernate in     *)
(* turn.                                                                   *)
(*                                                                         *)
(* A tristate of sleep.conf is -1 (unset), 0 or 1.  A list setting is a   *)
(* sequence of words, <<>> when unset or empty (config_parse_strv() frees  *)
(* the list for an empty value).  A /sys/power file is a record: ok is    *)
(* FALSE when it is not writable or cannot be read, words its words; a    *)
(* word of /sys/power/disk is a record, br for the "[mode]" that marks    *)
(* the current mode.                                                       *)
(***************************************************************************)
EXTENDS SleepConfig

CONSTANTS
    Tristates,   \* the values of an Allow...= setting: -1 unset, 0, 1
    ConfLists,   \* the list settings of sleep.conf, one record per file
    SysStates,   \* /sys/power/state: [ok, words]
    SysDisks,    \* /sys/power/disk: [ok, words], a word [w, br]
    CsSwaps      \* /proc/swaps tables, as SleepConfig reads them

\* -ENOSPC and -EADV.
ENOSPC == -28
EADV == -68

Verbs == {"suspend", "hibernate", "hybrid-sleep", "suspend-then-hibernate"}

\* A list setting, or its default when sleep.conf left it unset.
OrDefault(l, d) == IF l = <<>> THEN d ELSE l

\* parse_sleep_config(): the Allow...= settings default to yes, the two
\* combined verbs to whether neither of suspend and hibernate is disabled.
parse_sleep_config(a, l) ==
    [allow_suspend |-> a.suspend # 0,
     allow_hibernate |-> a.hibernate # 0,
     allow_hybrid_sleep |-> IF a.hybrid >= 0 THEN a.hybrid # 0 ELSE a.suspend # 0 /\ a.hibernate # 0,
     allow_s2h |-> IF a.s2h >= 0 THEN a.s2h # 0 ELSE a.suspend # 0 /\ a.hibernate # 0,
     suspend_modes |-> l.suspend_modes,
     suspend_states |-> OrDefault(l.suspend_states, <<"mem", "standby", "freeze">>),
     hibernate_modes |-> OrDefault(l.hibernate_modes, <<"platform", "shutdown">>),
     hibernate_states |-> OrDefault(l.hibernate_states, <<"disk">>),
     hybrid_modes |-> OrDefault(l.hybrid_modes, <<"suspend", "platform", "shutdown">>),
     hybrid_states |-> OrDefault(l.hybrid_states, <<"disk">>)]

\* sleep_settings(): the verb's permission, modes and states; none for
\* suspend-then-hibernate.  Its closing test looks at the output pointers,
\* never NULL, so it always returns 0.
sleep_settings(verb, sc) ==
    CASE verb = "suspend" -> [allow |-> sc.allow_suspend, modes |-> sc.suspend_modes, states |-> sc.suspend_states]
      [] verb = "hibernate" -> [allow |-> sc.allow_hibernate, modes |-> sc.hibernate_modes, states |-> sc.hibernate_states]
      [] verb = "hybrid-sleep" -> [allow |-> sc.allow_hybrid_sleep, modes |-> sc.hybrid_modes, states |-> sc.hybrid_states]
      [] OTHER -> [allow |-> sc.allow_s2h, modes |-> <<>>, states |-> <<>>]

\* can_sleep_state(): no states, or one of them is a word of the file.
can_sleep_state(types, st) ==
    \/ types = <<>>
    \/ st.ok /\ \E i \in DOMAIN types, j \in DOMAIN st.words : types[i] = st.words[j]

\* can_sleep_disk(): no modes, or one of them is a word of the file, bare
\* or in brackets.
can_sleep_disk(types, dk) ==
    \/ types = <<>>
    \/ dk.ok /\ \E i \in DOMAIN types, j \in DOMAIN dk.words :
                    \/ ~dk.words[j].br /\ dk.words[j].w = types[i]
                    \/ dk.words[j].br /\ dk.words[j].w = types[i]

\* can_sleep_internal() for suspend, hibernate and hybrid-sleep: 0, 1, or
\* -ENOSPC when only the swap is missing.  env holds the sysfs files, the
\* boot-time alarm clock, /proc/swaps and Active(anon).
CanSleepVerb(verb, check_allowed, sc, env) ==
    LET s == sleep_settings(verb, sc)
    IN  CASE check_allowed /\ ~s.allow -> 0
          [] ~can_sleep_state(s.states, env.state) \/ ~can_sleep_disk(s.modes, env.disk) -> 0
          [] verb = "suspend" -> 1
          [] ~enough_swap_for_hibernation(env.swaps, NoResume, env.act) -> ENOSPC
          [] OTHER -> 1

\* A can_s2h() whose IN_SET() misses -ENOSPC.
can_s2hNoSpace(sc, env) ==
    /\ env.alarm
    /\ \A p \in {"suspend", "hibernate"} :
          LET r == CanSleepVerb(p, FALSE, sc, env) IN r \notin {0, EADV}

(***************************************************************************)
(* can_s2h(): the alarm clock, then suspend and hibernate without their   *)
(* Allow...= settings.  A result of 0, -ENOSPC or -EADV is no; another    *)
(* negative one is returned as the errno, which the bool return type     *)
(* turns into yes.                                                         *)
(***************************************************************************)
can_s2h(sc, env) ==
    /\ env.alarm
    /\ \A p \in {"suspend", "hibernate"} :
          LET r == CanSleepVerb(p, FALSE, sc, env) IN r \notin {0, ENOSPC, EADV}

\* can_sleep_internal(): the permission first, then can_s2h() for
\* suspend-then-hibernate.
can_sleep_internal(verb, check_allowed, sc, env) ==
    CASE check_allowed /\ ~sleep_settings(verb, sc).allow -> 0
      [] verb = "suspend-then-hibernate" -> IF can_s2h(sc, env) THEN 1 ELSE 0
      [] OTHER -> CanSleepVerb(verb, check_allowed, sc, env)

\* can_sleep(): parse_sleep_config() (0 unless out of memory), then the test.
can_sleep(verb, a, l, env) == can_sleep_internal(verb, TRUE, parse_sleep_config(a, l), env)

-----------------------------------------------------------------------------
(* Input enumeration: one sleep.conf, sysfs, alarm clock and swap table.  *)
VARIABLE csin

NoCsIn == [none |-> TRUE]

CsInit == csin = NoCsIn
CsIdle == csin = NoCsIn

CsChoose ==
    /\ CsIdle
    /\ \E su, hi, hy, sh \in Tristates, l \in ConfLists, st \in SysStates, dk \in SysDisks,
          al \in BOOLEAN, sw \in CsSwaps, act \in Acts :
          csin' = [allows |-> [suspend |-> su, hibernate |-> hi, hybrid |-> hy, s2h |-> sh],
                   lists |-> l,
                   env |-> [state |-> st, disk |-> dk, alarm |-> al, swaps |-> sw, act |-> act]]

CsNext == CsChoose

(***************************************************************************)
(* sleep.conf(5)'s reading: a verb is allowed by its own Allow...= line,  *)
(* which defaults to yes, and for hybrid-sleep and suspend-then-hibernate *)
(* to neither AllowSuspend= nor AllowHibernation= being no.  The kernel   *)
(* supports it when /sys/power/state names one of its states and          *)
(* /sys/power/disk, bare or as the current "[mode]", one of its modes.    *)
(* Hibernation needs a swap that holds the image.                          *)
(***************************************************************************)
Allowed(a, v) ==
    LET own == CASE v = "suspend" -> a.suspend [] v = "hibernate" -> a.hibernate
                 [] v = "hybrid-sleep" -> a.hybrid [] OTHER -> a.s2h
    IN  IF own >= 0 THEN own = 1
        ELSE v \in {"suspend", "hibernate"} \/ (a.suspend # 0 /\ a.hibernate # 0)
Supported(v, l, env) ==
    LET sc == parse_sleep_config([suspend |-> 1, hibernate |-> 1, hybrid |-> 1, s2h |-> 1], l)
        s == sleep_settings(v, sc)
        words(f) == IF f.ok THEN {f.words[j] : j \in DOMAIN f.words} ELSE {}
    IN  /\ s.states = <<>> \/ \E i \in DOMAIN s.states : s.states[i] \in words(env.state)
        /\ s.modes = <<>> \/ \E i \in DOMAIN s.modes : s.modes[i] \in {w.w : w \in words(env.disk)}
Swap(env) == enough_swap_for_hibernation(env.swaps, NoResume, env.act)

(***************************************************************************)
(* can_sleep() says yes (1) exactly when the verb is allowed and the      *)
(* kernel supports it (suspend-then-hibernate: the alarm clock, suspend   *)
(* and hibernate), with a swap for anything that hibernates; for          *)
(* hibernate and hybrid-sleep that would work but for the swap it says    *)
(* -ENOSPC, otherwise 0 (can_sleep_internal, can_s2h, sleep_settings).    *)
(***************************************************************************)
CanSleepAsDocumented ==
    csin # NoCsIn =>
        \A v \in Verbs :
            LET r == can_sleep(v, csin.allows, csin.lists, csin.env)
                ok == IF v = "suspend-then-hibernate"
                      THEN csin.env.alarm /\ Supported("suspend", csin.lists, csin.env)
                                          /\ Supported("hibernate", csin.lists, csin.env)
                      ELSE Supported(v, csin.lists, csin.env)
                hib == v # "suspend"
            IN  CASE Allowed(csin.allows, v) /\ ok /\ (hib => Swap(csin.env)) -> r = 1
                  [] Allowed(csin.allows, v) /\ ok /\ v \in {"hibernate", "hybrid-sleep"} -> r = ENOSPC
                  [] OTHER -> r = 0
====
