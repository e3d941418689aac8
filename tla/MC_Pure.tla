------------------------------ MODULE MC_Pure -------------------------------
(***************************************************************************)
(* The components checked over their inputs alone, apart from the       *)
(* interleavings of the ifupdown processes, in one run: the pure          *)
(* conversions, each against its reference over bounded inputs (parse()  *)
(* of the template expander, the nvOS base64 password decoder, the        *)
(* libnvutil uuid codec, the netmask and broadcast helpers, the option    *)
(* handling of do_interface()), the enumerations of the nvOS name service *)
(* module, the hibernation swap choice of systemd's sleep configuration,  *)
(* the text of ifupdown's statefile, the line reader of its interfaces(5) *)
(* parser, the line reader of the nvmore pager and its sessions of key   *)
(* commands, the command line of ifup, ifdown and ifquery, and systemd's *)
(* decision whether a sleep verb can be used.  Each module has its       *)
(* own variables; a branch moves only while the others are at their     *)
(* start, so the state space is the sum of theirs.                         *)
(***************************************************************************)
EXTENDS MC_TemplateParse, Base64Decode, UuidCodec, AddrHelpers, OptionOverrides, NssNvos,
        SleepConfig, StateFile, ConfigReader, NvmSession, Cmdline, CanSleep

MCAddrs == {<<10, 1, 2, 3>>, <<127, 0, 0, 1>>, <<128, 9, 200, 7>>, <<191, 255, 0, 1>>,
            <<192, 168, 1, 77>>, <<223, 1, 1, 254>>, <<224, 0, 0, 251>>,
            <<255, 255, 255, 255>>}

MCMasks == {<<255, 255, 255, 0>>, <<255, 0, 255, 0>>, <<255, 255, 255, 254>>}

\* The defaults of a method that has one: mtu.
MCDefaults == << [option |-> "mtu", value |-> "d"] >>

\* Three users, the second with a passwd line longer than the middle
\* buffer size; three groups, one without a gid, with empty members
\* between, before and after commas.
MCUsers == <<"u1", "u2", "u3">>
MCEntLen == [u \in {"u1", "u2", "u3"} |-> IF u = "u2" THEN 60 ELSE 40]
MCShellAt == [u \in {"u1", "u2", "u3"} |-> IF u = "u2" THEN 45 ELSE 25]
MCGroups == << [gid |-> 1, namelen |-> 5, members |-> <<"a", ",", ",", "a">>, complete |-> TRUE],
               [gid |-> 2, namelen |-> 3, members |-> <<>>, complete |-> FALSE],
               [gid |-> 3, namelen |-> 4, members |-> <<",", "a", "a", ",">>, complete |-> TRUE] >>

\* Statefile names: eth0 ("e"), its VLAN eth0.1, which it is a prefix
\* of, and wlan0 ("w"); logical names of 1 to 3 characters.
MCStateIfaces == {<<"e">>, <<"e", ".", "1">>, <<"w">>}
MCStateLifaces == {<<"x">>, <<"x", "y">>, <<"x", "y", "z">>}

\* interfaces(5) text: a word character, a blank, the comment and
\* continuation characters, and the newline.
MCReaderChars == {"a", " ", "#", "\\", "\n"}

\* nvmore: besides the defaults on an xterm, "more -lurs" on a terminal
\* without automatic margins.
MCNvmTerms == {[wrap |-> FALSE, glitch |-> FALSE]}
MCNvmArgs == {<<"l", "u", "r", "s">>}
\* Two files of lines of at most three characters, the second starting
\* with a ^L.
NsFile1 == <<"b", "NL", "a", "b", "NL", "b", "NL", "a", "NL">>
NsFile2 == <<"FF", "a", "NL">>
MCNsFileSets == {<<NsFile1, NsFile2>>}

\* The command line: an argument is an option with its argument, an operand
\* or "--"; ifup, ifdown and ifquery as argv[0] and a name that is none of
\* them; the environment of --read-environment; two allow-up classes and a
\* statefile of one interface.
T(o, a) == [o |-> o, arg |-> a]
MCArgTokens == {T("a", ""), T("l", ""), T("state", ""), T("n", ""), T("force", ""), T("allow", "hot"),
                T("X", "eth*"), T("read-environment", ""), T("h", ""), T("s", "x"),
                T("word", "eth0"), T("word", "wlan0"), T("--", "")}
MCArgv0s == {<<"sbin", "ifup">>, <<"ifdown">>, <<"ifquery">>, <<"ifconfig">>}
MCEnviron == [VERBOSE |-> "yes", CONFIGURE_INTERFACES |-> "no", EXCLUDE_INTERFACES |-> <<"wlan*">>]
MCAllowUps == [auto |-> <<"eth0", "wlan0">>, hot |-> <<"wlan0">>]
MCStateLines == <<"eth0=home">>

\* sleep.conf: three files of list settings; /sys/power files that cannot
\* be read or that list other states or modes, the current mode of
\* /sys/power/disk bare or in brackets; no swap or one partition.
CsW(w, b) == [w |-> w, br |-> b]
CsF(ok, w) == [ok |-> ok, words |-> w]
CsNone == [suspend_modes |-> <<>>, suspend_states |-> <<>>, hibernate_modes |-> <<>>,
           hibernate_states |-> <<>>, hybrid_modes |-> <<>>, hybrid_states |-> <<>>]
MCTristates == {-1, 0, 1}
MCConfLists == {CsNone,
                [CsNone EXCEPT !.suspend_states = <<"freeze">>, !.hibernate_modes = <<"suspend">>],
                [CsNone EXCEPT !.suspend_modes = <<"suspend">>, !.hybrid_states = <<"mem">>]}
MCSysStates == {CsF(FALSE, <<>>), CsF(TRUE, <<"freeze", "mem", "disk">>), CsF(TRUE, <<"mem">>)}
MCSysDisks == {CsF(FALSE, <<>>), CsF(TRUE, <<CsW("platform", TRUE), CsW("shutdown", FALSE)>>),
               CsF(TRUE, <<CsW("platform", FALSE), CsW("suspend", TRUE)>>)}
MCCsSwaps == {<<>>, <<[kind |-> "partition", prio |-> 0, size |-> 2, used |-> 0, dev |-> 1, off |-> 0]>>}

TemplateIdle == Init

\* The name service branch at its start on one of the two platforms, the
\* one the other branches move from.
NssStart == NssIdle /\ platform = "linux"

PureInit == Init /\ B64Init /\ UuidInit /\ AddrInit /\ OptInit /\ NssInit /\ SleepInit /\ SfInit /\ ReaderInit /\ NvmInit /\ NsInit /\ ClInit /\ CsInit

\* Each branch's guard comes before its action, so that a state of one
\* branch does not enumerate the steps of the others.
PureNext ==
    \/ CsIdle /\ ClIdle /\ NsIdle /\ NvmIdle /\ ReaderIdle /\ SfIdle /\ B64Idle /\ UuidIdle /\ AddrIdle /\ OptIdle /\ NssStart /\ SleepIdle /\ Extend
       /\ UNCHANGED <<b64vars, uuidvars, aparam, optvars, nssvars, sleepvars, sfvars, cfgtext, nvmvars, nsvars, clvars, csin>>
    \/ CsIdle /\ ClIdle /\ NsIdle /\ NvmIdle /\ ReaderIdle /\ SfIdle /\ TemplateIdle /\ UuidIdle /\ AddrIdle /\ OptIdle /\ NssStart /\ SleepIdle /\ B64Next
       /\ UNCHANGED <<vars, uuidvars, aparam, optvars, nssvars, sleepvars, sfvars, cfgtext, nvmvars, nsvars, clvars, csin>>
    \/ CsIdle /\ ClIdle /\ NsIdle /\ NvmIdle /\ ReaderIdle /\ SfIdle /\ TemplateIdle /\ B64Idle /\ AddrIdle /\ OptIdle /\ NssStart /\ SleepIdle /\ UuidNext
       /\ UNCHANGED <<vars, b64vars, aparam, optvars, nssvars, sleepvars, sfvars, cfgtext, nvmvars, nsvars, clvars, csin>>
    \/ CsIdle /\ ClIdle /\ NsIdle /\ NvmIdle /\ ReaderIdle /\ SfIdle /\ TemplateIdle /\ B64Idle /\ UuidIdle /\ OptIdle /\ NssStart /\ SleepIdle /\ SetParam
       /\ UNCHANGED <<vars, b64vars, uuidvars, optvars, nssvars, sleepvars, sfvars, cfgtext, nvmvars, nsvars, clvars, csin>>
    \/ CsIdle /\ ClIdle /\ NsIdle /\ NvmIdle /\ ReaderIdle /\ SfIdle /\ TemplateIdle /\ B64Idle /\ UuidIdle /\ AddrIdle /\ NssStart /\ SleepIdle /\ OptNext
       /\ UNCHANGED <<vars, b64vars, uuidvars, aparam, nssvars, sleepvars, sfvars, cfgtext, nvmvars, nsvars, clvars, csin>>
    \/ CsIdle /\ ClIdle /\ NsIdle /\ NvmIdle /\ ReaderIdle /\ SfIdle /\ TemplateIdle /\ B64Idle /\ UuidIdle /\ AddrIdle /\ OptIdle /\ SleepIdle /\ NssNext
       /\ UNCHANGED <<vars, b64vars, uuidvars, aparam, optvars, sleepvars, sfvars, cfgtext, nvmvars, nsvars, clvars, csin>>
    \/ CsIdle /\ ClIdle /\ NsIdle /\ NvmIdle /\ ReaderIdle /\ SfIdle /\ TemplateIdle /\ B64Idle /\ UuidIdle /\ AddrIdle /\ OptIdle /\ NssStart /\ SleepNext
       /\ UNCHANGED <<vars, b64vars, uuidvars, aparam, optvars, nssvars, sfvars, cfgtext, nvmvars, nsvars, clvars, csin>>
    \/ CsIdle /\ ClIdle /\ NsIdle /\ NvmIdle /\ ReaderIdle /\ TemplateIdle /\ B64Idle /\ UuidIdle /\ AddrIdle /\ OptIdle /\ NssStart /\ SleepIdle /\ SfNext
       /\ UNCHANGED <<vars, b64vars, uuidvars, aparam, optvars, nssvars, sleepvars, cfgtext, nvmvars, nsvars, clvars, csin>>
    \/ CsIdle /\ ClIdle /\ NsIdle /\ NvmIdle /\ SfIdle /\ TemplateIdle /\ B64Idle /\ UuidIdle /\ AddrIdle /\ OptIdle /\ NssStart /\ SleepIdle
       /\ ReaderNext
       /\ UNCHANGED <<vars, b64vars, uuidvars, aparam, optvars, nssvars, sleepvars, sfvars, nvmvars, nsvars, clvars, csin>>
    \/ CsIdle /\ ClIdle /\ NsIdle /\ ReaderIdle /\ SfIdle /\ TemplateIdle /\ B64Idle /\ UuidIdle /\ AddrIdle /\ OptIdle /\ NssStart /\ SleepIdle
       /\ NvmNext
       /\ UNCHANGED <<vars, b64vars, uuidvars, aparam, optvars, nssvars, sleepvars, sfvars, cfgtext, nsvars, clvars, csin>>
    \/ CsIdle /\ ClIdle /\ NvmIdle /\ ReaderIdle /\ SfIdle /\ TemplateIdle /\ B64Idle /\ UuidIdle /\ AddrIdle /\ OptIdle /\ NssStart /\ SleepIdle
       /\ NsNext
       /\ UNCHANGED <<vars, b64vars, uuidvars, aparam, optvars, nssvars, sleepvars, sfvars, cfgtext, nvmvars, clvars, csin>>
    \/ CsIdle /\ NsIdle /\ NvmIdle /\ ReaderIdle /\ SfIdle /\ TemplateIdle /\ B64Idle /\ UuidIdle /\ AddrIdle /\ OptIdle /\ NssStart
       /\ SleepIdle /\ ClNext
       /\ UNCHANGED <<vars, b64vars, uuidvars, aparam, optvars, nssvars, sleepvars, sfvars, cfgtext, nvmvars, nsvars, csin>>
    \/ ClIdle /\ NsIdle /\ NvmIdle /\ ReaderIdle /\ SfIdle /\ TemplateIdle /\ B64Idle /\ UuidIdle /\ AddrIdle /\ OptIdle
       /\ NssStart /\ SleepIdle /\ CsNext
       /\ UNCHANGED <<vars, b64vars, uuidvars, aparam, optvars, nssvars, sleepvars, sfvars, cfgtext, nvmvars, nsvars, clvars>>

PureSpec == PureInit /\ [][PureNext]_<<vars, b64vars, uuidvars, aparam, optvars, nssvars, sleepvars, sfvars, cfgtext, nvmvars, nsvars, clvars, csin>>

(***************************************************************************)
(* The properties of the helper modules, each evaluated only in the       *)
(* states of its own branch, where its inputs can differ from the start;  *)
(* each states the property of the same name without the prefix.          *)
(***************************************************************************)
\* ext_password_nvos_get() returns every NUL-free password that fits the buffer.
PureGetRecoversPassword == CsIdle /\ ClIdle /\ NsIdle /\ NvmIdle /\ ReaderIdle /\ SfIdle /\ SleepIdle /\ TemplateIdle /\ UuidIdle /\ AddrIdle /\ OptIdle /\ NssIdle => GetRecoversPassword

\* nv_uuid_parse() of nv_uuid_unparse() gives back the uuid.
PureUnparseParses == CsIdle /\ ClIdle /\ NsIdle /\ NvmIdle /\ ReaderIdle /\ SfIdle /\ SleepIdle /\ TemplateIdle /\ B64Idle /\ AddrIdle /\ OptIdle /\ NssIdle => UnparseParses

\* nv_uuid_parse() accepts exactly the canonical form, and unparse prints it back.
PureParseAcceptsCanonical == CsIdle /\ ClIdle /\ NsIdle /\ NvmIdle /\ ReaderIdle /\ SfIdle /\ SleepIdle /\ TemplateIdle /\ B64Idle /\ AddrIdle /\ OptIdle /\ NssIdle => ParseAcceptsCanonical

\* compute_v4_mask() and compute_v4_broadcast() give the prefix mask and the
\* subnet's first and last address.
PureMaskAndBroadcast == CsIdle /\ ClIdle /\ NsIdle /\ NvmIdle /\ ReaderIdle /\ SfIdle /\ SleepIdle /\ TemplateIdle /\ B64Idle /\ UuidIdle /\ OptIdle /\ NssIdle => MaskAndBroadcast

\* do_interface() applies the defaults and the -o options as the spec says
\* wherever a "-o NAME=" removes nothing.
PureOverridesApplied == CsIdle /\ ClIdle /\ NsIdle /\ NvmIdle /\ ReaderIdle /\ SfIdle /\ SleepIdle /\ TemplateIdle /\ B64Idle /\ UuidIdle /\ AddrIdle /\ NssIdle => OverridesApplied

\* Enumerations return the first users and groups of the server's lists.
PureEnumPrefix == CsIdle /\ ClIdle /\ NsIdle /\ NvmIdle /\ ReaderIdle /\ SfIdle /\ SleepIdle /\ TemplateIdle /\ B64Idle /\ UuidIdle /\ AddrIdle /\ OptIdle => EnumPrefix

\* On Solaris an enumeration run to its end returns every user and group.
PureSolarisEnumComplete == CsIdle /\ ClIdle /\ NsIdle /\ NvmIdle /\ ReaderIdle /\ SfIdle /\ SleepIdle /\ TemplateIdle /\ B64Idle /\ UuidIdle /\ AddrIdle /\ OptIdle => SolarisEnumComplete

\* With resume= unset the chosen swap is one of highest priority and most
\* free space.
PureHibernateLocationUnset == CsIdle /\ ClIdle /\ NsIdle /\ NvmIdle /\ ReaderIdle /\ SfIdle /\ TemplateIdle /\ B64Idle /\ UuidIdle /\ AddrIdle /\ OptIdle /\ NssStart
                                  => HibernateLocationUnset

\* ifdown --all takes down the configured interfaces, the last configured first.
PureDownAllOrder == CsIdle /\ ClIdle /\ NsIdle /\ NvmIdle /\ ReaderIdle /\ TemplateIdle /\ B64Idle /\ UuidIdle /\ AddrIdle /\ OptIdle /\ NssStart /\ SleepIdle
                        => DownAllOrder

\* ifquery --state reports exactly the configured interfaces it is given.
PureDoStateAgrees == CsIdle /\ ClIdle /\ NsIdle /\ NvmIdle /\ ReaderIdle /\ TemplateIdle /\ B64Idle /\ UuidIdle /\ AddrIdle /\ OptIdle /\ NssStart /\ SleepIdle
                         => DoStateAgrees

\* read_interfaces_defn() dispatches the logical lines of the file with
\* their line numbers.
PureReaderAgrees == CsIdle /\ ClIdle /\ NsIdle /\ NvmIdle /\ SfIdle /\ TemplateIdle /\ B64Idle /\ UuidIdle /\ AddrIdle /\ OptIdle /\ NssStart /\ SleepIdle
                        => ReaderAgrees

\* nvmore counts every newline of a file in Currline and shows every
\* printable character once, unless a line filled Line.
PureNvmNothingLost == CsIdle /\ ClIdle /\ NsIdle /\ ReaderIdle /\ SfIdle /\ TemplateIdle /\ B64Idle /\ UuidIdle /\ AddrIdle /\ OptIdle /\ NssStart /\ SleepIdle
                          => NvmNothingLost

\* Currline, and the lines saved in screen_start and context, stay the
\* number of newlines before file_pos through any session of commands
\* that searches only for expressions matching no empty line.
PureNvmCurrlineTracks == CsIdle /\ ClIdle /\ NvmIdle /\ ReaderIdle /\ SfIdle /\ TemplateIdle /\ B64Idle /\ UuidIdle /\ AddrIdle /\ OptIdle
                             /\ NssStart /\ SleepIdle => NvmCurrlineTracks

\* do_interface() is called for exactly the interfaces the command line
\* asks for, in order, whatever the order of options and operands.
PureTargetsAsRequested == CsIdle /\ NsIdle /\ NvmIdle /\ ReaderIdle /\ SfIdle /\ TemplateIdle /\ B64Idle /\ UuidIdle /\ AddrIdle /\ OptIdle
                              /\ NssStart /\ SleepIdle => TargetsAsRequested

\* ifup, ifdown and ifquery exit 0 exactly when every call and hook succeeded.
PureExitStatus == CsIdle /\ NsIdle /\ NvmIdle /\ ReaderIdle /\ SfIdle /\ TemplateIdle /\ B64Idle /\ UuidIdle /\ AddrIdle /\ OptIdle
                      /\ NssStart /\ SleepIdle => ExitStatus

\* can_sleep() says yes exactly for an allowed verb the kernel supports,
\* with a swap for anything that hibernates.
PureCanSleepAsDocumented == ClIdle /\ NsIdle /\ NvmIdle /\ ReaderIdle /\ SfIdle /\ TemplateIdle /\ B64Idle /\ UuidIdle /\ AddrIdle
                                /\ OptIdle /\ NssStart /\ SleepIdle => CanSleepAsDocumented
====
