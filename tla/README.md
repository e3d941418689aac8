# TLA+ models of pluribus_linux_userland

The TLA+ modules in this directory model the parts of this repository
where concurrency, crashes and ordering matter. The centre of the project is the
ifupdown engine (`src/components/ifupdown`). Several `ifup`/`ifdown`
processes can run at once, and they coordinate only through
`fcntl` locks, files under `/run/network` and environment variables.

## 1. Inventory

### Parts of the system and how they interact

| Part | Source | State | Operations |
|---|---|---|---|
| Lifecycle controller | `main.c` `do_interface`, `main` | per process: command, `iface`/`liface`, `current_state`, `okay`, `failed`, `success` | the stages of `do_interface`: filter, existence check, recursion guard, parent lock, interface lock, no-op exits, state pre-write, link up, stanza loop, link down, final state write, lock release |
| State store | `main.c` `lock_interface`, `is_locked`, `update_state`, `lock_state`, `read_all_state` | a lock file `ifstate.<iface>` per interface, whose content is the current logical name; the statefile of `iface=liface` lines; the global lock | lock an interface and read its state; test a lock (`F_GETLK`); write the lock file, then rewrite the statefile through a temporary file and `rename` under the global lock |
| Execution driver | `execute.c` `doit`, `set_environ`, `iface_preup/postup/predown/postdown`, `execute_options`, `execute_scripts` | `localenv`, `ignore_failures`, the pidfile `ifup-<iface>.pid` | run a command: `setpgid(0,0)`, `fork`, `/bin/sh -c`, `waitpid`. Set `IFUPDOWN_<iface>=<phase>` and `IFUPDOWN_<parent>=parent-lock`. SIGTERM the process group named in the pidfile before `down` |
| Template expander | `execute.c` `parse`, `get_var`, `var_true`, `var_set` | none (pure) | expand `%var%`, `%var/p/r%`, `\x` and optional `[[ ]]` segments (depth at most `MAX_OPT_DEPTH`) |
| Mapping scripts | `execute.c` `run_mapping`, `popen2` | none | run a script that maps a physical name to a logical one |
| Configuration parser | `config.c` | the parsed `interfaces_file`; the process-wide `seen_files` list; the line buffer of `get_line` and its size | read logical lines (`get_line`, `next_word`); `iface`, `inherits`, `mapping`, `auto`, `allow-*`, `source`, `source-dir`, option lines, `set_variable` |
| Command line and selection | `main.c` `main`, `determine_command`, `parse_options`, `parse_environment_variables`, `select_interfaces`, `ignore_interface`, `do_state`, `do_pre_all`/`do_post_all` | option globals, `cmds`, the target list | name the command after `argv[0]`, parse the options, choose the target interfaces (operands, or the allow-up group or statefile for `--all`/`--list`), run the `--all` meta interface's hooks around the loop of `do_interface` calls, and turn their results into the exit status |
| Address helpers | `archcommon.c`, `archlinux.c` | none (pure) | netmask and broadcast computation; the kernel version encoding `mylinux` |
| uuid codec | `libnvutil/nv_uuid_linux.c` | none | parse and unparse; generate a version-4 uuid |
| base64 decoder | `wpa_supplicant/.../ext_password_nvos.c` | none | `nv_base64_decode` |
| nss_nvos | `nss_nvos.c`, `nss_linux_nvos.c`, `nss_solaris_nvos.c` | the enumeration backend: the user array and index, the group list and iterator (one static `g_backend` for both databases on Linux, one backend per database on Solaris) | set/get/end of the passwd and group enumerations; by-name and by-id lookups |
| Hibernation swap choice | systemd `shared/sleep-config.c` `find_hibernate_location`, `enough_swap_for_hibernation` | none (reads `/proc/swaps`, `/sys/power/resume*`, `/proc/meminfo`) | pick the swap to hibernate to and decide whether it holds the image |
| Sleep verb check | systemd `shared/sleep-config.c` `parse_sleep_config`, `sleep_settings`, `can_sleep_state`, `can_sleep_disk`, `can_s2h`, `can_sleep_internal`, `can_sleep` | none (reads `sleep.conf`, `/sys/power/state`, `/sys/power/disk`, the alarm clock) | apply the `sleep.conf` defaults and decide whether suspend, hibernate, hybrid-sleep or suspend-then-hibernate can be used |
| nvmore pager, reading side | `libnvmore/nvmore.c` `nvm_getline`, `screen`, `argscan`, the file loop of `main` | `Line[LINSIZ]`, the static `colflg` and `prev_len`, `Currline`, `Pause`, the option flags | read one screen line (fold at `Mcol`, tabs, backspaces, `\r\n`, `^L`, `-r`'s `^X`), show it unless `-s` squeezes it, open the next file |
| nvmore pager, sessions | `libnvmore/nvmore.c` the file loop of `main`, `checkf`, `screen`, `command`, `colon`, `search`, `skiplns`, `skipf`, `rdline` | `fnum`, `firstf`, `file_pos`, `Currline`, the marks `screen_start` and `context`, `dlines`, `nscroll`, `lastcmd`/`lastarg`/`lastcolon`, `search`'s static `have_re` and `lastbuf` | open each file, show a screenful, prompt, and move in or between files by key command |
| getpass, netinet, the rest of nvmore, `read_fiemap` of sleep-config, pyfixbuf | see PROJECT.json | I/O | glue and terminal or configuration I/O |

How the parts interact:
- An `ifup`/`ifdown` process holds the lock of its interface, and of
  the parent of a VLAN interface (`eth0` for `eth0.10`), from the
  existence check to the end of `do_interface`.
- Its hook commands (`up ifup br0`, run-parts scripts) run as
  children with `IFUPDOWN_<iface>` set, and they may start nested
  `ifup`/`ifdown` processes.
- A nested process fails at once (the recursion guard) when the marker
  of its interface, or of its VLAN parent, is set and that lock is held.
- `ifdown` reads the pidfile an `ifup` leaves while its commands run,
  and SIGTERMs that process group.

### Hard behaviours

- Interleavings of concurrent processes on the same interface, or on a
  VLAN and its parent.
- Nested invocations from hook commands, and lock waits (`F_SETLKW`,
  with no timeout) that can form a cycle.
- Crashes (SIGKILL, OOM) at any point: the kernel drops the `fcntl`
  locks, while the files stay half-written.
- Pid reuse: the pidfile names a pid, and a SIGTERM goes to whichever
  process group now has that id.
- Partial failures: the link command, one stanza of several, a hook's
  nested call, or the required-variable check (`-1`) can each fail.

### Properties per part

- Lifecycle controller and state store:
  - No process waits on itself (`NoWaitCycle`).
  - Related interfaces are never configured at once (`ExclusiveConfiguration`).
  - The lock file and the statefile agree once unlocked (`StateFilesAgree`).
  - The processes implement the abstract state machine `IfState` (`RefinesIfState`).
  - Every started process finishes (`Termination`).
- Execution driver: `ifdown`'s SIGTERM reaches only an `ifup` of the same interface (`KillOnlyOwnIfup`).
- Template expander: `parse()` agrees with a reference semantics written from the grammar (`ParseMatchesGrammar`), never writes through a NULL result (`NoNullWrite`), and expands every set variable (`SetVariablesExpand`).
- Configuration parser: every stanza has a family and a method (`StanzasResolved`), the parse returns (`ParseCompletes`), and an error anywhere aborts it (`ErrorAborts`). Its line reader hands the parser exactly the logical lines of the file with their line numbers, whatever its growing buffer does (`ReaderAgrees`).
- Address helpers and codecs: agreement with reference definitions at the numeric edges (`MC_Pure`).
- Option handling of `do_interface`: the method defaults and `-o` options reach the method as the spec says (`OverridesApplied`).
- nss_nvos: enumerations return the server's entries in order, never a wrong or repeated one (`EnumPrefix`), and, with a backend per database, all of them (`SolarisEnumComplete`).
- Statefile text: the file `update_state` rewrites reads back, for `ifdown --all`, as the configured interfaces with their logical names, the last configured first (`DownAllOrder`), and `ifquery --state` reports exactly the configured names it is given, `eth0` never taken for `eth0.1` (`DoStateAgrees`).
- nvmore: in every file in which no line filled `Line`, `Currline` at EOF counts every newline and every printable character is shown once, across folding, `\r\n`, the newline eaten after a line at the margin and `-s` (`NvmNothingLost`); and through any session of key commands that searches only for expressions matching no empty line, `Currline`, and the lines saved in `screen_start` and `context`, stay the number of newlines before `file_pos` (`NvmCurrlineTracks`).
- Command line: `do_interface` is called for exactly the interfaces the command line asks for, in order, whatever the order of options, operands and `--` (`TargetsAsRequested`), and the exit status is 0 exactly when every call and every `--all` hook succeeded (`ExitStatus`).
- Sleep verb check: `can_sleep` says yes exactly for an allowed verb the kernel supports, with a swap for anything that hibernates, and `-ENOSPC` for hibernate and hybrid-sleep that lack only the swap (`CanSleepAsDocumented`).
- Hibernation swap: with `resume=` unset the walk selects the maximum over all of `/proc/swaps` (`HibernateLocationUnset`).

## 2. Plan

The most important behaviour is modelled first: the lifecycle, locks and
state of concurrent processes.

1. **`Ifupdown.tla`** (done): the controller, state store and execution
   driver, as one module, because their steps interleave on shared files.
   **`IfState.tla`** (done) is the abstract specification it refines.
   **`MC_Ifupdown.tla`** holds the TLC instances.
2. Mapping stanzas (done, as the `Mapping` stage). Next: `ifquery` (list
   and query, run without locks) and `-a` with the meta interface, as
   extra stages of `Ifupdown`.
3. `TemplateParse.tla` (done): `parse()` as a RECURSIVE operator over
   token sequences, checked against a reference semantics written from the
   grammar, with the `MAX_OPT_DEPTH` edges.
4. `ConfigParser.tla` (done): source recursion over an abstract graph of
   files, the `already_seen` list, `inherits` and option accumulation.
   Still to do: `convert_variables()`.
5. `AddrHelpers.tla`, `UuidCodec.tla`, `Base64Decode.tla` (done): pure
   operators checked against reference definitions over bounded inputs,
   in one run with the template expander (`MC_Pure`).
6. `OptionOverrides.tla` (done): the `-o` parsing of `parse_options` and
   the default injection and override loop of `do_interface`, checked
   against the spec's semantics in `MC_Pure`.
7. `NssNvos.tla` (done): the passwd and group enumerations of the name
   service module on both ports, with the server's failures and the
   caller's buffer sizes, in `MC_Pure`.
8. `SleepConfig.tla` (done): systemd's walk of `/proc/swaps` for the
   hibernation swap and the swap-space check, in `MC_Pure`.
9. `StateFile.tla` (done): the statefile as text, as `update_state`,
   `read_all_state` and `do_state` read and write it, in `MC_Pure`.
10. `ConfigReader.tla` (done): `get_line` and `next_word`, the reader
    under the configuration parser, against a reference reading of
    interfaces(5), in `MC_Pure`.
11. `NvmGetline.tla` (done): the reading side of the nvmore pager,
    `nvm_getline` under `screen` and the file loop, in `MC_Pure`.
12. `NvmSession.tla` (done): the nvmore file loop, prompts and key
    commands over `NvmGetline`, in `MC_Pure`.
13. `Cmdline.tla` (done): `main`, `parse_options` and
    `select_interfaces` of ifupdown, in `MC_Pure`.
14. `CanSleep.tla` (done): the `sleep.conf` defaults and
    `can_sleep`, over `SleepConfig`'s swap check, in `MC_Pure`.

## 3. Modules

### `Ifupdown.tla`: controller, state store and command runner

A process is a slot of the constant set `Procs`, and its slot is its pid.
`Reap` and `ChildExit` free a slot, and `Invoke` or `Spawn` reuse it,
which is how the model has pid reuse. `pc[p]` names the stage of
`do_interface` that `p` is in:

| Action | Code |
|---|---|
| `Invoke(p, c)` | `main`: a user or an init script starts `ifup`/`ifdown` |
| `Check(p)` | `ignore_interface` (a success with nothing done), the "Unknown interface" check, the recursion guards on the interface and on the VLAN parent (`main.c` 788-840, 847-852) |
| `LockParent(p)` | `lock_interface(piface, NULL)`: `F_SETLK`, then `F_SETLKW` |
| `LockIface(p)` | `lock_interface(iface, &current_state)`, then the no-op exits; `ifdown` takes `liface` from the recorded state |
| `Mapping(p)` | the mapping stanzas, in file order, for `ifup`: each stanza that matches the current logical name runs its script, whose output line becomes the logical name; a failed script ends the call with failure (`main.c` 900-927, `run_mapping`) |
| `PreWrite(p)`, `PreState(p)` | the two halves of `update_state(iface, liface or NULL)` before the commands: the lock file, then the statefile under the global lock |
| `LinkUp(p)` | the link method's up on the first stanza; its failure leaves the loop with `okay` false |
| `Predown(p)` | `iface_predown`'s pidfile read, `kill(-pid, SIGTERM)` and unlink |
| `Family(p)` | one `iface` stanza: `okay = true`, the `ifup` pidfile is written, and the method's check may return `-1` |
| `Commands(p)`, `Spawn(p, q, c)`, `ChildExit(p, q)` | the stanza's commands: one outcome, or a hook that runs the nested call `c` in slot `q` (`doit`: `setpgid`, `fork`, `waitpid`, `ignore_failures` for `ifdown`) |
| `FamEnd(p)` | the pidfile unlink, the break on failure, the next stanza |
| `LinkDown(p)` | the link method's down for `ifdown`; its failure is `goto end` with failure |
| `FinalWrite(p)`, `FinalState(p)` | the final `update_state` (`main.c` 1132-1157) with its three outcomes |
| `End(p)` | `fclose` of both lock files |
| `Reap(p)` | the process exits |
| `Crash(p)` | an abnormal death, bounded by `MaxCrashes`: locks dropped, files left as they are |

How the data is abstracted:
- Interfaces are strings; a logical interface stands for its stanzas,
  and `NFams[l]` is their number.
- A stanza's commands are one step that succeeds or fails, or that runs
  one nested call from `HookCalls[iface]`.
- `Excluded` stands for the `--exclude`/`--allow` filters.
- `LinkCanFail` says whether the link method's command may fail.
- The environment is the set `env[p]` of interfaces with an
  `IFUPDOWN_` marker.

### `IfState.tla`: what an invocation promises

The abstract state is the recorded logical name of each interface,
plus a status and a request per process. `Resolve[l]` holds the names the mapping stanzas may turn `l`
into, computed by the RECURSIVE `MapFrom` of `Ifupdown`. An invocation
completes in one step, in one of these ways:
- it is refused and changes nothing;
- it succeeds on an excluded interface and changes nothing;
- an `ifup` without `--force` of a configured interface is a no-op;
- an `ifup` records one of the names in `Resolve` of its logical name on
  success, or records nothing on failure;
- an `ifdown` clears the record, whatever its result.

`MC_Ifupdown` maps the detailed state onto it:
- While a process is between its interface lock and its final write,
  the interface's record is the `current_state` that process read;
  otherwise it is the statefile's line.
- A process's status is pending until it has written its final state
  or left at an early exit.

### `MC_Ifupdown.tla`

The interfaces are:
- `eth0`, with two stanzas (inet and inet6);
- its VLAN `eth0.10`, with one stanza;
- `wlan0`, which is excluded in most runs.

The hooks of `eth0` run `ifup eth0.10`, and those of `eth0.10` run
`ifup eth0`. These are the nested calls the recursion guard exists for.
A mapping stanza may turn the VLAN's logical name into `guest`; it is
used in the refinement run only, where it matters. The top-level calls are `ifup`/`ifdown` of `eth0` and `eth0.10`, a
forced `ifup eth0.10`, and `ifup wlan0`.

### `TemplateParse.tla`: the template expander

`parse()` is pure, so the module is a RECURSIVE operator `Scan` over a
template given as a sequence of characters. Its parser state is a record
with the fields of the C locals: `i` (the read position), `out` (the
result so far), `alloc` (whether `result` has been allocated), `depth`,
`old_pos` and `okay` (the stacks for `[[ ]]`).

| Definition | Code (`execute.c`) |
|---|---|
| `addstr` | `addstr()`: the first call allocates `result` |
| `OpenOpt`, `CloseOpt` | the `[[` and `]]` cases: push the position and `okay`; pop, and cut `result` back to `old_pos` when the segment had an unset variable |
| `Variable` | the `%` case: name lookup with `get_var`, and the `/p/r` substitution |
| `ParseStep`, `ParseEnd` | one turn of the loop; the end of the loop, with a NULL return for an empty result |
| `get_var` | `get_var()`: `iface` is the real interface; an empty value counts as unset |

`Variable` tests `*(nextpercent-4)=='/'` the way the code does, without
checking that the name is 4 bytes long. For a short name at the start of
the template, this reads before the buffer. The model takes that byte
as a nondeterministic choice between `/` and anything else.

The reference side, `Expand`, is written from the grammar: variables,
escapes and optional segments that vanish when they hold an unset
variable. The state machine `Extend` only enumerates templates: it
appends one of `Tokens` until `MaxTokens`. Every invariant is evaluated
on every template. `MC_TemplateParse` sets one option with a value, one
empty option, and the real interface name.

### `ConfigParser.tla`: the configuration parser

`read_interfaces()` and the recursion of `read_interfaces_defn()` run
over abstract files. Lines come already split into words, as records
`[kw, args]`. `content[f]` is chosen in `Init` from `Contents[f]`. The
other state variables are:
- `stack`: one frame per open file, with its spelling, its line,
  `currently_processing`, `currif`, `currmap`, and the files still to
  read for a `source` line;
- `seen`: the `seen_files` list;
- `ifaces`, `mappings`, `allowups` and `lists`: the `interfaces_file`
  being built;
- `noLoopback`;
- `result`: running, `ok` or `fail`;
- `erred`: whether any line was rejected.

| Action | Code (`config.c`) |
|---|---|
| `Start` | `read_interfaces`: `lo` joins `auto`, then the root is read |
| `SourceNext` via `Call` | one file of a `source`/`source-dir` line: `already_seen`, then `fopen` (missing, or past `MaxOpen` for EMFILE) |
| `EndOfFile` | the end of a file |
| `HMapping`, `HSource`, `HSourceDir`, `HIface`, `HAllow`, `HList` | the keyword branches of the line loop |
| `HOption`, `HMapOption`, `HMisplaced` | an option line under `IFACE`, under `MAPPING`, or outside any stanza |
| `Reject` | any `return NULL`: the frame is dropped, and the caller ignores it unless it is `read_interfaces` |
| `Finish` | the synthetic `lo` stanza, prepended, and `clear_seen` |

A spelling is a sequence of path components. `HSource` and
`HSourceDir` build the pattern as the code does: `dirname` of the
current spelling, `/`, then the words of the line, unless they start
with `/`. `wordexp` expands a wildcard last component through the
constant `Glob`. `source-dir` reads, for each directory the pattern
expands to, the entries of `DirEntries` that `directory_filter`
accepts. `FileOf` maps a spelling to the file `fopen` opens; `.`
components do not change the file, but they do change the spelling
that `already_seen` compares.

`MC_ConfigParser` has three files: the root R, a file A and a file B.
- The root is `n/interfaces`. It sources A as `a*` (which also expands
  to a missing name) or as `./a`, and sources itself.
- A sources the root back, or itself as `./a`, and reads B by
  `source-dir d*`, next to an entry `d/b~` that `directory_filter`
  rejects.
- `source ./a` in A grows the spelling on every level (`n/./a`,
  `n/././a`, ...), so `already_seen` never stops it, and the recursion
  ends only at EMFILE. The hazard at `config.c:317` records the trace.
- Their contents between them reach every branch and every error exit.
- `MaxOpen` is 2, so the third nested file hits EMFILE.

### The pure helpers and `MC_Pure.tla`

Three more modules model pure conversions. Characters and bytes are
numbers, and each conversion is modelled by what it computes.

- `Base64Decode.tla` covers `ext_password_nvos.c`.
  - `decode64_sextet` maps a character code to its value.
  - `DecodeFrom` is one pass of the `while` loop of `nv_base64_decode`:
    two sextets, then two positions that are each `=`, a sextet or the
    end. `WriteGroup` applies the three bound-checked writes.
  - The result keeps the bytes written, even on failure, because
    `ext_password_nvos_get` ignores the return value and takes `strlen`
    of the buffer.
  - The reference `Encode` is RFC 4648 base64 with padding.
- `UuidCodec.tla` covers `nv_uuid_linux.c`.
  - `string_to_struct` and `struct_to_string` pack and unpack the bytes.
  - `nv_uuid_unparse` prints with `%0Nx`.
  - `nv_uuid_parse` applies the sanity checks, then `strtoul` runs
    (`HexRun`) and the node loop.
  - TLC integers are 31-bit, so `time_low` is kept as its two 16-bit
    halves.
- `AddrHelpers.tla` covers `archcommon.c`.
  - `compute_v4_mask` handles classful defaults, widths (the shift
    `~((1L << (32-w)) - 1)`, computed byte by byte) and dotted masks.
  - `compute_v4_broadcast` handles `+` and `-` with the `/31` case.
  - The reference works on the 32 bits of an address.

`OptionOverrides.tla` covers the options `do_interface` hands a method
(`main.c` 998-1037).
- An option list is a sequence of `[name, value]` records.
- `set_variable` appends a hook and replaces any other option's value.
- `ParseOption` is `parse_options`' `-o` case: `post-up` is renamed to
  `up` and `pre-down` to `down`, then the option is collected into the
  global `option[]`, one entry per name.
- `InjectDefaults` adds each method default the stanza lacks.
- `OverridesFrom` is the override loop, written over both arrays
  because the code writes to the global one while iterating over it.
  For `-o NAME=` where NAME is found, it drops currif's *last* option
  and shifts the global array, as `main.c` 1022-1029 do. `Uninit`
  stands for the memory read past the array's end.
- The reference `SpecOptions` applies the defaults, then each `-o`
  argument in command-line order. It sets the option, or removes it
  when VALUE is empty and NAME is not a hook.
- `Effect` compares what a method can tell apart: each option's value,
  and the hooks in order. The global array keeps a name at its first
  `-o` position, so the order of non-hook options differs from the
  reference, and nothing reads that order.

`NssNvos.tla` covers the enumerations of the nvOS name service module.
- The variables are the fields of the backend: whether the user array
  is held (`info`), its `index`, the group list (`groups`) and the
  iterator position (`gpos`, 0 for NULL). `platform` is chosen in
  `Init`.
  - On Linux these fields are the one static `g_backend`.
  - On Solaris, `info` and `index` belong to the passwd backend and
    `groups` and `gpos` to the group backend, and no action of one
    touches the other's fields.
- There is one action per entry point and port: `LinuxSetPwEnt`,
  `LinuxEndGrEnt`, `SolGetEnt`, `SolGroupGetEnt` and the others.
  - Each action keeps its function's order. For example, the user
    index is advanced before the conversion, and the Linux group
    iterator only after a successful copy.
  - Each action keeps its function's reach. For example, the Linux
    `endgrent` and `setpwent` `bzero` the shared backend.
- `pw` and `gr` are the C library's side. Each runs set, then get until
  NOTFOUND or an error, then end, and the two databases interleave
  freely.
  - A Linux `TRYAGAIN` is retried, as glibc does with a larger buffer.
- The server is nondeterministic. `nvos_nss_userop_getinfo` may fail,
  and `FetchedGroups(k)` is the list after the server failed past `k`
  callbacks. Groups without a name or gid are dropped.
- The conversions are modelled by what they do with sizes:
  - `user_to_passwd_ent` snprintf-truncates the line, then tokenises it;
  - `copy_group` makes its `buf_alloc` requests: the name, the pointer
    array and each member, as the `strtok` split `StrTok` gives them;
  - `user_to_ent` and `group_to_ent` need the line and its NUL.

`SleepConfig.tla` covers systemd's choice of the hibernation swap.
- A line of `/proc/swaps` is a record: its class for the loop (file,
  partition, or one of the skipped kinds: unparsed, deleted file, zram,
  other type), priority, size, used space, the device number and, for a
  file, the first-extent offset. A failing device or offset query is
  `Err`; `UMax` stands for the `UINT64_MAX` offset of a Btrfs file.
- `FindFrom` is the `for` loop, one RECURSIVE call per line, keeping the
  code's order: the offset query before the filters, the two filters
  against the running candidate, the device query for a new candidate,
  and the resume match that ends the loop. `HibernateResult` is the code
  after the loop (no candidate, no match for a set `resume=`, the offset
  substitution). `enough_swap_for_hibernation` compares the chosen
  swap's free space with `Active(anon)` and its 2% margin.
- The variables `sysres` (what `read_resume_files` read) and `swaps`
  (the lines, appended one at a time) are the inputs.

`StateFile.tla` covers the statefile as text. `Ifupdown.tla` treats it
as a set of records and checks the locking around it.
- The file is a sequence of one-character strings, and names are
  sequences of them. `Chunks` gives the pieces that `fgets` reads into a
  buffer of `BufSize` bytes, and `strip` is the code's `strip`, which
  never cuts the first character.
- `update_state` is the rewrite loop: replace the first line of the
  interface in place, drop its other lines (or all of them for a NULL
  state), copy every other piece back as a line, and append a state not
  yet written. `read_all_state` reverses the pieces, and `do_state`
  looks each target up by prefix and `'='`.
- The action `UpdateState` is a call of `do_interface`, with the
  interface and either a logical name or NULL. The variable `up` is the
  reference: the configured interfaces in the order of their first
  configuration, kept as records. `overlong` records that a call wrote a
  line that does not fit the buffer with its newline.

`ConfigReader.tla` covers the line reader of the configuration parser
(`config.c` 30-133 and the loop at 423).
- The file is a sequence of one-character strings. `Fgets` is one
  `fgets` call, and `ReadPhys` the inner `do`-`while` of `get_line`: it
  grows the buffer to `len * 2 + GrowBy` when fewer than `MinRoom` bytes
  are left, and reads on while the buffer is full and does not end in a
  newline. The buffer size and the line counter are carried from call
  to call, as the caller's `buf_len` and `line` are.
- Each loop is split in two operators: one makes the call
  (`ReadPhys`, `Continue`, `get_line`, `ReadLoop`) and one takes its
  result as a parameter (`AfterFgets`, `ContinueWith`, `GetLineFrom`,
  `LoopBody`). That way, each result is computed once, not at every
  use. TLC's coverage mode otherwise spends minutes expanding the
  nested LETs before the first state.
- `get_line` skips comment lines (after their leading blanks), then
  `Continue` joins continuation lines, then trailing blanks are cut.
  `next_word` returns the first word, truncated to `maxlen - 1`
  characters, and whether its terminator was written.
- `read_interfaces_lines` is the loop of `read_interfaces_defn`: the
  line number, first word and rest of each non-blank line.
- The reference splits the file into physical lines, drops those whose
  first non-blank character is `#`, joins each line ending in a
  backslash with the next, and trims the result. It takes comments per
  physical line, as interfaces(5) says ("lines starting with `#`");
  spec.md lists the merge first, which reads the same except for a
  comment line that ends in a backslash.
- `AddChar` writes the file one character at a time.

`NvmGetline.tla` covers the reading side of the nvmore pager
(`nvmore.c` 761-891, the reading loop of `screen` 537-563, `argscan`
449-488, and the file loop of `main` 378-440).
- Characters are names: `"a"` printable, `"TAB"`, `"BS"`, `"CR"`,
  `"NL"`, `"FF"`, and `"FEND"`, the end of one file of the command line.
  `Line` is the sequence written from `Line[0]`; the ghost `hi` is the
  highest index written, `filled` that the loop stopped on its bound.
- `NvmLoop` is the `while` loop up to the store, `Column` the else-if
  chain after `*p++ = c`, `NvmStored` the folding test and the next
  `Getc`, `Finish` the code after the loop (the `'\n'` for a terminal
  without `am`, `colflg`, the xenl newline, `*p = 0`). `NvmStart` eats
  a newline after a line at the margin. The loops take their results as
  parameters, as in `ConfigReader`.
- `NvmScreen`/`NvmShow` are the reading loop of `screen` with `-s`
  and the static `prev_len`, and the opening of the next file, which
  sets `Currline` to 0 and keeps `colflg`. Prompts and key commands
  come between screens and do not change how a line is read; they are
  left out.
- `NvmSetup` reads the terminal (`initterm`) and applies `argscan` to
  an option string, before the first file.
- `NvmNothingLost` compares, per file, `Currline` at EOF with the
  newlines of the file and the `"a"` characters shown with those of the
  file, for files in which no line filled `Line`.

`NvmSession.tla` extends `NvmGetline` with a session over a list of
files (`nvmore.c` the file loop of `main` 378-441, `checkf` 489-527,
`screen` 530-598, `command` 1016-1254, `colon` 1256-1295, `search`
1328-1414, `skiplns`, `skipf`, `rdline`).
- `file_pos` is kept as the macros keep it: each `Getc` adds one, also
  the one that returns EOF, each `Ungetc` and `Fseek` sets it back.
  `Unread` is what the next `Getc` reads.
- `nsmode` is where control is: `"open"` (the head of the file loop,
  `checkf`), `"screen"`, `"cmd"` (the prompt inside `screen`),
  `"startcmd"` (the prompt before a file that is not the first),
  `"close"` and `"done"` (`end_it`). `NsArgs` takes the file list.
- `NsScreen` is one pass of `screen`'s loop: lines through
  `nvm_getline` until `num_lines` are shown, `Pause` is set or EOF,
  then the peek with `Getc`/`Ungetc`.
- `NsCommand` reads a count and a key (`number`), resolves `.` to the
  last command, records `lastcmd`/`lastarg`/`lastcolon`, and takes one
  `Cmd...` action per case of the `switch`. `Return` is what `main` or
  `screen` do with `command`'s value: 0 ends the file; otherwise it is
  the next `num_lines`, cut to `Lpp - 4` before a file when names are
  printed, and `screen` saves `screen_start`. `Stay` is a command that
  keeps the prompt: `=`, an unknown key, and `error()`, whose
  `longjmp` returns to the `setjmp` just before the same prompt.
- `search` is the loop with `line1..line3` and `lncount`;
  `Backoff` is `Currline -= (lncount >= 3 ? 3 : lncount)`. A regular
  expression is one character (`Matches`); `""` is the empty input,
  which compiles `lastbuf`.
- `NvmCurrlineTracks`: while a file is being shown, `Currline` is the
  number of newlines before `file_pos`, and so is the line saved with
  each of `screen_start` and `context`. It is stated for files whose
  lines end with a newline and fit `Line` (`WellFormed`), and checked
  with expressions that match no empty line; the hazard at
  `nvmore.c:1381` gives the traces outside those conditions.

`Cmdline.tla` models the front end of `ifup`, `ifdown` and `ifquery`
(`main.c` `main` 1169-1197, `determine_command` 395-415,
`parse_options` 461-603, `parse_environment_variables` 437-459,
`select_interfaces` 639-677, `do_pre_all`/`do_post_all` 688-720).
- An argument is a record: an option with the name `getopt_long`
  maps it to and its argument, an operand (`"word"`), or `"--"`.
  `ClOption` is one return of `getopt_long`: GNU's permutation sets an
  operand aside, `"--"` makes the rest operands, and an option runs
  its case of the `switch` (`Option`). `usage()` exits 1, `help()` and
  `version()` 0 (`Quit`).
- `do_interface` is `Ifupdown`'s controller; here its result is a free
  boolean, as are the hooks of the meta interface and whether the
  interfaces file can be read. `do_state` is `StateFile`'s, `-o` is
  `OptionOverrides`' `ParseOption`.
- `TargetsAsRequested` compares the calls made with a reference
  reading of the command line (`Requested`): the operands wherever
  they stand, else the allow-up group of the last `--allow` (`auto`
  without one), or the statefile's lines for `ifdown --all`.
- `ExitStatus` relates the exit code to the results of every call and
  hook; it would fail for a loop that kept only the last result.

`CanSleep.tla` extends `SleepConfig` with the decision of
`can_sleep` (`sleep-config.c` 36-159, 577-679).
- `parse_sleep_config` applies the defaults: every `Allow...=` is yes
  unless set to no, the two combined verbs follow suspend and
  hibernate, and an unset or empty list takes its default.
- A `/sys/power` file is unreadable (`ok` false) or a list of words; a
  word of `/sys/power/disk` is marked `br` when it is the bracketed
  current mode.
- `can_s2h` asks for suspend and hibernate without their `Allow...=`
  settings. A negative result other than `-ENOSPC` and `-EADV` would be
  returned as an errno through a `bool`, that is as yes: the model
  keeps that conversion, and `CanSleepAsDocumented` fails if `-ENOSPC`
  is missing from the `IN_SET`.
- `sleep_settings` ends with a test of the output pointers, which are
  never NULL, so it never fails; `enough_swap_for_hibernation` is
  `SleepConfig`'s, over one enumerated swap table.

`MC_Pure` composes these twelve with `MC_TemplateParse`.
- Each module enumerates its inputs with its own variables: a sequence
  grown one element at a time, or one position changed at a time.
- A branch moves only while the other branches are at their start, so
  the state space is the sum of the thirteen, not their product. The name
  service branch starts on either platform, and the others move only
  from its Linux start.
- The helpers' properties are checked through `Pure...` wrappers. Each
  one is evaluated only in its own branch's states; in every other
  state its inputs are at their start.
- In `PureNext` each branch's idle guards come before its action, so a
  state of one branch does not enumerate the others' steps.

## 4. Runs

| Run | Expect | Checks | Shows |
|---|---|---|---|
| `lifecycle` | pass | `TypeOK`, `NoWaitCycle`, `ExclusiveConfiguration` | 3 slots, 3 starts, failing links, one crash: no process waits on itself through locks and `waitpid`; no VLAN is configured while its parent is (176,391 states) |
| `refinement` | pass | `StateFilesAgree`, `RefinesIfState` | with no crash, a link that comes up and a mapping stanza, 3 slots and 4 starts implement `IfState`, and the two state records agree (329,501 states) |
| `liveness` | pass | `Termination` | 2 slots, 3 starts, failing links, one crash: every process finishes (103,273 states) |
| `cross_hooks` | violation | `NoWaitCycle` | `ifup eth0` and `ifup wlan0` whose hooks bring up each other deadlock: 4 processes in a wait cycle |
| `crash_state` | violation | `StateFilesAgree` | a crash between the two halves of `update_state` leaves the lock file and the statefile disagreeing |
| `stale_pidfile` | violation | `KillOnlyOwnIfup` | after an `ifup` dies with its pidfile written, `ifdown` SIGTERMs whichever process group reuses that pid |
| `link_failure` | violation | `RefinesIfState` | an `ifup` whose link command fails records nothing and returns success |
| `pure` | pass | `TypeOK`, `ParseMatchesGrammar`, `PureGetRecoversPassword`, `PureUnparseParses`, `PureParseAcceptsCanonical`, `PureMaskAndBroadcast`, `PureOverridesApplied`, `PureEnumPrefix`, `PureSolarisEnumComplete`, `PureHibernateLocationUnset`, `PureDownAllOrder`, `PureDoStateAgrees`, `PureReaderAgrees`, `PureNvmNothingLost`, `PureNvmCurrlineTracks`, `PureTargetsAsRequested`, `PureExitStatus`, `PureCanSleepAsDocumented` | every template of up to 5 of 12 tokens expands as the grammar says, except at the two faults below; the base64 backend returns every password that fits, up to one that fills its buffer; the uuid codec round-trips both ways; the netmask and broadcast helpers give the prefix mask and the subnet's ends; `do_interface` applies defaults and `-o` options as the spec says wherever a `-o NAME=` removes nothing; name service enumerations return a prefix of the server's lists on both ports, and all of them on Solaris; with `resume=` unset the hibernation swap is one of highest priority and most free space; the statefile text reads back as the configured interfaces, last first, and `ifquery --state` reports exactly them; the configuration reader hands the parser the file's logical lines with their numbers; nvmore counts every newline of a file and shows every printable character once unless a line filled `Line`; in a session of nvmore key commands searching for expressions that match no empty line, `Currline` and the saved marks stay in step with `file_pos`; `ifup`, `ifdown` and `ifquery` call `do_interface` for exactly the interfaces asked for and exit 0 only when every call and hook succeeded; `can_sleep` answers as `sleep.conf(5)` and the swap check say (808,882 states in all) |
| `null_write` | violation | `NoNullWrite` | `[[%c%]]`, with `c` unset: `]]` writes `result[pos]` while `result` is still NULL |
| `short_name` | violation | `SetVariablesExpand` | `%a%` at the start of the template: the `/` test reads before the buffer, and a set variable may expand to nothing |
| `config` | pass | `TypeOK`, `StanzasResolved`, `ParseCompletes` | over every choice of contents, with mutual sourcing and sourcing under growing spellings, the open-file limit holds, every stanza is resolved and the parse returns (1,206 states) |
| `nested_error` | violation | `ErrorAborts` | a rejected line in a sourced file ends only that file; `read_interfaces` still returns a defn |

PROJECT.json records what each violation shows ("findings"), and a
mutant for every property of a passing run. Each mutant is a plausible
bug in a mapped definition that TLC must catch:
- the VLAN test on `piface` is dropped, or always true;
- the recursion guard is missing;
- the rewrite does not drop the line of a downed interface;
- the failed-ifup exit falls through to success;
- `set_environ` does not set the parent-lock marker;
- `]]` does not reset `okay`; the loop does not stop at the NUL;
- the file limit is off by one;
- an unresolved method is accepted; a `source` loop does not advance.

### Bounds

Why the bounds are enough:
- Three slots and three or four starts give every case worth checking:
  - a top-level process with a nested call plus a concurrent one;
  - a crashed process whose slot is reused;
  - a VLAN and its parent in flight together.
- The cross-hook cycle needs four processes, and its run has four slots.
- Two stanzas on `eth0` exercise the loop and its break on failure.
- One crash is enough to leave every half-written state. A second crash
  only repeats the first on another slot.
- Process slots are model values under symmetry in the safety runs.
- The liveness run has no symmetry and two slots, because TLC does not
  check liveness soundly under symmetry.

- Templates of up to 5 tokens reach nesting at and past the
  `MAX_OPT_DEPTH` bound of 3, and every token in every position. The
  violations need only 3 tokens.
- The base64 buffer holds 3 bytes. It stands for the 512 of the
  backend, and every group boundary meets it within passwords of up to 4
  bytes and names of up to 6 characters, over the characters
  `A Q / = -`: valid, invalid, padding and one that is none of these.
- The uuid instances change the first and last byte of each field and
  the characters at the field boundaries. They also try an uppercase
  digit, a non-hex letter, a misplaced `-`, and a string one short.
- The addresses sit at each class boundary (127/128, 191/192, 223/224).
  The widths include 0, 31, 32 and both sides of each byte boundary.
- A stanza of up to 3 option lines over `mtu` (which has a method
  default), `address` and the hook `up`, with up to 3 `-o` arguments
  over those names plus `post-up` and `metric`, each with an empty or
  one of two values. This covers the following:
  - a default that is overridden, removed or kept;
  - a removal of a present or an absent name;
  - a hook given through the `post-up` rename;
  - a repeated `-o` of one name.
- The name service instance has three users. The middle one's passwd
  line (60 bytes, shell at 45) is cut by the middle buffer size (50),
  inside its shell field, and by the smallest (32), before it. There are
  three groups. One has no gid, and the other two have empty members
  before, between and after commas. A buffer of 32 fails the group
  copy, and one of 64 fits it. This reaches a truncated entry, an
  UNAVAIL or ERROR, a retried TRYAGAIN, and a server failure before,
  inside and after the list.
- The sleep instance has up to 3 lines of `/proc/swaps`, over two
  devices, priorities 0 and 1 and free space 1 or 2, files with a known
  offset or a Btrfs one, one line of each skipped kind and one of each
  failing query. `resume=` is unset or one of the two devices, and
  `resume_offset` is 0 or the files' offset. `Active(anon)` of 1 and 2
  falls on both sides of the 2% margin for each free space. Three lines
  give ties on priority and space in both orders, a resume device after
  a better swap, and a failure before and after the candidate.
- The statefile instance has up to 4 calls of `update_state` over
  `eth0`, its VLAN `eth0.1` (whose name `eth0` is a prefix of) and
  `wlan0`, with logical names of 1 to 3 characters or NULL. A buffer of
  7 bytes stands for the 80 of the code, and the lines run from 3 to 7
  characters. So the instance has lines that fit, one that fills the
  buffer exactly, and one that is split. It also has a re-configuration
  in place and a removal between two lines.
- The configuration reader instance has every file of up to 7
  characters over `a`, a blank, `#`, a backslash and the newline
  (97,656 files). The buffer grows as `len * 2 + 2` when fewer than 2
  bytes are left, so it is 2, 6 and 14 bytes long. That stands for
  80 and 10 (80, 240, 560): within 7 characters a line fills the
  buffer exactly with and without its newline, and grows it twice,
  inside a first line and inside a continuation. `firstword` holds 2
  characters.
- The nvmore instance has every command line of up to 5 characters
  over the seven names (19,608 inputs), with the defaults on an xterm
  (`am` and xenl) and with `-lurs` on a terminal without `am`.
  `LINSIZ` is 5 and `Mcol` 3, standing for 512 and 80: a line can end
  at the margin, overshoot it with a tab or a `^X`, fill the buffer
  with characters that do not advance the column, and a file can end
  on a line at the margin before the next one starts.
- The nvmore session runs over two files, `b/ab/b/a` (four lines of up
  to two characters) and `^L a` (a leading `^L`, which `checkf` reads
  away), with `Lpp` 5 (so `dlines` 3, `Lpp - 4` is 1 and cuts the first
  screen), `nscroll` 1 as `initterm` sets it, every key of the modelled
  commands with the counts 0 and 2 (0 is the default of one or a
  screenful; 2 sets `dlines`, `nscroll`, asks for the second match and
  skips past the last file), and the expression `a`. TLC's coverage
  of the run counts no expression of `NvmSession` at zero; sessions end
  at `q`, `:q` or past the last file.
- The command-line instance has every argument vector of up to 3 of
  13 arguments (`-a`, `-l`, `--state`, `-n`, `--force`, `--allow=hot`,
  `-X`, `--read-environment`, `-h`, the unknown `-s`, the operands
  `eth0` and `wlan0`, and `--`) under `ifup`, `ifdown`, `ifquery` and
  another name. Two allow-up classes and a one-line statefile make the
  bulk targets differ from the operands and from each other; three
  arguments are enough for an option between two operands, an operand
  after `--`, and `--allow` with `-a`.
- The sleep instance has every combination of the four tristates,
  three sets of list settings (all defaults; a custom suspend state and
  hibernate mode; a custom suspend mode and hybrid state), three
  `/sys/power/state` and three `/sys/power/disk` contents (unreadable,
  the current mode bracketed, a mode matching only bare), the alarm
  clock present or not, no swap or one partition, and two
  `Active(anon)` values, one that fits it and one that does not
  (17,496 inputs).
- The configuration instance has a cycle of two files plus a
  self-reference, and a spelling that grows on every level. One content per file
  is chosen in `Init`, so every combination is explored.

### Fairness

`Fairness` is weak fairness on each process's own steps.
- The kernel schedules every runnable process.
- `F_SETLKW` returns once the lock is dropped.

Starting a process (`Invoke`) and crashing are not fair: nothing forces
either to happen. Every behaviour is finite, because starts are bounded.
So weak fairness is enough, and `Terminated` lets a finished system
stutter.

`ConfigParser` is one sequential process, so `Spec` has weak fairness
on `Next`: the parser keeps running until it returns.

## 5. Not modelled, and why

These parts are not modelled yet and are planned (see section 2):
- the Linux name service enumeration's completeness. With the shared
  `g_backend`, TLC ends a passwd enumeration early in four calls:
  `setpwent`, `setgrent`, `endgrent`, then `getpwent` returns NOTFOUND
  with no user returned. This is checked only on Solaris, because a
  Linux run of it would need a thirteenth run slot. The memory the
  Linux port leaks is not modelled (allocation is not tracked). The
  stateless lookups, shadow entries and `getgroupsbymember` are not
  modelled either;
- in `main`, `check_stdio` and the `mkdir` of the run directory, and
  the texts of `usage`, `help` and `version`. `--exclude` and the
  `no-auto-down` lists are recorded by `Cmdline` but applied inside
  `do_interface`, which `Cmdline` takes as a free result. `-l` sets
  `cmds` to list, so `ifquery -l --state` and `ifquery -l -l` end in
  `usage` while `ifquery --state -l` is accepted; this order dependence
  is explored but no property is stated about it;
- `read_fiemap` and the file, `ioctl` and `clock` calls of
  sleep-config, which are I/O; the config file parser itself;
- the `-o NAME=` removal of a name the stanza has. `OverridesFrom`
  models it, and `OverridesApplied` is checked only where a removal
  removes nothing. Without that precondition, TLC violates it in two
  steps: the stanza `address s`, the method default `mtu`, and
  `-o address=`. The code drops `mtu` instead of `address`, and it
  shifts the global `-o` array that later stanzas read. Checking this
  as a violation needs its own run, and all twelve run slots are in
  use. The hazard at `main.c:1028` records it;
- statefile lines longer than the `fgets` buffer. A line of exactly 79
  characters reads back with an extra empty entry, and a longer one as
  two entries. The rewrite then splits it into two lines, and the tail
  survives the interface's `ifdown`. `DownAllOrder` is checked while no
  line has outgrown the buffer. Without that precondition TLC violates
  it in one call: `update_state(eth0.1, xy)` writes a 6-character line
  into the model's 7-byte buffer. The hazard at `main.c:253` records
  it;
- systemd's skipping of the resume device. `find_hibernate_location`
  applies the priority filter before it compares a line with `resume=`.
  With a partition of device 2 and priority 1 listed before one of
  device 1 and priority 0, and `resume=` naming device 1, TLC finds that
  the search returns `-ENOSYS`, so hibernation is refused although its
  resume device is an active swap. A run of that property would need a
  thirteenth slot; the hazard at `sleep-config.c:378` records it;
- the disagreement between `enough_swap_for_hibernation` and its
  comment. The comment says that `resume=` set with no matching swap
  (the Btrfs case) makes `find_hibernate_location` return 1 and lets
  hibernation through. The code returns `-ENOSYS` there, so that branch
  is dead. `SleepConfig` models the code; stating the comment needs a
  violation run, and the hazard at `sleep-config.c:472` records it;
- the recursion of the configuration parser under growing spellings.
  `already_seen` compares spellings, not files, so `source ./a` inside
  `a` is read again and again until `fopen` fails with EMFILE. The
  model reaches it, but a property that compares files would fail on
  the code and needs a violation run; the hazard at `config.c:317`
  records it;
- in the configuration parser: the shell syntax of `wordexp` beyond one wildcard component, `ferror`, `convert_variables`,
  and a failing `realloc` in `get_line`, which returns 0 as at the end
  of the file, so the rest of the file is silently ignored.
  `ConfigParser` takes lines as word sequences; `ConfigReader` models
  how they are read;
- four reader shapes on which `ReaderAgrees` is not compared
  (`Comparable`). TLC reports each as a violation when it is let
  through:
  - a continued line whose text before the backslash ends in a
    backslash, followed by an empty line, also swallows the line after
    (`get_line` tests the accumulated buffer);
  - a first line that is only a backslash keeps the next line's leading
    blanks, so the first word is empty and an `iface` stanza gets an
    option named "";
  - a file that ends inside a continuation reports one line too many,
    or loses the line;
  - a word of `MaxWord` characters or more leaves `firstword` without
    its terminator (80 in the code).

  The hazards at `config.c:74` and `config.c:127` record them;
- `nv_uuid_generate` and its `/dev/urandom` read loop. `read` returns
  -1 on EINTR, which the loop does not expect, so its pointer moves back.
  The version bits it sets leave random bits behind. Both are hazards in
  PROJECT.json; a property on either needs a violation run of its own;
- the other parameter conversions of `archcommon.c` (string rewriting),
  and `mylinux`, which has no caller under `src/`;
- `var_true`/`var_set`, used by the method checks, which the lifecycle
  model abstracts to the check's outcome;
- that `lo` stays in `auto` after a loopback stanza of another name
  suppresses the synthetic `lo` stanza (`config.c` 865). The configuration
  instance reaches that state, but no run checks `auto` against the stanzas,
  because all twelve run slots are in use;
- `run_mapping`'s pipes, abstracted to the script's outcome;
- `ifquery`, which runs without effective locks: `no_act` opens the lock
  file read-only;
- the IF_* environment contents;
- the order of phases inside a stanza.

Never modelled:
- the overflow of `Line` in `nvm_getline`: a `^L`, or a `^X` under
  `-r`, stored at `Line[LINSIZ-2]` leaves `p` at `LINSIZ`, and `*p = 0`
  writes one past the buffer; on a terminal without `am` the newline
  after a full line can land there too. When the loop stops on its
  bound, the character already read is dropped. `NvmNothingLost`
  excludes such files (the ghost `filled`); the traces are in the hazard
  at `nvmore.c:885`. A blank first line of a file that follows a line
  at the margin without a final newline is eaten (the static `colflg`):
  the count stays right, and the terminal output is not modelled;
- of nvmore's commands, the help file (`h`), the shell escape and the
  editor (`!`, `v`), input from a pipe (`no_intty`), the `-c`, `-p`,
  `-d` and `+line`/`+/pattern` options, the signal handlers and the
  multibyte code sets (Sun only). Two behaviours of the modelled
  commands break no property and are recorded here: after `1z` sets
  `dlines` to 1, a successful search returns `dlines - 1 = 0` and
  `screen` leaves the file; and `Pause` is not cleared when `screen`
  returns at EOF, so after a `^L` on the last screen of a file, the next
  file's first screen shows no line and prompts again;
- getpass, netinet and pyfixbuf. They
  are I/O glue, terminal handling and binding code, with no state TLC
  can explore (see PROJECT.json).
- A forced `ifup` over a configured interface records its name and
  returns success even if its commands fail. No property states this yet.
