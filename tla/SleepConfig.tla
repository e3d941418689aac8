---------------------------- MODULE SleepConfig -----------------------------
(***************************************************************************)
(* The choice of the hibernation swap of systemd's sleep configuration    *)
(* (src/components/systemd-245.4-4ubuntu3.15/src/shared/sleep-config.c):  *)
(* find_hibernate_location() walks the entries of /proc/swaps and keeps   *)
(* the highest priority swap with the most free space, stopping at one    *)
(* that matches /sys/power/resume and resume_offset;                      *)
(* enough_swap_for_hibernation() then compares its free space with the    *)
(* active anonymous memory.                                                *)
(*                                                                         *)
(* A /proc/swaps line is a record: how the loop classifies it (kind), its *)
(* priority, size and used space, the device number stat() or             *)
(* get_block_device() gives, and for a swap file the offset of its first  *)
(* extent.  A failing device or offset query is the number Err.  The walk *)
(* is a RECURSIVE operator, one call per pass of the for loop.            *)
(***************************************************************************)
EXTENDS Naturals, Sequences, SequencesExt

CONSTANTS
    Devs,           \* device numbers of swaps, all > 0
    Prios,          \* swap priorities
    Size,           \* the size of every swap
    Useds,          \* the used space of a swap, at most Size
    Offsets,        \* first-extent offsets of swap files, all > 0
    ResumeOffsets,  \* values of /sys/power/resume_offset, 0 among them
    Acts,           \* values of Active(anon) in /proc/meminfo
    MaxSwaps        \* the most lines of /proc/swaps

\* UINT64_MAX, the offset calculate_swap_file_offset() gives on Btrfs; no
\* real offset reaches it.
UMax == 2^30
\* A device or offset query that fails.
Err == -1
\* The results: -ENOSYS, and the negative errno of a failed query.
ENOSYS == -38
EFAIL == -5

\* The classes of a line the loop skips: fscanf() reading fewer than 5
\* fields, a file ending in "\040(deleted)", a /dev/zram partition, and a
\* type other than file and partition.
SkippedKinds == {"unparsed", "deleted", "zram", "other"}

NoLoc == [devno |-> 0, offset |-> 0, swap |-> [kind |-> "none", prio |-> 0, size |-> 0, used |-> 0]]

\* swap->size - swap->used, unsigned; the kernel keeps used <= size.
Free(s) == s.size - s.used

\* location_is_resume_device().
location_is_resume_device(loc, res) ==
    /\ loc # NoLoc
    /\ res.dev > 0
    /\ res.dev = loc.devno
    /\ \/ res.off = loc.offset
       \/ res.off > 0 /\ loc.offset = UMax

\* A loop that replaces the candidate whatever its priority.
RECURSIVE FindFromNoPriority(_, _, _, _)
FindFromNoPriority(sw, res, i, loc) ==
    IF i > Len(sw) THEN [r |-> "eof", loc |-> loc]
    ELSE LET s == sw[i]
             new == [devno |-> s.dev, offset |-> IF s.kind = "file" THEN s.off ELSE 0, swap |-> s]
         IN  IF s.kind \in SkippedKinds THEN FindFromNoPriority(sw, res, i + 1, loc)
             ELSE IF s.kind = "file" /\ s.off = Err THEN [r |-> "err", loc |-> loc]
             ELSE IF loc # NoLoc /\ s.prio = loc.swap.prio /\ Free(s) < Free(loc.swap)
                  THEN FindFromNoPriority(sw, res, i + 1, loc)
             ELSE IF s.dev = Err THEN [r |-> "err", loc |-> loc]
             ELSE IF location_is_resume_device(new, res) THEN [r |-> "match", loc |-> new]
             ELSE FindFromNoPriority(sw, res, i + 1, new)

(***************************************************************************)
(* The for loop from line i of /proc/swaps with candidate loc.  A skipped *)
(* line continues; a swap file's offset is computed before the filters,   *)
(* and its failure ends the search; a lower priority, or the same         *)
(* priority with less free space, continues; the device number is queried *)
(* only for a new candidate, and its failure ends the search; a candidate *)
(* matching the resume settings ends the loop.                             *)
(***************************************************************************)
RECURSIVE FindFrom(_, _, _, _)
FindFrom(sw, res, i, loc) ==
    IF i > Len(sw) THEN [r |-> "eof", loc |-> loc]
    ELSE LET s == sw[i]
             new == [devno |-> s.dev, offset |-> IF s.kind = "file" THEN s.off ELSE 0, swap |-> s]
         IN  IF s.kind \in SkippedKinds THEN FindFrom(sw, res, i + 1, loc)
             ELSE IF s.kind = "file" /\ s.off = Err THEN [r |-> "err", loc |-> loc]
             ELSE IF loc # NoLoc /\ s.prio < loc.swap.prio THEN FindFrom(sw, res, i + 1, loc)
             ELSE IF loc # NoLoc /\ s.prio = loc.swap.prio /\ Free(s) < Free(loc.swap)
                  THEN FindFrom(sw, res, i + 1, loc)
             ELSE IF s.dev = Err THEN [r |-> "err", loc |-> loc]
             ELSE IF location_is_resume_device(new, res) THEN [r |-> "match", loc |-> new]
             ELSE FindFrom(sw, res, i + 1, new)

\* The result of the function after the walk, given what the walk gave.
HibernateResult(f, res) ==
    LET match == f.r = "match"
        ret == IF match THEN 1 ELSE 0
    IN  CASE f.r = "err" -> [ret |-> EFAIL, loc |-> NoLoc]
          [] f.loc = NoLoc -> [ret |-> ENOSYS, loc |-> NoLoc]
          [] res.dev # 0 /\ ~match -> [ret |-> ENOSYS, loc |-> NoLoc]
          [] f.loc.offset = UMax /\ res.off = 0 -> [ret |-> ENOSYS, loc |-> NoLoc]
          [] f.loc.offset = UMax -> [ret |-> ret, loc |-> [f.loc EXCEPT !.offset = res.off]]
          [] OTHER -> [ret |-> ret, loc |-> f.loc]

\* find_hibernate_location(), given what read_resume_files() read.
find_hibernate_location(sw, res) == HibernateResult(FindFrom(sw, res, 1, NoLoc), res)

(***************************************************************************)
(* enough_swap_for_hibernation() with neither the bypass variable nor     *)
(* TuxOnIce: act <= free * 0.98, compared here as 50 * act <= 49 * free   *)
(* (the small values enumerated are not near the rounding of the double). *)
(***************************************************************************)
enough_swap_for_hibernation(sw, res, act) ==
    LET h == find_hibernate_location(sw, res)
    IN  CASE h.ret < 0 -> FALSE
          [] h.ret > 0 /\ h.loc = NoLoc -> TRUE
          [] h.loc = NoLoc -> FALSE
          [] OTHER -> 50 * act <= 49 * Free(h.loc.swap)

-----------------------------------------------------------------------------
(* Input enumeration: what read_resume_files() read, chosen first, then   *)
(* the lines of /proc/swaps one at a time.  A partition's device query    *)
(* and a file's offset query may fail.                                     *)
VARIABLES swaps, sysres

sleepvars == <<swaps, sysres>>

NoResume == [dev |-> 0, off |-> 0]

SleepInit == swaps = <<>> /\ sysres = NoResume

SleepIdle == SleepInit

\* The lines enumerated: partitions and files of every priority, used space
\* and device; one of each kind the loop skips and one of each failing
\* query, all of the highest priority.
SwapEntries ==
    LET top == CHOOSE p \in Prios : \A q \in Prios : q <= p
        d == CHOOSE d \in Devs : TRUE
    IN  [kind: {"partition"}, prio: Prios, size: {Size}, used: Useds, dev: Devs, off: {0}]
        \cup [kind: {"file"}, prio: Prios, size: {Size}, used: Useds, dev: Devs, off: Offsets \cup {UMax}]
        \cup [kind: SkippedKinds, prio: {top}, size: {Size}, used: {0}, dev: {d}, off: {0}]
        \cup {[kind |-> "partition", prio |-> top, size |-> Size, used |-> 0, dev |-> Err, off |-> 0],
              [kind |-> "file", prio |-> top, size |-> Size, used |-> 0, dev |-> d, off |-> Err]}

\* /sys/power/resume (0 when unset) and /sys/power/resume_offset.
SetResume == /\ SleepIdle
             /\ \E d \in {0} \cup Devs, o \in ResumeOffsets :
                   /\ [dev |-> d, off |-> o] # NoResume
                   /\ sysres' = [dev |-> d, off |-> o]
             /\ UNCHANGED swaps

AddSwap == /\ Len(swaps) < MaxSwaps
           /\ \E s \in SwapEntries : swaps' = Append(swaps, s)
           /\ UNCHANGED sysres

SleepNext == SetResume \/ AddSwap

\* A line the loop can take as a candidate.
Eligible(s) == s.kind \in {"file", "partition"}

\* No device or offset query of any line fails.
QueriesSucceed(sw) == \A k \in DOMAIN sw : sw[k].dev # Err /\ sw[k].off # Err

(***************************************************************************)
(* With /sys/power/resume unset, find_hibernate_location() returns 0 and  *)
(* a swap of the highest priority and, among those, the most free space,  *)
(* with its device number and offset (resume_offset substituted for a    *)
(* Btrfs file's unknown offset), or -ENOSYS when there is no candidate or *)
(* the chosen file's offset is unknown and resume_offset is 0: the two    *)
(* filters of the loop, applied against the running candidate, select     *)
(* the maximum over the whole of /proc/swaps.                             *)
(***************************************************************************)
HibernateLocationUnset ==
    LET E == {swaps[k] : k \in {k \in DOMAIN swaps : Eligible(swaps[k])}}
        top == {s \in E : \A t \in E : t.prio < s.prio \/ (t.prio = s.prio /\ Free(t) <= Free(s))}
        h == find_hibernate_location(swaps, sysres)
        offsetOf(s) == CASE s.kind = "partition" -> 0
                          [] s.off = UMax -> sysres.off
                          [] OTHER -> s.off
    IN  sysres.dev = 0 /\ QueriesSucceed(swaps) =>
            /\ h.ret \in {0, ENOSYS}
            /\ (E = {} \/ (sysres.off = 0 /\ \A s \in top : s.off = UMax)) => h.ret = ENOSYS
            /\ h.ret = ENOSYS => \/ E = {}
                                 \/ sysres.off = 0 /\ \E s \in top : s.kind = "file" /\ s.off = UMax
            /\ h.ret = 0 => /\ h.loc.swap \in top
                            /\ h.loc.devno = h.loc.swap.dev
                            /\ h.loc.offset = offsetOf(h.loc.swap)
====
