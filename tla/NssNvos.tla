------------------------------ MODULE NssNvos --------------------------------
(***************************************************************************)
(* The nvOS name service switch module (src/components/nss_nvos): the     *)
(* passwd and group enumerations of a process, on Linux                   *)
(* (nss_linux_nvos.c) and on Solaris (nss_solaris_nvos.c), over the user  *)
(* and group lists the nvOS server returns (nss_nvos.c).                   *)
(*                                                                         *)
(* On Linux the module keeps ONE static g_backend for both databases: the *)
(* user array and its index, and the group list and its iterator.  On     *)
(* Solaris each database gets its own backend from its constructor.  The  *)
(* variables below are the fields of g_backend; on Solaris info and index *)
(* belong to the passwd backend and groups and gpos to the group backend. *)
(*                                                                         *)
(* The caller is the C library's enumeration for each database:           *)
(* set...ent, then get...ent until it stops, then end...ent; the two     *)
(* databases are used in any interleaving, as a program that looks up    *)
(* the groups of each user it enumerates does.  A user is a name, and its *)
(* passwd line is known by its length and the offset of its shell field;  *)
(* a group is its gid, its name length, its member string of letters and  *)
(* commas, and whether the server sent its name and gid.                  *)
(***************************************************************************)
EXTENDS Naturals, Sequences, SequencesExt

CONSTANTS
    Users,      \* the user array NVOS_USER_GETINFO returns, in order
    EntLen,     \* EntLen[u]: strlen of u's passwd line
    ShellAt,    \* ShellAt[u]: the offset of the shell field in that line
    Groups,     \* the groups nvc_show_nss_group() calls back with, in order
    BufLens,    \* the buffer sizes callers pass
    PtrSize     \* sizeof (char *)

Platforms == {"linux", "solaris"}

NoClient == [phase |-> "idle", seen |-> <<>>, end |-> "none", fetched |-> TRUE]

-----------------------------------------------------------------------------
(* The conversions.                                                        *)

\* user_to_passwd_ent() (Linux): snprintf() into the caller's buffer, then
\* strtok of the seven fields.  A line cut in the shell field still parses,
\* with a truncated shell; cut earlier, a field is missing: UNAVAIL.
user_to_passwd_ent(u, buflen) ==
    CASE EntLen[u] <= buflen - 1 -> "SUCCESS"
      [] buflen - 1 > ShellAt[u] -> "SUCCESS"
      [] OTHER -> "UNAVAIL"

\* user_to_ent() (Solaris): the line is built in a 4096-byte buffer and
\* str2ent() copies it into the caller's, which must hold it and its NUL.
user_to_ent(u, buflen) == IF EntLen[u] + 1 <= buflen THEN "SUCCESS" ELSE "ERROR"

\* strtok_r(members, ","): the non-empty runs between commas.
RECURSIVE StrTok(_, _, _)
StrTok(s, cur, acc) ==
    CASE s = <<>> -> IF cur = <<>> THEN acc ELSE Append(acc, cur)
      [] Head(s) = "," -> StrTok(Tail(s), <<>>, IF cur = <<>> THEN acc ELSE Append(acc, cur))
      [] OTHER -> StrTok(Tail(s), Append(cur, Head(s)), acc)

Members(g) == StrTok(g.members, <<>>, <<>>)

\* buf_alloc(): a request fits when it is at most what is left.
buf_alloc(used, size, buflen) == IF buflen - used < size THEN -1 ELSE used + size

\* copy_group() (Linux): the name, then the member pointer array of
\* num_mem + 1 entries, then each member, from the caller's buffer; the
\* first request that does not fit fails the copy.  Both strtok loops
\* split the same string, so the count and the copy agree.
copy_group(g, buflen) ==
    LET mem == Members(g)
        afterName == buf_alloc(0, g.namelen + 1, buflen)
        afterArray == IF afterName < 0 THEN -1
                      ELSE buf_alloc(afterName, PtrSize * (Len(mem) + 1), buflen)
        afterMem == FoldLeft(LAMBDA used, m : IF used < 0 THEN -1 ELSE buf_alloc(used, Len(m) + 1, buflen),
                             afterArray, mem)
    IN  IF afterMem < 0 THEN [ok |-> FALSE] ELSE [ok |-> TRUE, gid |-> g.gid, mem |-> mem]

Digits(n) == IF n < 10 THEN 1 ELSE IF n < 100 THEN 2 ELSE 3

\* group_to_ent() (Solaris): the line "name::gid:members" handed to
\* str2ent(), which needs room for it and its NUL.
group_to_ent(g, buflen) ==
    IF g.namelen + 3 + Digits(g.gid) + Len(g.members) + 1 <= buflen
    THEN [ok |-> TRUE, gid |-> g.gid, mem |-> Members(g)] ELSE [ok |-> FALSE]

\* nvos_nss_get_groups(): each group the server calls back with is
\* duplicated unless its name or gid is missing; the server may fail after
\* k callbacks, and the error is ignored.
FetchedGroups(k) == SelectSeq(SubSeq(Groups, 1, k), LAMBDA g : g.complete)

\* What a complete listing gives.
AllGroups == FetchedGroups(Len(Groups))

\* nvos_nss_userop(..., NVOS_USER_GETINFO): the array, or NULL when the
\* connection, the request or the copy's malloc() fails.
nvos_nss_userop_getinfo == BOOLEAN

-----------------------------------------------------------------------------
VARIABLES
    platform,   \* the port the module is built for
    info,       \* the user array held: TRUE, or FALSE for NULL
    index,      \* the next user to return
    groups,     \* the group list held
    gpos,       \* the position of the group iterator, 0 for NULL
    pw,         \* the passwd enumeration of the caller
    gr          \* the group enumeration of the caller

nssvars == <<platform, info, index, groups, gpos, pw, gr>>

NssInit == /\ platform \in Platforms
           /\ info = FALSE /\ index = 0 /\ groups = <<>> /\ gpos = 0
           /\ pw = NoClient /\ gr = NoClient

NssIdle == info = FALSE /\ index = 0 /\ groups = <<>> /\ gpos = 0
           /\ pw = NoClient /\ gr = NoClient

\* The caller's view of one call: a set...ent that fails ends the
\* enumeration at once; an entry is recorded; NOTFOUND and any error end it.
Started(c, ok, fetched) == [phase |-> IF ok THEN "enum" ELSE "done", seen |-> <<>>,
                            end |-> IF ok THEN "none" ELSE "ERROR", fetched |-> fetched]
Returned(c, e) == [c EXCEPT !.seen = Append(@, e)]
Ended(c, how) == [c EXCEPT !.phase = "done", !.end = how]

-----------------------------------------------------------------------------
(* Linux.                                                                  *)

\* _nss_nvos_setpwent(): bzero(&g_backend), which drops the group list and
\* iterator too, then the user array from the server, or NULL.
LinuxSetPwEnt ==
    /\ platform = "linux" /\ pw.phase = "idle"
    /\ \E ok \in nvos_nss_userop_getinfo :
          /\ info' = ok /\ index' = 0 /\ groups' = <<>> /\ gpos' = 0
          /\ pw' = Started(pw, ok, TRUE)
    /\ UNCHANGED <<platform, gr>>

\* _nss_nvos_endpwent(): only the pointer is cleared.
LinuxEndPwEnt ==
    /\ platform = "linux" /\ pw.phase # "idle"
    /\ info' = FALSE /\ pw' = NoClient
    /\ UNCHANGED <<platform, index, groups, gpos, gr>>

\* nvos_passwd_getent(): the index is advanced before the conversion.
LinuxGetPwEnt ==
    /\ platform = "linux" /\ pw.phase = "enum"
    /\ IF ~info \/ index >= Len(Users)
       THEN pw' = Ended(pw, "NOTFOUND") /\ UNCHANGED index
       ELSE \E b \in BufLens :
              LET u == Users[index + 1]
              IN  /\ index' = index + 1
                  /\ pw' = IF user_to_passwd_ent(u, b) = "SUCCESS" THEN Returned(pw, u)
                           ELSE Ended(pw, "ERROR")
    /\ UNCHANGED <<platform, info, groups, gpos, gr>>

\* _nss_nvos_setgrent(): a new list from the server, the iterator at its
\* first group; the user array is left alone.
LinuxSetGrEnt ==
    /\ platform = "linux" /\ gr.phase = "idle"
    /\ \E k \in 0..Len(Groups) :
          /\ groups' = FetchedGroups(k)
          /\ gpos' = IF FetchedGroups(k) = <<>> THEN 0 ELSE 1
          /\ gr' = Started(gr, TRUE, k = Len(Groups))
    /\ UNCHANGED <<platform, info, index, pw>>

\* _nss_nvos_endgrent(): the list is freed and all of g_backend zeroed,
\* the user array and its index included.
LinuxEndGrEnt ==
    /\ platform = "linux" /\ gr.phase # "idle"
    /\ info' = FALSE /\ index' = 0 /\ groups' = <<>> /\ gpos' = 0
    /\ gr' = NoClient
    /\ UNCHANGED <<platform, pw>>

\* A getgrent that advances the iterator before the copy, as the Solaris
\* backend does.
LinuxGetGrEntAdvanceFirst ==
    /\ platform = "linux" /\ gr.phase = "enum"
    /\ IF gpos = 0
       THEN gr' = Ended(gr, "NOTFOUND") /\ UNCHANGED gpos
       ELSE \E b \in BufLens :
              LET r == copy_group(groups[gpos], b)
              IN  /\ gpos' = IF gpos < Len(groups) THEN gpos + 1 ELSE 0
                  /\ gr' = IF r.ok THEN Returned(gr, [gid |-> r.gid, mem |-> r.mem]) ELSE gr
    /\ UNCHANGED <<platform, info, index, groups, pw>>

\* _nss_nvos_getgrent_r(): TRYAGAIN leaves the iterator where it is, so
\* the caller retries the same group with a larger buffer.
LinuxGetGrEnt ==
    /\ platform = "linux" /\ gr.phase = "enum"
    /\ IF gpos = 0
       THEN gr' = Ended(gr, "NOTFOUND") /\ UNCHANGED gpos
       ELSE \E b \in BufLens :
              LET r == copy_group(groups[gpos], b)
              IN  IF r.ok
                  THEN /\ gr' = Returned(gr, [gid |-> r.gid, mem |-> r.mem])
                       /\ gpos' = IF gpos < Len(groups) THEN gpos + 1 ELSE 0
                  ELSE UNCHANGED <<gr, gpos>>
    /\ UNCHANGED <<platform, info, index, groups, pw>>

-----------------------------------------------------------------------------
(* Solaris: the passwd backend holds info and index, the group backend    *)
(* groups and gpos.                                                        *)

\* nvos_setent(): the old array freed, the index reset, a new array or
\* NULL (UNAVAIL).
SolSetEnt ==
    /\ platform = "solaris" /\ pw.phase = "idle"
    /\ \E ok \in nvos_nss_userop_getinfo : info' = ok /\ pw' = Started(pw, ok, TRUE)
    /\ index' = 0
    /\ UNCHANGED <<platform, groups, gpos, gr>>

\* nvos_endent(): the array freed, the index reset.
SolEndEnt ==
    /\ platform = "solaris" /\ pw.phase # "idle"
    /\ info' = FALSE /\ index' = 0 /\ pw' = NoClient
    /\ UNCHANGED <<platform, groups, gpos, gr>>

\* nvos_getent(): as on Linux, the index advanced before the conversion.
SolGetEnt ==
    /\ platform = "solaris" /\ pw.phase = "enum"
    /\ IF ~info \/ index >= Len(Users)
       THEN pw' = Ended(pw, "NOTFOUND") /\ UNCHANGED index
       ELSE \E b \in BufLens :
              LET u == Users[index + 1]
              IN  /\ index' = index + 1
                  /\ pw' = IF user_to_ent(u, b) = "SUCCESS" THEN Returned(pw, u)
                           ELSE Ended(pw, "ERROR")
    /\ UNCHANGED <<platform, info, groups, gpos, gr>>

\* nvos_group_setent(): a new list, the iterator at its first group.
SolGroupSetEnt ==
    /\ platform = "solaris" /\ gr.phase = "idle"
    /\ \E k \in 0..Len(Groups) :
          /\ groups' = FetchedGroups(k)
          /\ gpos' = IF FetchedGroups(k) = <<>> THEN 0 ELSE 1
          /\ gr' = Started(gr, TRUE, k = Len(Groups))
    /\ UNCHANGED <<platform, info, index, pw>>

\* A group endent that zeroes the whole backend, as the Linux port does.
SolGroupEndEntZeroAll ==
    /\ platform = "solaris" /\ gr.phase # "idle"
    /\ info' = FALSE /\ index' = 0 /\ groups' = <<>> /\ gpos' = 0 /\ gr' = NoClient
    /\ UNCHANGED <<platform, pw>>

\* nvos_group_endent(): the list freed, the iterator cleared.
SolGroupEndEnt ==
    /\ platform = "solaris" /\ gr.phase # "idle"
    /\ groups' = <<>> /\ gpos' = 0 /\ gr' = NoClient
    /\ UNCHANGED <<platform, info, index, pw>>

\* nvos_group_getent(): the iterator advanced, then the conversion.
SolGroupGetEnt ==
    /\ platform = "solaris" /\ gr.phase = "enum"
    /\ IF gpos = 0
       THEN gr' = Ended(gr, "NOTFOUND") /\ UNCHANGED gpos
       ELSE \E b \in BufLens :
              LET r == group_to_ent(groups[gpos], b)
              IN  /\ gpos' = IF gpos < Len(groups) THEN gpos + 1 ELSE 0
                  /\ gr' = IF r.ok THEN Returned(gr, [gid |-> r.gid, mem |-> r.mem])
                           ELSE Ended(gr, "ERROR")
    /\ UNCHANGED <<platform, info, index, groups, pw>>

NssNext ==
    \/ LinuxSetPwEnt \/ LinuxEndPwEnt \/ LinuxGetPwEnt
    \/ LinuxSetGrEnt \/ LinuxEndGrEnt \/ LinuxGetGrEnt
    \/ SolSetEnt \/ SolEndEnt \/ SolGetEnt
    \/ SolGroupSetEnt \/ SolGroupEndEnt \/ SolGroupGetEnt

-----------------------------------------------------------------------------
\* The entry of each group of a complete listing.
GroupEntry(g) == [gid |-> g.gid, mem |-> Members(g)]

(***************************************************************************)
(* On both ports, whatever the interleaving of the two databases, the    *)
(* buffer sizes and the server's failures, the users an enumeration has  *)
(* returned are the first users of the server's array, in order, each    *)
(* once, and the groups it has returned are the first groups of the      *)
(* server's listing, each with its members split at the commas.           *)
(***************************************************************************)
EnumPrefix ==
    /\ IsPrefix(pw.seen, Users)
    /\ IsPrefix(gr.seen, [i \in DOMAIN AllGroups |-> GroupEntry(AllGroups[i])])

(***************************************************************************)
(* On Solaris, where each database has its own backend, an enumeration    *)
(* that runs to NOTFOUND has returned every user, and every group when    *)
(* the server listed them all, however the caller interleaves the two    *)
(* databases.                                                              *)
(***************************************************************************)
SolarisEnumComplete ==
    platform = "solaris" =>
        /\ pw.end = "NOTFOUND" => pw.seen = Users
        /\ gr.end = "NOTFOUND" /\ gr.fetched =>
              gr.seen = [i \in DOMAIN AllGroups |-> GroupEntry(AllGroups[i])]
====
