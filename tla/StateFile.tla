----------------------------- MODULE StateFile ------------------------------
(***************************************************************************)
(* The text of ifupdown's statefile (src/components/ifupdown/main.c): the *)
(* rewrite of update_state() under the global lock, read_all_state(),     *)
(* which ifdown --all and ifquery --state read it with, and do_state().   *)
(*                                                                         *)
(* The file is its sequence of characters; each character is a one-      *)
(* letter string, and names are sequences of them.  Both functions read   *)
(* the file with fgets() into a buffer of BufSize bytes, so a line longer *)
(* than the buffer holds is read as several pieces.  The Ifupdown module  *)
(* models the same file as a set of iface=liface records.                 *)
(***************************************************************************)
EXTENDS Naturals, Sequences, SequencesExt

CONSTANTS
    Ifaces,      \* physical interface names, as sequences of characters
    Lifaces,     \* logical interface names, never empty
    BufSize,     \* char buf[80] of both readers
    MaxUpdates   \* the most update_state() calls

NL == "\n"
Whitespace == {" ", "\t", NL}

\* The NULL state pointer; a logical name is never empty.
NULL == <<>>

\* "%s=%s": the line of an interface without its newline.
Render(iface, state) == iface \o <<"=">> \o state

\* fgets() repeated until EOF: each piece ends at a newline or after
\* BufSize - 1 characters.
RECURSIVE Chunks(_)
Chunks(f) ==
    IF f = <<>> THEN <<>>
    ELSE LET room == IF Len(f) < BufSize - 1 THEN Len(f) ELSE BufSize - 1
             nl == SelectInSeq(SubSeq(f, 1, room), LAMBDA c : c = NL)
             n == IF nl # 0 THEN nl ELSE room
         IN  <<SubSeq(f, 1, n)>> \o Chunks(SubSeq(f, n + 1, Len(f)))

\* strip(): trailing whitespace is cut while it is not the first character,
\* then leading whitespace is skipped.
RECURSIVE StripTrailing(_), StripLeading(_)
StripTrailing(b) == IF Len(b) > 1 /\ b[Len(b)] \in Whitespace THEN StripTrailing(Front(b)) ELSE b
StripLeading(b) == IF b # <<>> /\ Head(b) \in Whitespace THEN StripLeading(Tail(b)) ELSE b
strip(b) == StripLeading(StripTrailing(b))

\* strncmp(iface, pch, strlen(iface)) == 0 && pch[strlen(iface)] == '='.
IsLineOf(iface, pch) == Len(pch) > Len(iface) /\ IsPrefix(iface, pch) /\ pch[Len(iface) + 1] = "="

\* A rewrite that drops the old line of the interface and appends the new.
update_state_append(file, iface, state) ==
    LET kept == FoldLeft(LAMBDA out, b : IF IsLineOf(iface, strip(b)) THEN out
                                         ELSE out \o strip(b) \o <<NL>>,
                         <<>>, Chunks(file))
    IN  IF state # NULL THEN kept \o Render(iface, state) \o <<NL>> ELSE kept

(***************************************************************************)
(* update_state(), the statefile half: each piece fgets() reads is        *)
(* stripped; the first line of the interface is replaced in place by the  *)
(* new state (and state set to NULL), its other lines and, for a NULL     *)
(* state, that one too are dropped, every other piece is written back as  *)
(* a line; a state not yet written is appended.  The temporary file then  *)
(* replaces the statefile.                                                 *)
(***************************************************************************)
update_state(file, iface, state) ==
    LET step(acc, b) ==
            LET pch == strip(b)
            IN  IF ~IsLineOf(iface, pch) THEN [acc EXCEPT !.out = @ \o pch \o <<NL>>]
                ELSE IF acc.state # NULL
                     THEN [out |-> acc.out \o Render(iface, acc.state) \o <<NL>>, state |-> NULL]
                     ELSE acc
        r == FoldLeft(step, [out |-> <<>>, state |-> state], Chunks(file))
    IN  IF r.state # NULL THEN r.out \o Render(iface, r.state) \o <<NL>> ELSE r.out

\* read_all_state(): the stripped pieces, last line first.
read_all_state(file) == Reverse([k \in DOMAIN Chunks(file) |-> strip(Chunks(file)[k])])

\* A lookup that takes any line starting with the target name.
do_state_prefix(targets, ups) ==
    LET found(t) == SelectInSeq(ups, LAMBDA u : IsPrefix(t, u))
    IN  IF targets = <<>> THEN [ret |-> 0, out |-> ups] ELSE
        [ret |-> IF \A j \in DOMAIN targets : found(targets[j]) # 0 THEN 0 ELSE 1,
         out |-> [j \in {j \in DOMAIN targets : found(targets[j]) # 0} |-> ups[found(targets[j])]]]

(***************************************************************************)
(* do_state() for the target names: with none, every line read is        *)
(* printed; otherwise, for each target, the first line read whose         *)
(* name is the target is printed; the result is 1 when some target has no *)
(* line.  "out" maps the index of each found target to its line.          *)
(***************************************************************************)
do_state(targets, ups) ==
    LET found(t) == SelectInSeq(ups, LAMBDA u : IsLineOf(t, u))
    IN  IF targets = <<>> THEN [ret |-> 0, out |-> ups] ELSE
        [ret |-> IF \A j \in DOMAIN targets : found(targets[j]) # 0 THEN 0 ELSE 1,
         out |-> [j \in {j \in DOMAIN targets : found(targets[j]) # 0} |-> ups[found(targets[j])]]]

-----------------------------------------------------------------------------
(* The calls do_interface() makes: update_state(iface, liface) when an    *)
(* interface is configured (a forced ifup of a configured one included),  *)
(* update_state(iface, NULL) when it is deconfigured or fails.  The       *)
(* reference "up" is the list of configured interfaces in the order they  *)
(* were first configured since they were last deconfigured, with their    *)
(* current logical names.  "overlong" records that some call wrote a line *)
(* that does not fit the readers' buffer with its newline.                *)
VARIABLES file, up, overlong, nupdates

sfvars == <<file, up, overlong, nupdates>>

SfInit == file = <<>> /\ up = <<>> /\ overlong = FALSE /\ nupdates = 0

SfIdle == SfInit

UpRecord(up0, iface, state) ==
    LET k == SelectInSeq(up0, LAMBDA r : r.iface = iface)
    IN  CASE k # 0 /\ state # NULL -> [up0 EXCEPT ![k].liface = state]
          [] k # 0 -> RemoveAt(up0, k)
          [] state # NULL -> Append(up0, [iface |-> iface, liface |-> state])
          [] OTHER -> up0

UpdateState == /\ nupdates < MaxUpdates
               /\ nupdates' = nupdates + 1
               /\ \E i \in Ifaces, s \in Lifaces \cup {NULL} :
                     /\ file' = update_state(file, i, s)
                     /\ up' = UpRecord(up, i, s)
                     /\ overlong' = (overlong \/ (s # NULL /\ Len(Render(i, s)) > BufSize - 2))

SfNext == UpdateState

UpLines == [k \in DOMAIN up |-> Render(up[k].iface, up[k].liface)]

(***************************************************************************)
(* ifdown --all takes down exactly the configured interfaces, each once   *)
(* with its current logical name, the last configured first: the rewrite  *)
(* of update_state() keeps the lines in order, replaces a line in place,  *)
(* drops exactly the line of its interface (not the one of eth0.10 for    *)
(* eth0), and read_all_state() reverses them; this holds as long as no    *)
(* line has outgrown the fgets() buffer.                                   *)
(***************************************************************************)
DownAllOrder == ~overlong => read_all_state(file) = Reverse(UpLines)

(***************************************************************************)
(* ifquery --state with one or two names prints the line of each          *)
(* configured one, and succeeds exactly when all are configured; a name   *)
(* that is a prefix of a configured one (eth0 and eth0.10) is not taken   *)
(* for it.                                                                 *)
(***************************************************************************)
DoStateAgrees ==
    ~overlong =>
        \A ts \in {<<t>> : t \in Ifaces} \cup {<<t, u>> : t, u \in Ifaces} :
            LET d == do_state(ts, read_all_state(file))
                k(t) == SelectInSeq(up, LAMBDA r : r.iface = t)
                have == {j \in DOMAIN ts : k(ts[j]) # 0}
            IN  /\ d.ret = IF have = DOMAIN ts THEN 0 ELSE 1
                /\ d.out = [j \in have |-> UpLines[k(ts[j])]]
====
