---------------------------- MODULE ConfigParser ----------------------------
(***************************************************************************)
(* The parser of /etc/network/interfaces: read_interfaces() and           *)
(* read_interfaces_defn() of config.c, with the handlers of its line      *)
(* keywords, the source/source-dir recursion and its already_seen guard,  *)
(* iface inheritance and option accumulation (set_variable).              *)
(*                                                                         *)
(* The recursion is a stack of frames, one per open file, each with its   *)
(* next line, currently_processing, currif, currmap and the files a       *)
(* source line still has to read.  A line is its first word and the words *)
(* after it (get_line and next_word, which join continuation lines and    *)
(* strip comments and blanks, are not modelled).  A file is a model value *)
(* reached through one or more spellings of its name.  A spelling is the  *)
(* sequence of its path components, as the strcat()s of the source and    *)
(* source-dir handlers build it: dirname() of the including file's name,  *)
(* then the pattern.  already_seen compares spellings; fopen() resolves   *)
(* them, "." components included.                                         *)
(***************************************************************************)
EXTENDS Naturals, Sequences, SequencesExt

CONSTANTS
    Files,       \* the files themselves
    NoFile,      \* what a spelling of no existing file resolves to
    Resolve,     \* Resolve[p]: the file at the path p without "." components
    Pattern,     \* Pattern[w]: the components of the word w of a source line
    Contents,    \* Contents[f]: the contents file f may have, sequences of
                 \* lines [kw, args]
    Root,        \* the spelling read_interfaces() is called with
    Glob,        \* Glob[c]: the names wordexp() expands the last component c
                 \* into, when c is a wildcard pattern
    DirEntries,  \* DirEntries[d]: scandir() of the directory at path d, in
                 \* alphasort order
    ValidName,   \* the entry names that pass directory_filter()
    Fams,        \* the address families of addr_fams
    Methods,     \* the methods of every family
    Defaults,    \* Defaults[n]: the option an "n?" line sets if unset
    AllowGroups, \* AllowGroups[kw]: the class of an allow-<class> keyword
    SourceDirKws,\* the words strlmatch() takes for source-dir
    LoIface,     \* LO_IFACE
    None,
    MaxOpen      \* the files the process can hold open at once

Hooks == {"pre-up", "up", "down", "post-down"}
Lists == {"no-auto-down", "no-scripts"}
Keywords == {"mapping", "source", "iface", "auto"} \cup Lists \cup SourceDirKws
            \cup DOMAIN AllowGroups
Classes == {"auto"} \cup {AllowGroups[k] : k \in DOMAIN AllowGroups}

VARIABLES
    stack,       \* the read_interfaces_defn() calls in progress
    seen,        \* seen_files
    ifaces,      \* defn->ifaces: records [name, fam, method, opts]
    mappings,    \* defn->mappings: records [match, script, maps]
    allowups,    \* defn->allowups: the names of each allow-up class
    lists,       \* no_auto_down_int and no_scripts_int
    noLoopback,  \* no_loopback
    result,      \* "init", "running", "ok" or "fail": what read_interfaces returns
    erred,       \* history: some line of some file was rejected
    content      \* content[f]: the lines of file f, fixed in Init

vars == <<stack, seen, ifaces, mappings, allowups, lists, noLoopback, result, erred, content>>
defnVars == <<ifaces, mappings, allowups, lists, noLoopback>>

Top == stack[Len(stack)]
Line == content[Top.file][Top.ln]
Word(w, k) == IF k \in 1..Len(w) THEN w[k] ELSE None

\* The top frame after a handler: the next line, and the new
\* currently_processing, currif and currmap.
SetTop(proc, ci, cm) ==
    stack' = [stack EXCEPT ![Len(stack)] =
                 [@ EXCEPT !.ln = @ + 1, !.proc = proc, !.currif = ci, !.currmap = cm]]

\* A handler that ends in "return NULL": its caller ignores the result,
\* unless it is read_interfaces() itself, which then fails.
Reject == /\ stack' = Front(stack)
          /\ result' = IF Len(stack) = 1 THEN "fail" ELSE result
          /\ erred' = TRUE
          /\ UNCHANGED <<content, seen, defnVars>>

\* The file a spelling names: the path without its "." components.
FileOf(s) == LET p == SelectSeq(s, LAMBDA c : c # ".")
             IN  IF p \in DOMAIN Resolve THEN Resolve[p] ELSE NoFile

\* dirname() of a spelling.
dirname(s) == IF Len(s) > 1 THEN Front(s) ELSE <<".">>

\* The frame of a file just opened: its first line, nothing in progress.
NewFrame(s) == [sp |-> s, file |-> FileOf(s), ln |-> 1, proc |-> "NONE",
                currif |-> 0, currmap |-> 0, pend |-> <<>>]

\* A call that lets one file more be open than the limit.
CallPastLimit(stk, s) ==
    IF s \in seen THEN stack' = stk /\ seen' = seen
    ELSE /\ seen' = seen \cup {s}
         /\ stack' = IF FileOf(s) = NoFile \/ Len(stk) > MaxOpen THEN stk
                     ELSE Append(stk, NewFrame(s))

(***************************************************************************)
(* A call of read_interfaces_defn(defn, s) on top of the frames stk: a    *)
(* name already seen returns at once; otherwise it is recorded, and a     *)
(* file that fopen() cannot open (missing, or EMFILE) is skipped with a   *)
(* warning.                                                                *)
(***************************************************************************)
Call(stk, s) ==
    IF s \in seen THEN stack' = stk /\ seen' = seen
    ELSE /\ seen' = seen \cup {s}
         /\ stack' = IF FileOf(s) = NoFile \/ Len(stk) >= MaxOpen THEN stk
                     ELSE Append(stk, NewFrame(s))

\* read_interfaces(): "lo" joins the auto class before the root is read.
Start == /\ result = "init"
         /\ result' = "running"
         /\ allowups' = IF noLoopback THEN allowups
                        ELSE [allowups EXCEPT !["auto"] = Append(@, LoIface)]
         /\ Call(<<>>, Root)
         /\ UNCHANGED <<content, ifaces, mappings, lists, noLoopback, erred>>

\* read_interfaces() after the root returned defn: the synthetic loopback
\* stanza goes first, and seen_files is cleared.
Finish == /\ result = "running"
          /\ stack = <<>>
          /\ result' = "ok"
          /\ ifaces' = IF noLoopback THEN ifaces
                       ELSE <<[name |-> LoIface, fam |-> "inet", method |-> "loopback",
                               opts |-> <<>>]>> \o ifaces
          /\ seen' = {}
          /\ UNCHANGED <<content, stack, mappings, allowups, lists, noLoopback, erred>>

\* The end of a file: fclose() and return defn.
EndOfFile == /\ stack # <<>>
             /\ Top.ln > Len(content[Top.file])
             /\ Top.pend = <<>>
             /\ stack' = Front(stack)
             /\ UNCHANGED <<content, seen, defnVars, result, erred>>

\* A source loop that does not move on to the next file.
SourceNextStuck == /\ stack # <<>>
                   /\ Top.pend # <<>>
                   /\ LET p == Head(Top.pend)
                      IN  IF p.stat /\ FileOf(p.sp) = NoFile
                          THEN stack' = stack /\ seen' = seen
                          ELSE Call(stack, p.sp)
                   /\ UNCHANGED <<content, defnVars, result, erred>>

\* The next file of a source or source-dir line.  For source, stat()
\* drops a word naming no file before the call.
SourceNext == /\ stack # <<>>
              /\ Top.pend # <<>>
              /\ LET p == Head(Top.pend)
                     stk == [stack EXCEPT ![Len(stack)].pend = Tail(@)]
                 IN  IF p.stat /\ FileOf(p.sp) = NoFile
                     THEN stack' = stk /\ seen' = seen
                     ELSE Call(stk, p.sp)
              /\ UNCHANGED <<content, defnVars, result, erred>>

\* A line of the top frame is next.
LineNext == stack # <<>> /\ Top.pend = <<>> /\ Top.ln <= Len(content[Top.file])

\* A "mapping" line opens a mapping stanza with its match patterns.
HMapping ==
    /\ LineNext /\ Line.kw = "mapping"
    /\ mappings' = Append(mappings, [match |-> ToSet(Line.args), script |-> None,
                                     maps |-> <<>>])
    /\ SetTop("MAPPING", Top.currif, Len(mappings) + 1)
    /\ UNCHANGED <<content, seen, ifaces, allowups, lists, noLoopback, result, erred>>

\* Leave the files to read in pend; the recursion happens in SourceNext.
Sourcing(items) ==
    stack' = [stack EXCEPT ![Len(stack)] =
                 [@ EXCEPT !.ln = @ + 1, !.proc = "NONE", !.pend = items]]

(***************************************************************************)
(* The pattern of a source or source-dir line: an absolute word as it is, *)
(* a relative one after dirname() of the file being read and a slash.    *)
(* wordexp() expands a wildcard last component into the names it matches; *)
(* other words stand for themselves.                                       *)
(***************************************************************************)
SourcePattern(w) ==
    IF Head(Pattern[w]) = "/" THEN Pattern[w] ELSE dirname(Top.sp) \o Pattern[w]
wordexp(p) ==
    IF Last(p) \in DOMAIN Glob
    THEN [k \in DOMAIN Glob[Last(p)] |-> Front(p) \o <<Glob[Last(p)][k]>>]
    ELSE <<p>>

\* The directory at a spelling, by its path without "." components.
DirPath(d) == SelectSeq(d, LAMBDA c : c # ".")

\* "source <pattern>": every word of the expansion is read as a file.
HSource ==
    /\ LineNext /\ Line.kw = "source"
    /\ LET w == wordexp(SourcePattern(Line.args[1]))
       IN  Sourcing([k \in DOMAIN w |-> [sp |-> w[k], stat |-> TRUE]])
    /\ UNCHANGED <<content, seen, defnVars, result, erred>>

\* "source-dir <pattern>": every directory of the expansion that scandir()
\* can read, and in it every entry directory_filter() accepts, in order,
\* as the directory's word, a slash and the entry's name.
HSourceDir ==
    /\ LineNext /\ Line.kw \in SourceDirKws
    /\ LET dirs == SelectSeq(wordexp(SourcePattern(Line.args[1])), LAMBDA d : DirPath(d) \in DOMAIN DirEntries)
           names == FlattenSeq([k \in DOMAIN dirs |->
                       LET es == SelectSeq(DirEntries[DirPath(dirs[k])], LAMBDA e : e \in ValidName)
                       IN  [j \in DOMAIN es |-> dirs[k] \o <<es[j]>>]])
       IN  Sourcing([k \in DOMAIN names |-> [sp |-> names[k], stat |-> FALSE]])
    /\ UNCHANGED <<content, seen, defnVars, result, erred>>

(***************************************************************************)
(* "iface <name> [<family> <method>] [inherits <other>]", its words w.  A *)
(* family or method that is not in the registry must be the keyword       *)
(* inherits, whose parameter names an earlier stanza of the same family   *)
(* (of any family when the family word was itself inherits); its options  *)
(* are copied and its family and method fill in what is missing.  A       *)
(* fourth word that is not inherits is ignored with a warning.             *)
(***************************************************************************)
FamOk(w) == Word(w, 2) \in Fams
MethOk(w) == FamOk(w) /\ Word(w, 3) \in Methods

\* get_keyword() of the word that follows the resolved part of the line.
IfaceKw(w) ==
    LET x == Word(w, IF ~FamOk(w) THEN 2 ELSE IF ~MethOk(w) THEN 3 ELSE 4)
    IN  IF x = "inherits" THEN "inherits" ELSE None

InheritParam(w) == Word(w, IF ~FamOk(w) THEN 3 ELSE IF ~MethOk(w) THEN 4 ELSE 5)

\* get_interface(): the first stanza to inherit from, or 0.
InheritFrom(w) ==
    SelectInSeq(ifaces, LAMBDA i : i.name = InheritParam(w) /\ (~FamOk(w) \/ i.fam = Word(w, 2)))

\* An iface line whose error checks miss an unresolved method.
IfaceRejectedNoMethod(w) ==
    \/ w = <<>>
    \/ ~FamOk(w) /\ IfaceKw(w) = None
    \/ IfaceKw(w) = "inherits" /\ (InheritParam(w) = None \/ InheritFrom(w) = 0)

\* The error exits of the iface handler, in the order of the code.
IfaceRejected(w) ==
    \/ w = <<>>
    \/ ~FamOk(w) /\ IfaceKw(w) = None
    \/ ~MethOk(w) /\ IfaceKw(w) = None
    \/ IfaceKw(w) = "inherits" /\ (InheritParam(w) = None \/ InheritFrom(w) = 0)

HIface ==
    /\ LineNext /\ Line.kw = "iface"
    /\ LET w == Line.args
           inherits == IfaceKw(w) = "inherits"
           from == IF InheritFrom(w) = 0
                   THEN [fam |-> None, method |-> None, opts |-> <<>>]
                   ELSE ifaces[InheritFrom(w)]
           new == [name |-> w[1],
                   fam |-> IF FamOk(w) THEN w[2] ELSE from.fam,
                   method |-> IF MethOk(w) THEN w[3] ELSE from.method,
                   opts |-> IF inherits THEN from.opts ELSE <<>>]
       IN  IF IfaceRejected(w) THEN Reject
           ELSE /\ ifaces' = Append(ifaces, new)
                /\ noLoopback' = (noLoopback \/ (Word(w, 2) \in {"inet", "inet6"}
                                                 /\ Word(w, 3) = "loopback"))
                /\ SetTop("IFACE", Len(ifaces) + 1, Top.currmap)
                /\ UNCHANGED <<content, seen, mappings, allowups, lists, result, erred>>

\* add_allow_up(): append a name the class does not hold yet.
add_allow_up(names, ns) ==
    FoldLeft(LAMBDA acc, n : IF n \in ToSet(acc) THEN acc ELSE Append(acc, n), names, ns)

\* "auto" and "allow-<class>" lines.
HAllow ==
    /\ LineNext /\ Line.kw \in {"auto"} \cup DOMAIN AllowGroups
    /\ LET c == IF Line.kw = "auto" THEN "auto" ELSE AllowGroups[Line.kw]
       IN  allowups' = [allowups EXCEPT ![c] = add_allow_up(@, Line.args)]
    /\ SetTop("NONE", Top.currif, Top.currmap)
    /\ UNCHANGED <<content, seen, ifaces, mappings, lists, noLoopback, result, erred>>

\* "no-auto-down" and "no-scripts" lines: add_to_list() keeps duplicates.
HList ==
    /\ LineNext /\ Line.kw \in Lists
    /\ lists' = [lists EXCEPT ![Line.kw] = @ \o Line.args]
    /\ SetTop("NONE", Top.currif, Top.currmap)
    /\ UNCHANGED <<content, seen, ifaces, mappings, allowups, noLoopback, result, erred>>

(***************************************************************************)
(* set_variable(): an "n?" line sets option n only if it is unset; a hook *)
(* option is always appended; any other option replaces the value of the  *)
(* option of that name, or is appended.                                    *)
(***************************************************************************)
set_variable(opts, n, value) ==
    LET base == IF n \in DOMAIN Defaults THEN Defaults[n] ELSE n
        k == SelectInSeq(opts, LAMBDA o : o.name = base)
    IN  IF n \notin Hooks /\ k # 0
        THEN IF n \in DOMAIN Defaults THEN opts ELSE [opts EXCEPT ![k].value = value]
        ELSE Append(opts, [name |-> base, value |-> value])

\* An option line of an iface stanza: post-up is up and pre-down is down;
\* a repeated option other than a hook gets the new line appended to its
\* value, which set_variable() then finds already in place.
HOption ==
    /\ LineNext /\ Line.kw \notin Keywords /\ Top.proc = "IFACE"
    /\ LET n == CASE Line.kw = "post-up" -> "up"
                  [] Line.kw = "pre-down" -> "down"
                  [] OTHER -> Line.kw
           opts == ifaces[Top.currif].opts
           k == SelectInSeq(opts, LAMBDA o : o.name = n)
           value == IF n \notin Hooks /\ k # 0 THEN Append(opts[k].value, Line.args)
                    ELSE <<Line.args>>
       IN  IF Line.args = <<>> THEN Reject
           ELSE /\ ifaces' = [ifaces EXCEPT ![Top.currif].opts = set_variable(opts, n, value)]
                /\ SetTop("IFACE", Top.currif, Top.currmap)
                /\ UNCHANGED <<content, seen, mappings, allowups, lists, noLoopback, result, erred>>

\* "script" and "map" lines of a mapping stanza; a second script, or any
\* other option, is rejected.
HMapOption ==
    /\ LineNext /\ Line.kw \notin Keywords /\ Top.proc = "MAPPING"
    /\ LET m == Top.currmap
       IN  CASE Line.kw = "script" /\ mappings[m].script = None ->
                  /\ mappings' = [mappings EXCEPT ![m].script = Line.args]
                  /\ SetTop("MAPPING", Top.currif, m)
                  /\ UNCHANGED <<content, seen, ifaces, allowups, lists, noLoopback, result, erred>>
             [] Line.kw = "map" ->
                  /\ mappings' = [mappings EXCEPT ![m].maps = Append(@, Line.args)]
                  /\ SetTop("MAPPING", Top.currif, m)
                  /\ UNCHANGED <<content, seen, ifaces, allowups, lists, noLoopback, result, erred>>
             [] OTHER -> Reject

\* An option line outside any stanza.
HMisplaced ==
    /\ LineNext /\ Line.kw \notin Keywords /\ Top.proc = "NONE"
    /\ Reject

Next == \/ Start \/ Finish \/ EndOfFile \/ SourceNext
        \/ HMapping \/ HSource \/ HSourceDir \/ HIface \/ HAllow \/ HList
        \/ HOption \/ HMapOption \/ HMisplaced

Init == /\ stack = <<>>
        /\ seen = {}
        /\ ifaces = <<>>
        /\ mappings = <<>>
        /\ allowups = [c \in Classes |-> <<>>]
        /\ lists = [l \in Lists |-> <<>>]
        /\ noLoopback \in BOOLEAN    \* the --no-loopback option
        /\ result = "init"
        /\ erred = FALSE
        /\ content \in [Files -> UNION {Contents[f] : f \in Files}]
        /\ \A f \in Files : content[f] \in Contents[f]

Spec == Init /\ [][Next]_vars /\ WF_vars(Next)

-----------------------------------------------------------------------------
Frames == [sp : Seq(STRING), file : Files, ln : Nat, proc : {"NONE", "IFACE", "MAPPING"},
           currif : Nat, currmap : Nat, pend : Seq([sp : Seq(STRING), stat : BOOLEAN])]

TypeOK == /\ stack \in Seq(Frames) /\ Len(stack) <= MaxOpen
          /\ \A s \in seen : s \in Seq(STRING)
          /\ \A k \in DOMAIN ifaces : ifaces[k].name # None
          /\ allowups \in [Classes -> Seq(STRING)]
          /\ result \in {"init", "running", "ok", "fail"}
          /\ erred \in BOOLEAN /\ noLoopback \in BOOLEAN

(***************************************************************************)
(* Every stanza in defn has a family and a method, given on its iface     *)
(* line or inherited: an iface line that leaves either unresolved is      *)
(* rejected (the "unknown or no method" check of read_interfaces_defn).    *)
(***************************************************************************)
StanzasResolved ==
    \A k \in DOMAIN ifaces : ifaces[k].fam \in Fams /\ ifaces[k].method \in Methods

\* read_interfaces() returns, whatever the files hold.
ParseCompletes == <>(result \in {"ok", "fail"})

(***************************************************************************)
(* The spec (4.1): a failure anywhere (unknown family or method, missing  *)
(* inherits target, misplaced option, ...) aborts the parse of the whole  *)
(* tree.  read_interfaces() then must not return a defn.                   *)
(***************************************************************************)
ErrorAborts == result = "ok" => ~erred

====
