--------------------------- MODULE TemplateParse ----------------------------
(***************************************************************************)
(* The command template engine of ifupdown: parse() and get_var() of       *)
(* execute.c, which expand a method's command template such as            *)
(*     ip addr add %address%/%netmask% [[mtu %mtu%]]                       *)
(* against the options of one interface.  A string is a sequence of       *)
(* one-character strings; the terminating NUL is "".                       *)
(*                                                                         *)
(* Parse(cmd) is the C code, step by step, as a RECURSIVE operator over    *)
(* the scanner's state.  It is a set of outcomes because parse() reads     *)
(* the byte four places before a closing '%' whether or not that byte is   *)
(* inside the template: a read before the template is undefined, and the   *)
(* byte found there is any byte, '/' or not.  Expand(cmd) is the expansion *)
(* the template grammar describes, written independently with a stack of  *)
(* output buffers, one per open optional segment.                          *)
(*                                                                         *)
(* The templates checked are all concatenations of at most MaxTokens      *)
(* pieces of Tokens; the variable cmd holds the one being checked.         *)
(***************************************************************************)
EXTENDS Naturals, Sequences, SequencesExt

CONSTANTS
    MaxOptDepth,  \* MAX_OPT_DEPTH: the size of parse()'s old_pos and okay arrays
    Options,      \* the interface's options: a function from name to value
    IfaceName,    \* the special variable name "iface"
    RealIface,    \* ifd->real_iface, what %iface% expands to
    Other,        \* a byte that is not '/'
    Tokens,       \* the pieces the checked templates are put together from
    MaxTokens     \* the number of pieces of a checked template at most

ASSUME MaxOptDepth \in Nat \ {0, 1} /\ RealIface # <<>> /\ Other # "/"

NUL == ""

\* The byte at index k of the NUL-terminated string s.
At(s, k) == IF k \in 1..Len(s) THEN s[k] ELSE NUL

(***************************************************************************)
(* get_var(): "iface" is the real interface; an option is its value,      *)
(* and an option that is missing or empty is unset.  Unset is <<>>.        *)
(* Options other than the hook commands have one entry per name           *)
(* (set_variable), so a function from name to value stands for the        *)
(* option array.                                                           *)
(***************************************************************************)
get_var(name) ==
    IF name = IfaceName THEN RealIface
    ELSE IF name \in DOMAIN Options THEN Options[name]
    ELSE <<>>

(***************************************************************************)
(* The scanner state of parse(): the index i of *command, the result      *)
(* buffer (out, and whether result has been allocated), opt_depth, and    *)
(* the old_pos and okay arrays, indexed 0 .. MAX_OPT_DEPTH-1 as in C.      *)
(* pos is Len(out): the buffer always holds result[0..pos-1].              *)
(***************************************************************************)
ParseInit ==
    [kind |-> "run", i |-> 1, out |-> <<>>, alloc |-> FALSE, depth |-> 1,
     old_pos |-> [d \in 0..MaxOptDepth-1 |-> 0],
     okay |-> [d \in 0..MaxOptDepth-1 |-> d = 0]]

Outcome(kind, out) == [kind |-> kind, out |-> out]

\* addstr(): append s, allocating result on the first call; then move on
\* to index next of the template.
addstr(st, s, next) == [st EXCEPT !.out = @ \o s, !.alloc = TRUE, !.i = next]

\* A '[[' that does not reset okay[opt_depth] for the new segment.
OpenOptNoReset(st) ==
    [st EXCEPT !.old_pos[st.depth] = Len(st.out), !.depth = @ + 1, !.i = @ + 2]

\* '[[' opens an optional segment while opt_depth < MAX_OPT_DEPTH.
OpenOpt(st) ==
    [st EXCEPT !.old_pos[st.depth] = Len(st.out), !.okay[st.depth] = TRUE,
               !.depth = @ + 1, !.i = @ + 2]

\* ']]' closes one: a segment in which a variable was unset is cut off at
\* old_pos by result[pos] = '\0', which writes through NULL when nothing
\* has been added to result yet.
CloseOpt(st) ==
    LET d == st.depth - 1
    IN  IF st.okay[d] THEN [st EXCEPT !.depth = d, !.i = @ + 2]
        ELSE IF ~st.alloc THEN Outcome("crash", <<>>)
        ELSE [st EXCEPT !.depth = d, !.out = SubSeq(@, 1, st.old_pos[d]),
                        !.i = @ + 2]

(***************************************************************************)
(* A '%' at index i: the name runs to the next '%', at j.  If the byte at *)
(* j-4 is '/', the reference is %name/p/r%: pat is the byte at j-3, rep    *)
(* the byte at j-1, and namelen, a size_t, loses 4.  When the name is     *)
(* shorter than four bytes this wraps around, and get_var() then compares *)
(* the rest of the template, which holds the closing '%', with every name  *)
(* and matches none: the variable is unset.                                *)
(***************************************************************************)
Variable(cmd, st) ==
    LET i == st.i
        j == SelectInSubSeq(cmd, i + 1, Len(cmd), LAMBDA c : c = "%")
        namelen == j - (i + 1)
        bytes == IF j - 4 >= 1 THEN {cmd[j - 4]} ELSE {"/", Other}
        Expanded(slash) ==
            LET name == SubSeq(cmd, i + 1, j - 1 - (IF slash THEN 4 ELSE 0))
                v == IF slash /\ namelen < 4 THEN <<>> ELSE get_var(name)
                value == IF slash THEN ReplaceAll(v, cmd[j - 3], cmd[j - 1]) ELSE v
            IN  IF v # <<>> THEN addstr(st, value, j + 1)
                ELSE [st EXCEPT !.okay[st.depth - 1] = FALSE, !.i = j + 1]
    IN  IF j = 0 THEN {Outcome("unbalper", <<>>)}
        ELSE {Expanded(b = "/") : b \in bytes}

\* A '\\' that takes the next byte even when it is the terminating NUL.
ParseStepNoEndCheck(cmd, st) ==
    LET i == st.i
        c == cmd[i]
        next == At(cmd, i + 1)
    IN  CASE c = "\\" -> {addstr(st, <<next>>, i + 2)}
          [] c = "[" /\ next = "[" /\ st.depth < MaxOptDepth -> {OpenOpt(st)}
          [] c = "]" /\ next = "]" /\ st.depth > 1 -> {CloseOpt(st)}
          [] c = "%" -> Variable(cmd, st)
          [] OTHER -> {addstr(st, <<c>>, i + 1)}

\* The successors of one pass of parse()'s switch over *command.
ParseStep(cmd, st) ==
    LET i == st.i
        c == cmd[i]
        next == At(cmd, i + 1)
    IN  CASE c = "\\" /\ next # NUL -> {addstr(st, <<next>>, i + 2)}
          [] c = "[" /\ next = "[" /\ st.depth < MaxOptDepth -> {OpenOpt(st)}
          [] c = "]" /\ next = "]" /\ st.depth > 1 -> {CloseOpt(st)}
          [] c = "%" -> Variable(cmd, st)
          [] OTHER -> {addstr(st, <<c>>, i + 1)}

\* After the scan: unbalanced brackets, then an unset variable outside any
\* optional segment, fail; a result never allocated is returned as NULL.
ParseEnd(st) ==
    IF st.depth > 1 THEN Outcome("unbalbrack", <<>>)
    ELSE IF ~st.okay[0] THEN Outcome("undefvar", <<>>)
    ELSE IF ~st.alloc THEN Outcome("null", <<>>)
    ELSE Outcome("ok", st.out)

RECURSIVE Scan(_, _)
Scan(cmd, st) ==
    IF st.i > Len(cmd) THEN {ParseEnd(st)}
    ELSE UNION {IF n.kind = "run" THEN Scan(cmd, n) ELSE {n} :
                    n \in ParseStep(cmd, st)}

Parse(cmd) == Scan(cmd, ParseInit)

(***************************************************************************)
(* The expansion the template grammar describes: text with escapes \x,    *)
(* references %name% and %name/p/r% (the value of name with p replaced by *)
(* r), and optional segments [[ ... ]] nesting below a fixed depth, where *)
(* an unset variable suppresses its segment and, outside every segment,   *)
(* makes the whole command undefined.  stack holds one buffer per open    *)
(* segment, the whole command's at the bottom; refs collects the spans    *)
(* <<i, j>> of the variable references it reads.                           *)
(***************************************************************************)
Emit(stack, s) == [stack EXCEPT ![Len(stack)].text = @ \o s]

\* The value of the reference whose text, between its '%'s, is t.
Reference(t) ==
    IF Len(t) >= 4 /\ t[Len(t) - 3] = "/"
    THEN ReplaceAll(get_var(SubSeq(t, 1, Len(t) - 4)), t[Len(t) - 2], t[Len(t)])
    ELSE get_var(t)

RECURSIVE ExpandFrom(_, _, _, _)
ExpandFrom(cmd, i, stack, refs) ==
    LET c == At(cmd, i)
        next == At(cmd, i + 1)
        top == stack[Len(stack)]
        j == SelectInSubSeq(cmd, i + 1, Len(cmd), LAMBDA x : x = "%")
        v == Reference(SubSeq(cmd, i + 1, j - 1))
        Done(kind, out) == [kind |-> kind, out |-> out, refs |-> refs]
    IN  IF c = NUL
        THEN IF Len(stack) > 1 THEN Done("unbalbrack", <<>>)
             ELSE IF ~top.ok THEN Done("undefvar", <<>>)
             ELSE Done("ok", top.text)
        ELSE IF c = "\\" /\ next # NUL
        THEN ExpandFrom(cmd, i + 2, Emit(stack, <<next>>), refs)
        ELSE IF c = "[" /\ next = "[" /\ Len(stack) < MaxOptDepth
        THEN ExpandFrom(cmd, i + 2, Append(stack, [text |-> <<>>, ok |-> TRUE]), refs)
        ELSE IF c = "]" /\ next = "]" /\ Len(stack) > 1
        THEN ExpandFrom(cmd, i + 2,
                        IF top.ok THEN Emit(Front(stack), top.text) ELSE Front(stack),
                        refs)
        ELSE IF c = "%" /\ j = 0 THEN Done("unbalper", <<>>)
        ELSE IF c = "%"
        THEN ExpandFrom(cmd, j + 1,
                        IF v = <<>> THEN [stack EXCEPT ![Len(stack)].ok = FALSE]
                        ELSE Emit(stack, v),
                        refs \cup {<<i, j>>})
        ELSE ExpandFrom(cmd, i + 1, Emit(stack, <<c>>), refs)

Expand(cmd) == ExpandFrom(cmd, 1, <<[text |-> <<>>, ok |-> TRUE]>>, {})

-----------------------------------------------------------------------------
(***************************************************************************)
(* The checked templates, one piece at a time.                             *)
(***************************************************************************)
VARIABLES cmd, pieces

vars == <<cmd, pieces>>

Init == cmd = <<>> /\ pieces = 0

Extend == /\ pieces < MaxTokens
          /\ \E t \in Tokens : cmd' = cmd \o t
          /\ pieces' = pieces + 1

Spec == Init /\ [][Extend]_vars

-----------------------------------------------------------------------------
Kinds == {"ok", "null", "crash", "unbalper", "unbalbrack", "undefvar"}

\* The bytes of the templates and of the values they can expand to.
Chars == UNION {ToSet(t) : t \in Tokens} \cup ToSet(RealIface)
         \cup UNION {ToSet(Options[n]) : n \in DOMAIN Options}

\* Every outcome of parse() is an error or a NUL-free string.
TypeOK == /\ pieces \in 0..MaxTokens
          /\ \A o \in Parse(cmd) : o \in [kind : Kinds, out : Seq(Chars)]

\* A reference read with a '/' at the byte four before its closing '%' and
\* a name shorter than four bytes: parse() takes it for %name/p/r%.
ShortNameAfterSlash ==
    \E r \in Expand(cmd).refs :
        r[2] - r[1] - 1 < 4 /\ (r[2] - 4 < 1 \/ cmd[r[2] - 4] = "/")

(***************************************************************************)
(* parse() expands every template as the grammar says: same text, same    *)
(* error, including nested and suppressed optional segments, escapes,     *)
(* substitutions and brackets past MAX_OPT_DEPTH.  Exempt are the three   *)
(* places the code is known to differ (see the runs null_write and       *)
(* short_name): a short name read as %name/p/r%, the crash of a           *)
(* NULL write, and an empty expansion, which parse() returns as NULL.     *)
(***************************************************************************)
ParseMatchesGrammar ==
    \A o \in Parse(cmd) :
        LET e == Expand(cmd)
        IN  \/ o = [kind |-> e.kind, out |-> e.out]
            \/ o.kind = "null" /\ e.kind = "ok" /\ e.out = <<>>
            \/ o.kind = "crash"
            \/ ShortNameAfterSlash

\* parse() never writes through a NULL result buffer.
NoNullWrite == \A o \in Parse(cmd) : o.kind # "crash"

\* A template whose every reference names a set variable, and which is
\* otherwise well formed, never fails with "Missing required variable".
SetVariablesExpand ==
    \A o \in Parse(cmd) : Expand(cmd).kind = "ok" => o.kind # "undefvar"

====
