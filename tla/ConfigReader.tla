---------------------------- MODULE ConfigReader ----------------------------
(***************************************************************************)
(* The line reader of ifupdown's interfaces(5) parser                     *)
(* (src/components/ifupdown/config.c): get_line(), which reads a logical  *)
(* line into a buffer it grows with realloc(), skipping comment lines and *)
(* joining backslash continuations, next_word(), which cuts the first     *)
(* word off it into char firstword[80], and the loop of                   *)
(* read_interfaces_defn() that calls both until get_line() returns 0.     *)
(*                                                                         *)
(* The file is its sequence of characters, each a one-letter string.  The *)
(* buffer is its contents and its size *result_len; the size starts at 0  *)
(* and grows to len * 2 + GrowBy whenever fewer than MinRoom bytes are    *)
(* left (80 and 10 in the code).                                          *)
(***************************************************************************)
EXTENDS Naturals, Sequences, SequencesExt

CONSTANTS
    CfgChars,  \* the characters a file is made of
    MaxLen,    \* the longest file
    GrowBy,    \* the 80 of *result_len * 2 + 80
    MinRoom,   \* the 10 of *result_len - pos < 10; at least 2
    MaxWord    \* the maxlen of next_word(), sizeof firstword

LF == "\n"
\* isspace() over the characters of the model.
Space == {" ", "\t", LF}

\* while (isspace(c) && c) skip; and while (pos && isspace(..)) pos--.
RECURSIVE SkipSpace(_), DropTrailingSpace(_)
SkipSpace(b) == IF b # <<>> /\ Head(b) \in Space THEN SkipSpace(Tail(b)) ELSE b
DropTrailingSpace(b) == IF b # <<>> /\ Last(b) \in Space THEN DropTrailingSpace(Front(b)) ELSE b

\* if (pos != 0 && result[pos - 1] == '\n') result[--pos] = '\0'.
ChompLF(b) == IF b # <<>> /\ Last(b) = LF THEN Front(b) ELSE b

\* The test of the comment loop: the line, its newline cut and its leading
\* whitespace skipped (the memmove), starts with '#'.
IsCommentLine(b) == SkipSpace(ChompLF(b)) # <<>> /\ Head(SkipSpace(ChompLF(b))) = "#"

\* fgets(s, n, f) on a file with text left: at most n - 1 characters, up
\* to and including a newline.
Fgets(rest, n) ==
    LET take == IF Len(rest) < n - 1 THEN Len(rest) ELSE n - 1
        nl == SelectInSeq(SubSeq(rest, 1, take), LAMBDA c : c = LF)
        k == IF nl # 0 THEN nl ELSE take
    IN  [got |-> SubSeq(rest, 1, k), rest |-> SubSeq(rest, k + 1, Len(rest))]

RECURSIVE ReadPhys(_), AfterFgets(_, _)

\* *result_len after the realloc() the loop makes when fewer than MinRoom
\* bytes are left.
GrownLen(r) == IF r.len - Len(r.buf) < MinRoom THEN r.len * 2 + GrowBy ELSE r.len

\* fgets(*result + pos, *result_len - pos, f) and pos += strlen(..); at the
\* end of the file nothing is read.
FgetsInto(r, len) ==
    LET g == IF r.rest = <<>> THEN [got |-> <<>>, rest |-> <<>>] ELSE Fgets(r.rest, len - Len(r.buf))
    IN  [buf |-> r.buf \o g.got, len |-> len, rest |-> g.rest, fail |-> FALSE]

\* A read loop that goes on as long as the buffer is full.
AfterFgetsFull(r, s) ==
    CASE r.rest = <<>> /\ r.buf = <<>> -> [s EXCEPT !.fail = TRUE]
      [] Len(s.buf) = s.len - 1 -> ReadPhys(s)
      [] OTHER -> s

(***************************************************************************)
(* The inner do-while of get_line(), appending one physical line to the  *)
(* buffer from pos = Len(buf): grow when fewer than MinRoom bytes are      *)
(* left, fgets() into the rest (ReadPhys), and go on while the buffer is  *)
(* full and its last character is not a newline (AfterFgets).  fgets()    *)
(* at the end of the file with pos = 0 is get_line()'s return 0 (fail).   *)
(***************************************************************************)
ReadPhys(r) == AfterFgets(r, FgetsInto(r, GrownLen(r)))

AfterFgets(r, s) ==
    CASE r.rest = <<>> /\ r.buf = <<>> -> [s EXCEPT !.fail = TRUE]
      [] Len(s.buf) = s.len - 1 /\ Last(s.buf) # LF -> ReadPhys(s)
      [] OTHER -> s

\* The continuation loop: while the line ends in a backslash, drop it and
\* read the next physical line onto the end (ContinueWith); then cut the
\* trailing whitespace.
RECURSIVE Continue(_), ContinueWith(_, _)
Continue(s) ==
    IF s.result # <<>> /\ Last(s.result) = "\\"
    THEN ContinueWith(s, ReadPhys([buf |-> Front(s.result), len |-> s.len, rest |-> s.rest, fail |-> FALSE]))
    ELSE [s EXCEPT !.result = DropTrailingSpace(@)]

ContinueWith(s, r) ==
    IF r.fail THEN [s EXCEPT !.ret = 0, !.len = r.len]
    ELSE Continue([s EXCEPT !.result = ChompLF(r.buf), !.rest = r.rest, !.len = r.len, !.line = @ + 1])

(***************************************************************************)
(* get_line(): read physical lines, each with its leading whitespace      *)
(* skipped and the line counter stepped, until one does not start with    *)
(* '#' (GetLineFrom); then the continuation loop.  st is the reader's     *)
(* state between calls: the unread text, the buffer size and the line     *)
(* counter.                                                                *)
(***************************************************************************)
RECURSIVE get_line(_), GetLineFrom(_, _)
get_line(st) == GetLineFrom(st, ReadPhys([buf |-> <<>>, len |-> st.len, rest |-> st.rest, fail |-> FALSE]))

GetLineFrom(st, r) ==
    CASE r.fail -> [ret |-> 0, result |-> <<>>, rest |-> r.rest, len |-> r.len, line |-> st.line]
      [] IsCommentLine(r.buf) -> get_line([rest |-> r.rest, len |-> r.len, line |-> st.line + 1])
      [] OTHER -> Continue([ret |-> 1, result |-> SkipSpace(ChompLF(r.buf)), rest |-> r.rest,
                            len |-> r.len, line |-> st.line + 1])

\* next_word(): NoWord for an empty line; otherwise the first maxlen - 1
\* characters of the first word, whether the terminator was written (it is
\* not for a word of maxlen characters or more), and the text after the
\* word and its trailing whitespace.
NoWord == [word |-> <<>>, term |-> FALSE, rest |-> <<>>]

next_word(buf, maxlen) ==
    LET sp == SelectInSeq(buf, LAMBDA c : c \in Space)
        tok == IF sp = 0 THEN buf ELSE SubSeq(buf, 1, sp - 1)
    IN  IF buf = <<>> THEN NoWord
        ELSE [word |-> SubSeq(tok, 1, IF Len(tok) < maxlen THEN Len(tok) ELSE maxlen - 1),
              term |-> Len(tok) < maxlen,
              rest |-> SkipSpace(SubSeq(buf, Len(tok) + 1, Len(buf)))]

(***************************************************************************)
(* The loop of read_interfaces_defn(): get_line() until it returns 0      *)
(* (ReadLoop), next_word(buf, firstword, 80), a blank line skipped         *)
(* (LoopBody); each line the parser dispatches is its line number, first  *)
(* word and rest.                                                          *)
(***************************************************************************)
RECURSIVE ReadLoop(_, _), LoopBody(_, _)
ReadLoop(st, acc) == LoopBody(get_line(st), acc)

LoopBody(g, acc) ==
    CASE g.ret = 0 -> acc
      [] g.result = <<>> -> ReadLoop([rest |-> g.rest, len |-> g.len, line |-> g.line], acc)
      [] OTHER -> ReadLoop([rest |-> g.rest, len |-> g.len, line |-> g.line],
                           Append(acc, [line |-> g.line, first |-> next_word(g.result, MaxWord).word,
                                        term |-> next_word(g.result, MaxWord).term,
                                        rest |-> next_word(g.result, MaxWord).rest]))

read_interfaces_lines(f) == ReadLoop([rest |-> f, len |-> 0, line |-> 0], <<>>)

-----------------------------------------------------------------------------
\* The file, written one character at a time.
VARIABLE cfgtext

ReaderInit == cfgtext = <<>>

ReaderIdle == ReaderInit

AddChar == /\ Len(cfgtext) < MaxLen
           /\ \E c \in CfgChars : cfgtext' = Append(cfgtext, c)

ReaderNext == AddChar

(***************************************************************************)
(* The reference reading of interfaces(5): the file is split into its    *)
(* physical lines; a line whose first non-blank character is '#' is a    *)
(* comment; any other starts a logical line that runs to the first       *)
(* physical line not ending in a backslash, the backslashes dropped; the *)
(* logical line is trimmed, and a blank one is ignored.  Its number is   *)
(* that of its last physical line.                                        *)
(***************************************************************************)
RECURSIVE PhysLines(_)
PhysLines(f) ==
    IF f = <<>> THEN <<>>
    ELSE LET nl == SelectInSeq(f, LAMBDA c : c = LF)
         IN  IF nl = 0 THEN <<f>> ELSE <<SubSeq(f, 1, nl - 1)>> \o PhysLines(SubSeq(f, nl + 1, Len(f)))

EndsInBackslash(p) == p # <<>> /\ Last(p) = "\\"

IsComment(p) == SkipSpace(p) # <<>> /\ Head(SkipSpace(p)) = "#"

\* Physical lines i to j with the backslashes that continue them dropped.
Joined(ps, i, j) ==
    LET part(k) == IF EndsInBackslash(ps[k]) THEN Front(ps[k]) ELSE ps[k]
    IN  FoldLeft(LAMBDA a, k : a \o part(k), <<>>, [n \in 1..(j - i + 1) |-> i + n - 1])

RECURSIVE Logical(_, _)
Logical(ps, i) ==
    IF i > Len(ps) THEN <<>>
    ELSE IF IsComment(ps[i]) THEN Logical(ps, i + 1)
    ELSE LET j == CHOOSE j \in i..Len(ps) : /\ j = Len(ps) \/ ~EndsInBackslash(ps[j])
                                            /\ \A k \in i..(j - 1) : EndsInBackslash(ps[k])
         IN  <<[from |-> i, to |-> j, text |-> Joined(ps, i, j)]>>
             \o Logical(ps, j + 1)

\* A trimmed logical line as the parser should see it: its first word and
\* the text after the word and the blanks that follow it.
RefLine(x) ==
    LET t == DropTrailingSpace(SkipSpace(x.text))
        n == CHOOSE n \in 0..Len(t) : /\ \A k \in 1..n : t[k] \notin Space
                                      /\ n = Len(t) \/ t[n + 1] \in Space
    IN  [line |-> x.to, first |-> SubSeq(t, 1, n), term |-> TRUE,
         rest |-> SkipSpace(SubSeq(t, n + 1, Len(t)))]

RefLines(f) ==
    LET L == SelectSeq(Logical(PhysLines(f), 1),
                       LAMBDA x : DropTrailingSpace(SkipSpace(x.text)) # <<>>)
    IN  [k \in DOMAIN L |-> RefLine(L[k])]

\* The files the reference and the code are compared on: no logical line
\* ends in a backslash at the end of the file, none starts with a physical
\* line that is blank but for its backslash, and no first word fills
\* firstword.
Comparable(f) ==
    LET ps == PhysLines(f)
        L == Logical(ps, 1)
    IN  \A k \in DOMAIN L :
            /\ ~(L[k].to = Len(ps) /\ EndsInBackslash(ps[L[k].to]))
            /\ ~(SkipSpace(ps[L[k].from]) = <<"\\">> /\ L[k].to > L[k].from)
            /\ Len(RefLine(L[k]).first) < MaxWord
            /\ \A m \in L[k].from..(L[k].to - 1) :
                  ~(ps[m + 1] = <<>> /\ EndsInBackslash(Joined(ps, L[k].from, m)))

(***************************************************************************)
(* read_interfaces_defn() dispatches exactly the logical lines of the     *)
(* file, in order, with the number of their last physical line for its   *)
(* error messages, their first word and the rest: get_line() reads every *)
(* physical line whole however its length falls against the buffer it   *)
(* grows (a line that fills the buffer exactly with its newline is not   *)
(* joined to the next), keeps the buffer size and line count right across *)
(* calls, skips comments and joins continuations.                         *)
(***************************************************************************)
ReaderAgrees == Comparable(cfgtext) => read_interfaces_lines(cfgtext) = RefLines(cfgtext)
====
