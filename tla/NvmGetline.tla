---------------------------- MODULE NvmGetline ------------------------------
(***************************************************************************)
(* The line reader of the nvmore pager (src/components/libnvmore/         *)
(* nvmore.c): nvm_getline() reads one screen line of the file into the    *)
(* global char Line[LINSIZ], folding at Mcol columns, and screen() calls  *)
(* it until it returns EOF; the next file is then opened (Fopen() sets    *)
(* Currline to 0).  The static colflg survives from call to call and     *)
(* from file to file.                                                      *)
(*                                                                         *)
(* Characters are names: "a" a printable character, "TAB", "BS", "CR",    *)
(* "NL", "FF" and "DEL", and "FEND" the end of one file of the sequence.  *)
(* Only code set 0 is modelled (csno is 0 off Sun).  Line is the sequence *)
(* of characters written from Line[0]; hi is the highest index written.   *)
(***************************************************************************)
EXTENDS Integers, Sequences, SequencesExt

CONSTANTS
    LINSIZ,      \* the size of Line (512)
    Mcol,        \* the number of columns (80, or the window's)
    NvmChars,    \* the characters a file is made of
    NvmMaxLen,   \* the most characters of all files together
    NvmTerms,    \* terminals other than the default: Wrap (am) and
                 \* eat_newline_glitch (xenl)
    NvmArgs      \* option strings of the command line, as sequences

\* EOF as Getc() returns it, and as nvm_getline() returns it (-1).
NvmEOF == "EOF"
EOFret == -1

\* The characters below ' ' and the letter c | ('A' - 1) cr_opt shows.
Ctrl == {"TAB", "BS", "CR", "NL", "FF"}
CtrlLetter == [c \in {"BS", "CR", "FF"} |-> CASE c = "BS" -> "H" [] c = "CR" -> "M" [] OTHER -> "L"]

\* 1 + (column | 7): the next tab stop.
TabStop(col) == (col \div 8 + 1) * 8

\* Getc(f): the next character of the current file, EOF at its end.
Getc(in) == IF in = <<>> \/ Head(in) = "FEND" THEN NvmEOF ELSE Head(in)
Rest(in) == IF in = <<>> \/ Head(in) = "FEND" THEN in ELSE Tail(in)

\* i is written to: the highest index of Line written so far.
Wrote(s, i) == [s EXCEPT !.hi = IF i > @ THEN i ELSE @]
\* *p++ = c, and p[-1] = c.
Put(s, c) == [Wrote(s, Len(s.line)) EXCEPT !.line = Append(@, c)]
SetLast(s, c) == [s EXCEPT !.line = [@ EXCEPT ![Len(@)] = c]]

(***************************************************************************)
(* The code after the loop: a line at the margin gets a newline on a      *)
(* terminal without automatic margins; colflg records a line that ended   *)
(* exactly at the margin while folding; with the xenl glitch the newline  *)
(* the terminal will not make is added; then *p = 0.                      *)
(***************************************************************************)
Finish(s, o) ==
    LET s1 == IF s.column >= Mcol /\ Mcol > 0 /\ ~o.wrap THEN Put(s, "NL") ELSE s
        colflg == s1.column = Mcol /\ o.fold
        s2 == IF colflg /\ o.glitch /\ o.wrap THEN Put(s1, "NL") ELSE s1
    IN  [Wrote(s2, Len(s2.line)) EXCEPT !.ret = s2.column, !.colflg = colflg]

\* The rest of the loop body for code set 0 once c is stored with *p++ = c:
\* its else-if chain (the tab expansion over a prompt is not modelled; the
\* EOF branch of the chain cannot be reached).
Column(s, c, o) ==
    CASE c = "TAB" -> [s EXCEPT !.column = TabStop(@)]
      [] c = "BS" /\ (o.ul \/ ~o.cr) /\ s.column > 0 -> [s EXCEPT !.column = @ - 1]
      [] c = "CR" /\ ~o.cr -> [s EXCEPT !.oldcolumn = s.column, !.column = 0]
      [] c = "FF" /\ o.stop -> [Put(SetLast(s, "^"), "L") EXCEPT !.column = @ + 2, !.pause = @ + 1]
      [] c \in Ctrl /\ o.cr -> [Put(SetLast(s, "^"), CtrlLetter[c]) EXCEPT !.column = @ + 2]
      [] c \notin Ctrl /\ c # "DEL" -> [s EXCEPT !.column = @ + 1]
      [] OTHER -> s

(***************************************************************************)
(* The while loop of nvm_getline(), entered with the character c read     *)
(* (s.in is what follows it).  It ends when p reaches &Line[LINSIZ - 1]   *)
(* (the character read is then dropped: filled), at EOF (the line,        *)
(* without the code after the loop, or EOF for an empty one), at a        *)
(* newline (a "\r\n" loses its '\r' and column goes back), or when        *)
(* folding at Mcol.  NvmStored is the end of the body once c is stored.   *)
(***************************************************************************)
RECURSIVE NvmLoop(_, _, _), NvmStored(_, _)
NvmLoop(s, c, o) ==
    CASE Len(s.line) >= LINSIZ - 1 -> Finish([s EXCEPT !.filled = TRUE], o)
      [] c = NvmEOF /\ s.line # <<>> -> [Wrote(s, Len(s.line)) EXCEPT !.ret = s.column, !.eofs = @ + 1]
      [] c = NvmEOF -> [s EXCEPT !.ret = EOFret, !.eofs = @ + 1]
      [] c = "NL" /\ s.line # <<>> /\ Last(s.line) = "CR" ->
            Finish([s EXCEPT !.column = s.oldcolumn, !.line = Front(@), !.cur = @ + 1], o)
      [] c = "NL" -> Finish([s EXCEPT !.cur = @ + 1], o)
      [] OTHER -> NvmStored(Column(Put(s, c), c, o), o)

NvmStored(t, o) ==
    IF t.column >= Mcol /\ o.fold THEN Finish(t, o)
    ELSE NvmLoop([t EXCEPT !.in = Rest(@)], Getc(t.in), o)

(***************************************************************************)
(* nvm_getline(st, o): st holds the unread input, the static colflg,      *)
(* Currline (cur) and Pause, the ghosts hi and filled, and eofs, the      *)
(* Getc() calls that returned EOF (file_pos counts them too).  A newline  *)
(* right after a line that ended at the margin is eaten.                  *)
(***************************************************************************)
\* A reader that eats any character after a line at the margin.
NvmEatsAny(st) == st.colflg /\ Getc(st.in) # NvmEOF
NvmEats(st) == st.colflg /\ Getc(st.in) = "NL"
NvmStart(st, eat, o) ==
    LET in == IF eat THEN Rest(Rest(st.in)) ELSE Rest(st.in)
        s == [st EXCEPT !.line = <<>>, !.column = 0, !.oldcolumn = 0, !.in = in,
                        !.cur = @ + (IF eat THEN 1 ELSE 0)]
    IN  NvmLoop(s, Getc(IF eat THEN Rest(st.in) ELSE st.in), o)
nvm_getline(st, o) == NvmStart(st, NvmEats(st), o)

(***************************************************************************)
(* screen() and the file loop around it: each line nvm_getline() returns  *)
(* is shown with prbuf(Line, length), except a second empty line in a     *)
(* row under -s (prev_len is static); at EOF the next file is opened,     *)
(* which sets Currline to 0 and leaves colflg and prev_len.  The result   *)
(* is one record per file: its Currline at EOF, the "a" characters shown, *)
(* and the ghosts.  Prompts and commands between screens do not change    *)
(* what is read and are left out.                                         *)
(***************************************************************************)
CountOf(x, seq) == Len(SelectSeq(seq, LAMBDA y : y = x))
NvmFile(st) == [cur |-> st.cur, shown |-> st.shown, hi |-> st.hi, filled |-> st.filled]
NvmOpen(st, in) == [st EXCEPT !.in = in, !.cur = 0, !.shown = 0, !.hi = 0, !.filled = FALSE]

RECURSIVE NvmScreen(_, _, _), NvmShow(_, _, _)
NvmScreen(st, o, files) == NvmShow(nvm_getline(st, o), o, files)
NvmShow(r, o, files) ==
    CASE r.ret = EOFret /\ r.in = <<>> -> Append(files, NvmFile(r))
      [] r.ret = EOFret -> NvmScreen(NvmOpen(r, Tail(r.in)), o, Append(files, NvmFile(r)))
      [] o.ssp /\ Len(r.line) = 0 /\ r.prevlen = 0 -> NvmScreen(r, o, files)
      [] OTHER -> NvmScreen([r EXCEPT !.shown = @ + CountOf("a", r.line), !.prevlen = Len(r.line)], o, files)

NvmRead(text, o) ==
    NvmScreen(NvmOpen([line |-> <<>>, column |-> 0, oldcolumn |-> 0, colflg |-> FALSE, pause |-> 0,
                       prevlen |-> 1, ret |-> 0, in |-> <<>>, cur |-> 0, shown |-> 0, hi |-> 0,
                       filled |-> FALSE, eofs |-> 0], text), o, <<>>)

(***************************************************************************)
(* The options: their initial values (Wrap 1 until the terminal is read;  *)
(* an xterm has am and xenl), the terminal's flags, and argscan(), one    *)
(* letter after the other.                                                 *)
(***************************************************************************)
NvmDefaults == [fold |-> TRUE, stop |-> TRUE, ssp |-> FALSE, ul |-> TRUE, cr |-> FALSE,
                wrap |-> TRUE, glitch |-> TRUE]
ArgLetter(o, l) ==
    CASE l = "l" -> [o EXCEPT !.stop = FALSE]
      [] l = "f" -> [o EXCEPT !.fold = FALSE]
      [] l = "s" -> [o EXCEPT !.ssp = TRUE]
      [] l = "u" -> [o EXCEPT !.ul = FALSE]
      [] l = "r" -> [o EXCEPT !.cr = TRUE]
      [] OTHER -> o
argscan(o, a) == FoldLeft(ArgLetter, o, a)

(***************************************************************************)
(* The files given on the command line, one character at a time, and the  *)
(* options of the run, set before the first file is read.                 *)
(***************************************************************************)
VARIABLES nvtext, nvopts
nvmvars == <<nvtext, nvopts>>

NvmInit == nvtext = <<>> /\ nvopts = NvmDefaults
NvmIdle == nvtext = <<>> /\ nvopts = NvmDefaults
NvmSetup ==
    /\ NvmIdle
    /\ \E t \in NvmTerms, a \in NvmArgs :
          nvopts' = argscan([nvopts EXCEPT !.wrap = t.wrap, !.glitch = t.glitch], a)
    /\ UNCHANGED nvtext
AddNvmChar ==
    /\ Len(nvtext) < NvmMaxLen
    /\ \E c \in NvmChars : nvtext' = Append(nvtext, c)
    /\ UNCHANGED nvopts
NvmNext == NvmSetup \/ AddNvmChar

\* The files themselves, split at the ends of files.
RECURSIVE FileTexts(_, _)
FileTexts(text, cur) ==
    CASE text = <<>> -> <<cur>>
      [] Head(text) = "FEND" -> <<cur>> \o FileTexts(Tail(text), <<>>)
      [] OTHER -> FileTexts(Tail(text), Append(cur, Head(text)))

(***************************************************************************)
(* Nothing is lost: for each file in which no line filled Line, Currline  *)
(* at EOF is the number of newlines of the file and every printable      *)
(* character of it was shown once, whatever the folding, the "\r\n"      *)
(* handling, the newline eaten after a line at the margin (colflg, kept  *)
(* from call to call and from file to file) and the -s squeezing did.     *)
(***************************************************************************)
NvmNothingLost ==
    LET r == NvmRead(nvtext, nvopts)
        f == FileTexts(nvtext, <<>>)
    IN  /\ Len(r) = Len(f)
        /\ \A i \in 1..Len(r) : ~r[i].filled =>
              /\ r[i].cur = CountOf("NL", f[i])
              /\ r[i].shown = CountOf("a", f[i])
====
