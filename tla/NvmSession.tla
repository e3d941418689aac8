---------------------------- MODULE NvmSession ------------------------------
(***************************************************************************)
(* A session of the nvmore pager (src/components/libnvmore/nvmore.c):     *)
(* the file loop of main(), screen(), and command() with the key          *)
(* commands that move in the file: space, z, d, s, f, newline, ^L, ',     *)
(* =, b, / and n, the repeat ".", and :n, :p and :q (colon(), skipf()).   *)
(* Lines are read with nvm_getline() of NvmGetline, skiplns() and         *)
(* rdline().                                                               *)
(*                                                                         *)
(* file_pos is the count of Getc() calls less the Ungetc() calls, as the  *)
(* macros keep it, so a Getc() that returns EOF moves it past the end.    *)
(* Currline is meant to be the number of newlines before file_pos.  The  *)
(* marks screen_start and context save both; ^L and ' restore them.       *)
(* Only the terminal's defaults are modelled: a scrolling terminal with  *)
(* no clreol, input from a tty, no -c, -p, -d or +line options.           *)
(***************************************************************************)
EXTENDS NvmGetline

CONSTANTS
    NvmFileSets,   \* the file lists a session can be given
    NvmLpp,        \* Lpp, the terminal's lines
    NvmScroll,     \* the initial nscroll (11)
    NvmKeys,       \* the command keys typed
    NvmCounts,     \* the counts typed before a key
    NvmPatterns    \* the regular expressions typed after '/' ("" for
                   \* none: search() then compiles lastbuf)

VARIABLES
    nsfiles,    \* fnames: the files, each a sequence of characters
    nsmode,     \* "open", "startcmd" (the prompt before a file), "screen",
                \* "cmd" (the prompt in screen()), "close", "done"
    nsfnum,     \* fnum
    nsfirstf,   \* firstf
    nspos,      \* file_pos
    nscur,      \* Currline
    nsstart,    \* screen_start
    nsctx,      \* context
    nsdlines,   \* dlines
    nsscroll,   \* nscroll
    nsleft,     \* left, and num_lines of screen()
    nslast,     \* lastcmd, lastarg, lastcolon
    nsre,       \* have_re and lastbuf of search()
    nsline      \* the statics colflg and prev_len, and Pause
nsvars == <<nsfiles, nsmode, nsfnum, nsfirstf, nspos, nscur, nsstart, nsctx, nsdlines, nsscroll,
            nsleft, nslast, nsre, nsline>>

\* The session runs with the option defaults on an xterm.
NsOpts == NvmDefaults

NsFile == nsfiles[nsfnum + 1]
nfiles == Len(nsfiles)
prnames == nfiles > 1
Mark(line, chrctr) == [line |-> line, chrctr |-> chrctr]

\* What Getc() reads from file_pos on.
Unread(f, pos) == IF pos >= Len(f) THEN <<>> ELSE SubSeq(f, pos + 1, Len(f))
\* The newlines before file_pos: what Currline should be.
NLsBefore(f, pos) == CountOf("NL", SubSeq(f, 1, IF pos < Len(f) THEN pos ELSE Len(f)))

(***************************************************************************)
(* skiplns(), and the skipping loop of 's' and 'f': read to the end of n  *)
(* lines, counting them in Currline; at EOF stop (eof).                   *)
(***************************************************************************)
RECURSIVE skiplns(_, _, _, _)
skiplns(f, pos, cur, n) ==
    CASE n <= 0 -> [pos |-> pos, cur |-> cur, eof |-> FALSE]
      [] pos >= Len(f) -> [pos |-> pos + 1, cur |-> cur, eof |-> TRUE]
      [] f[pos + 1] = "NL" -> skiplns(f, pos + 1, cur + 1, n - 1)
      [] OTHER -> skiplns(f, pos + 1, cur, n)

(***************************************************************************)
(* rdline(): read into Line up to a newline, EOF or LINSIZ - 1            *)
(* characters; the character read when Line is full is dropped unless it  *)
(* is the newline.  Each Getc() moves file_pos.                            *)
(***************************************************************************)
RECURSIVE rdline(_, _, _)
rdline(f, pos, text) ==
    CASE pos >= Len(f) -> [text |-> text, pos |-> pos + 1, nl |-> FALSE, eof |-> TRUE]
      [] f[pos + 1] = "NL" -> [text |-> text, pos |-> pos + 1, nl |-> TRUE, eof |-> FALSE]
      [] Len(text) >= LINSIZ - 1 -> [text |-> text, pos |-> pos + 1, nl |-> FALSE, eof |-> FALSE]
      [] OTHER -> rdline(f, pos + 1, Append(text, f[pos + 1]))

\* regexec(): a pattern is one character; "" (an empty lastbuf, which
\* glibc's regcomp() accepts) matches every line.
Matches(re, text) == re = "" \/ \E i \in 1..Len(text) : text[i] = re

(***************************************************************************)
(* The loop of search(): line1..line3 are the starts of the last three    *)
(* lines read.  At the n-th match Currline steps back over the lines read,*)
(* at most three, and file_pos goes back to line3; at EOF it is not found.*)
(* SearchRead is the rest of the body, after rdline().                    *)
(***************************************************************************)
\* Currline -= (lncount >= 3 ? 3 : lncount): the lines to step back.
BackoffAll(lncount) == 3
Backoff(lncount) == IF lncount >= 3 THEN 3 ELSE lncount
RECURSIVE SearchScan(_, _, _), SearchRead(_, _, _, _)
SearchScan(f, re, s) ==
    IF s.eof THEN [s EXCEPT !.found = FALSE]
    ELSE SearchRead(f, re, [s EXCEPT !.l3 = s.l2, !.l2 = s.l1, !.l1 = s.pos], rdline(f, s.pos, <<>>))
SearchRead(f, re, s, r) ==
    LET t == [s EXCEPT !.pos = r.pos, !.cur = @ + (IF r.nl THEN 1 ELSE 0), !.eof = r.eof,
                       !.lncount = @ + 1]
    IN  CASE Matches(re, r.text) /\ t.n = 1 ->
               [t EXCEPT !.found = TRUE, !.cur = @ - Backoff(t.lncount),
                         !.pos = t.l3]
          [] Matches(re, r.text) -> SearchScan(f, re, [t EXCEPT !.n = @ - 1])
          [] OTHER -> SearchScan(f, re, t)

\* search(buf, n) from file_pos; buf = "NULL" reuses the last expression.
\* The result says whether an error() longjmp()s back to the prompt.
search(f, pos, cur, re, buf, n) ==
    LET re2 == IF buf = "NULL" THEN re
               ELSE IF buf # "" THEN [have |-> TRUE, buf |-> buf]
               ELSE [have |-> TRUE, buf |-> re.buf]
        s == SearchScan(f, re2.buf, [pos |-> pos, cur |-> cur, l1 |-> pos, l2 |-> pos, l3 |-> pos,
                                     lncount |-> 0, n |-> n, eof |-> FALSE, found |-> FALSE])
    IN  CASE ~re2.have -> [error |-> TRUE, re |-> re2, pos |-> pos, cur |-> cur, ctx |-> nsctx]
          [] s.found -> [error |-> FALSE, re |-> re2, pos |-> s.pos, cur |-> s.cur, ctx |-> Mark(cur, pos)]
          [] OTHER -> [error |-> TRUE, re |-> re2, pos |-> pos, cur |-> cur, ctx |-> Mark(cur, pos)]
(***************************************************************************)
(* The reading loop of screen(): nvm_getline() until num_lines lines are  *)
(* shown, a ^L set Pause, or EOF; ShowLine is the body after the call.    *)
(***************************************************************************)
RECURSIVE ShowLines(_, _), ShowLine(_, _)
ShowLines(st, n) == IF n > 0 /\ st.pause = 0 THEN ShowLine(nvm_getline(st, NsOpts), n) ELSE st
ShowLine(r, n) ==
    CASE r.ret = EOFret -> r
      [] NsOpts.ssp /\ Len(r.line) = 0 /\ r.prevlen = 0 -> ShowLines(r, n)
      [] OTHER -> ShowLines([r EXCEPT !.prevlen = Len(r.line)], n - 1)

\* skipf(): fnum after skipping nskip files (the file loop adds one).
skipf(fnum, nskip, within) ==
    IF nskip = 0 THEN fnum
    ELSE LET n2 == IF nskip > 0 /\ fnum + nskip > nfiles - 1 THEN nfiles - fnum - 1 ELSE nskip
             f1 == (IF nskip < 0 /\ within THEN fnum + 1 ELSE fnum) + n2
         IN  (IF f1 < 0 THEN 0 ELSE f1) - 1

NsInit ==
    /\ nsfiles = <<>> /\ nsmode = "args" /\ nsfnum = 0 /\ nsfirstf = TRUE
    /\ nspos = 0 /\ nscur = 0 /\ nsstart = Mark(0, 0) /\ nsctx = Mark(0, 0)
    /\ nsdlines = NvmLpp - 2 /\ nsscroll = NvmScroll /\ nsleft = NvmLpp - 2
    /\ nslast = [cmd |-> "none", arg |-> 0, colon |-> "none"]
    /\ nsre = [have |-> FALSE, buf |-> ""]
    /\ nsline = [colflg |-> FALSE, prevlen |-> 1, pause |-> 0]
NsIdle == nsmode = "args"

\* main() takes the file names from the command line.
NsArgs ==
    /\ nsmode = "args"
    /\ nsfiles' \in NvmFileSets
    /\ nsmode' = "open"
    /\ UNCHANGED <<nsfnum, nsfirstf, nspos, nscur, nsstart, nsctx, nsdlines, nsscroll, nsleft, nslast, nsre, nsline>>

(***************************************************************************)
(* The head of the file loop: checkf() opens the file (Currline and       *)
(* file_pos 0) and reads a leading ^L away; context is cleared.  The      *)
(* first file goes to screen() with left, at most Lpp - 4 lines when the  *)
(* file names are printed; the others first prompt with command().       *)
(***************************************************************************)
NsOpen ==
    /\ nsmode = "open"
    /\ nspos' = IF NsFile # <<>> /\ Head(NsFile) = "FF" THEN 1 ELSE 0
    /\ nscur' = 0
    /\ nsctx' = Mark(0, 0)
    /\ \/ /\ nsfirstf
          /\ nsfirstf' = FALSE
          /\ nsmode' = IF nsleft # 0 THEN "screen" ELSE "close"
          /\ nsleft' = IF nsleft # 0 /\ prnames /\ nsleft > NvmLpp - 4 THEN NvmLpp - 4 ELSE nsleft
       \/ /\ ~nsfirstf
          /\ nsmode' = "startcmd"
          /\ UNCHANGED <<nsfirstf, nsleft>>
    /\ UNCHANGED <<nsfiles, nsfnum, nsstart, nsdlines, nsscroll, nslast, nsre, nsline>>

(***************************************************************************)
(* screen(): show num_lines lines; at EOF return.  Otherwise Getc() looks *)
(* at the next character: at EOF return (file_pos has moved past the      *)
(* end), else Ungetc() it, clear Pause and prompt.                         *)
(***************************************************************************)
NsScreen ==
    /\ nsmode = "screen"
    /\ LET in0 == Unread(NsFile, nspos)
           st == [line |-> <<>>, column |-> 0, oldcolumn |-> 0, in |-> in0, cur |-> nscur,
                  pause |-> nsline.pause, colflg |-> nsline.colflg, hi |-> 0, filled |-> FALSE,
                  ret |-> 0, eofs |-> 0, prevlen |-> nsline.prevlen]
           r == ShowLines(st, nsleft)
           pos == nspos + (Len(in0) - Len(r.in)) + r.eofs
           atEOF == r.ret = EOFret \/ Unread(NsFile, pos) = <<>>
       IN  /\ nscur' = r.cur
           /\ nspos' = IF r.ret # EOFret /\ atEOF THEN pos + 1 ELSE pos
           /\ nsmode' = IF atEOF THEN "close" ELSE "cmd"
           /\ nsline' = [colflg |-> r.colflg, prevlen |-> r.prevlen, pause |-> IF atEOF THEN r.pause ELSE 0]
    /\ UNCHANGED <<nsfiles, nsfnum, nsfirstf, nsstart, nsctx, nsdlines, nsscroll, nsleft, nslast, nsre>>

\* The file loop's end: fclose(), clear the marks, go to the next file.
NsClose ==
    /\ nsmode = "close"
    /\ nsstart' = Mark(0, 0)
    /\ nsctx' = Mark(0, 0)
    /\ nsfnum' = nsfnum + 1
    /\ nsmode' = IF nsfnum + 1 < nfiles THEN "open" ELSE "done"
    /\ UNCHANGED <<nsfiles, nsfirstf, nspos, nscur, nsdlines, nsscroll, nsleft, nslast, nsre, nsline>>

(***************************************************************************)
(* command() returns v, the lines to show next: 0 ends the file.  In     *)
(* screen() a non-zero v is the next num_lines, and screen_start is set   *)
(* to where the screen starts; before a file it is left, cut to Lpp - 4   *)
(* when the names are printed.  A command that does not return keeps the *)
(* prompt (after error(), its longjmp() comes back to the same prompt).   *)
(***************************************************************************)
Return(v, pos, cur) ==
    /\ nspos' = pos /\ nscur' = cur
    /\ nsmode' = IF v = 0 THEN "close" ELSE "screen"
    /\ IF nsmode = "cmd"
       THEN /\ nsleft' = IF v = 0 THEN nsleft ELSE v
            /\ nsstart' = IF v = 0 THEN nsstart ELSE Mark(cur, pos)
       ELSE /\ nsleft' = IF v # 0 /\ prnames /\ v > NvmLpp - 4 THEN NvmLpp - 4 ELSE v
            /\ UNCHANGED nsstart
Stay(pos, cur) == nspos' = pos /\ nscur' = cur /\ UNCHANGED <<nsmode, nsleft, nsstart>>

\* number() and the repeat: "." takes the last command, count and colon
\* letter, and makes / use the last expression.
Resolve(n, key) ==
    CASE key = "." -> [cmd |-> nslast.cmd, nl |-> nslast.arg, lastp |-> TRUE,
                       colon |-> IF nslast.cmd = ":" THEN nslast.colon ELSE "none"]
      [] key \in {":n", ":p", ":q"} -> [cmd |-> ":", nl |-> n, lastp |-> FALSE,
                                        colon |-> IF key = ":n" THEN "n" ELSE IF key = ":p" THEN "p" ELSE "q"]
      [] OTHER -> [cmd |-> key, nl |-> n, lastp |-> FALSE, colon |-> "none"]
Least1(n) == IF n = 0 THEN 1 ELSE n

\* space and z: a screenful, or n lines (z makes n the screen size).
CmdPage(k) ==
    /\ k.cmd \in {" ", "z"}
    /\ nsdlines' = IF k.nl # 0 /\ k.cmd = "z" THEN k.nl ELSE nsdlines
    /\ Return(IF k.nl = 0 THEN nsdlines ELSE k.nl, nspos, nscur)
    /\ UNCHANGED <<nsscroll, nsctx, nsre, nsfnum>>

\* d and ^D: scroll nscroll lines, n setting it.
CmdScroll(k) ==
    /\ k.cmd = "d"
    /\ nsscroll' = IF k.nl # 0 THEN k.nl ELSE nsscroll
    /\ Return(IF k.nl # 0 THEN k.nl ELSE nsscroll, nspos, nscur)
    /\ UNCHANGED <<nsdlines, nsctx, nsre, nsfnum>>

\* newline: one line, or n lines, which become the screen size.
CmdLine(k) ==
    /\ k.cmd = "NL"
    /\ nsdlines' = IF k.nl # 0 THEN k.nl ELSE nsdlines
    /\ Return(Least1(k.nl), nspos, nscur)
    /\ UNCHANGED <<nsscroll, nsctx, nsre, nsfnum>>

\* s and f: skip n lines or n screens; reaching EOF ends the file.
CmdSkip(k) ==
    /\ k.cmd \in {"s", "f"}
    /\ LET r == skiplns(NsFile, nspos, nscur, IF k.cmd = "f" THEN Least1(k.nl) * nsdlines ELSE Least1(k.nl))
       IN  Return(IF r.eof THEN 0 ELSE nsdlines, r.pos, r.cur)
    /\ UNCHANGED <<nsdlines, nsscroll, nsctx, nsre, nsfnum>>

\* b and ^B: back n screens: from the start, skip to the line that many
\* screens and one line back.
CmdBack(k) ==
    /\ k.cmd = "b"
    /\ LET initline == nscur - nsdlines * (Least1(k.nl) + 1) - 1
           r == skiplns(NsFile, 0, 0, IF initline < 0 THEN 0 ELSE initline)
       IN  Return(nsdlines + 1, r.pos, r.cur)
    /\ UNCHANGED <<nsdlines, nsscroll, nsctx, nsre, nsfnum>>

\* ^L redraws the screen from screen_start; ' goes back to context.
CmdRedraw(k) ==
    /\ k.cmd = "FF"
    /\ Return(nsdlines, nsstart.chrctr, nsstart.line)
    /\ UNCHANGED <<nsdlines, nsscroll, nsctx, nsre, nsfnum>>
CmdContext(k) ==
    /\ k.cmd = "'"
    /\ Return(nsdlines, nsctx.chrctr, nsctx.line)
    /\ UNCHANGED <<nsdlines, nsscroll, nsctx, nsre, nsfnum>>

\* =, and a key command() does not know (a "." before any command): the
\* prompt stays.
CmdStay(k) ==
    /\ k.cmd \in {"=", "none"}
    /\ Stay(nspos, nscur)
    /\ UNCHANGED <<nsdlines, nsscroll, nsctx, nsre, nsfnum>>

\* / and n: the n-th match of a typed or the last expression; found, show
\* dlines - 1 lines from two lines before it, else error() back to the
\* prompt.
CmdSearch(k) ==
    /\ k.cmd \in {"/", "n"}
    /\ \E pat \in NvmPatterns :
          LET r == search(NsFile, nspos, nscur, nsre,
                          IF k.lastp \/ k.cmd = "n" THEN "NULL" ELSE pat, Least1(k.nl))
          IN  /\ nsre' = r.re
              /\ nsctx' = r.ctx
              /\ IF r.error THEN Stay(r.pos, r.cur) ELSE Return(nsdlines - 1, r.pos, r.cur)
    /\ UNCHANGED <<nsdlines, nsscroll, nsfnum>>

\* :n and :p through colon() and skipf(); :n on the last file without a
\* count, :q and q end the session (end_it()).
CmdFile(k) ==
    /\ k.cmd = ":" /\ k.colon \in {"n", "p"}
    /\ ~(k.colon = "n" /\ k.nl = 0 /\ nsfnum >= nfiles - 1)
    /\ nsfnum' = skipf(nsfnum, IF k.colon = "n" THEN Least1(k.nl) ELSE -Least1(k.nl), nsmode = "cmd")
    /\ Return(0, nspos, nscur)
    /\ UNCHANGED <<nsdlines, nsscroll, nsctx, nsre>>
CmdQuit(k) ==
    /\ \/ k.cmd = "q"
       \/ k.cmd = ":" /\ k.colon = "q"
       \/ k.cmd = ":" /\ k.colon = "n" /\ k.nl = 0 /\ nsfnum >= nfiles - 1
    /\ nsmode' = "done"
    /\ UNCHANGED <<nspos, nscur, nsleft, nsstart, nsdlines, nsscroll, nsctx, nsre, nsfnum>>

\* One command at a prompt: lastcmd, lastarg and lastcolon are set first.
NsCommand ==
    /\ nsmode \in {"cmd", "startcmd"}
    /\ \E n \in NvmCounts, key \in NvmKeys :
          LET k == Resolve(n, key)
          IN  /\ nslast' = [cmd |-> k.cmd, arg |-> k.nl, colon |-> IF k.cmd = ":" THEN k.colon ELSE nslast.colon]
              /\ \/ CmdPage(k) \/ CmdScroll(k) \/ CmdLine(k) \/ CmdSkip(k) \/ CmdBack(k)
                 \/ CmdRedraw(k) \/ CmdContext(k) \/ CmdStay(k) \/ CmdSearch(k) \/ CmdFile(k)
                 \/ CmdQuit(k)
    /\ UNCHANGED <<nsfiles, nsfirstf, nsline>>

NsNext == NsArgs \/ NsOpen \/ NsScreen \/ NsClose \/ NsCommand

\* No line of the file is longer than LINSIZ - 2 characters, and it ends
\* with a newline.
WellFormed(f) ==
    /\ f # <<>> => Last(f) = "NL"
    /\ \A i \in 1..(Len(f) - (LINSIZ - 2)) : \E j \in i..(i + LINSIZ - 2) : f[j] = "NL"

(***************************************************************************)
(* Currline is the line file_pos is in: whenever a file is being shown,   *)
(* Currline is the number of newlines before file_pos, and so are the     *)
(* lines saved with the marks screen_start and context, which ^L and '    *)
(* restore, whatever mix of paging, skipping, going back, searching and  *)
(* repeating came before, for files whose lines end and fit rdline(),   *)
(* searching only for expressions that match no empty line.  The empty    *)
(* expression (or ^$) matches the empty read at EOF, and search() then    *)
(* steps Currline back over a line it never counted: the claim is stated  *)
(* for the one-character expressions of NvmPatterns, never "".           *)
(***************************************************************************)
NvmCurrlineTracks ==
    (\A i \in 1..nfiles : WellFormed(nsfiles[i])) /\ "" \notin NvmPatterns /\ nsmode \in {"screen", "cmd", "startcmd"} =>
        /\ nscur = NLsBefore(NsFile, nspos)
        /\ \A m \in {nsstart, nsctx} : m.line = NLsBefore(NsFile, m.chrctr)
====
