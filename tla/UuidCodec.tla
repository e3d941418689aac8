----------------------------- MODULE UuidCodec ------------------------------
(***************************************************************************)
(* The uuid codec of libnvutil (src/components/libnvutil/nv_uuid_linux.c): *)
(* the packing of the 16-byte nv_uuid_t into struct uuid and back, the    *)
(* printable form written by nv_uuid_unparse() and read by                *)
(* nv_uuid_parse().                                                        *)
(*                                                                         *)
(* Bytes and characters are numbers.  TLC's integers are 31-bit signed,   *)
(* so the 32-bit time_low is kept as its two 16-bit halves <<high, low>>. *)
(***************************************************************************)
EXTENDS Naturals, Sequences, SequencesExt

CONSTANTS
    UPos,     \* positions of nv_uuid_t whose byte is varied
    UVals,    \* the byte values they take
    SPos,     \* positions of the printable form whose character is varied
    SChars    \* the character codes they take

Dash == 45

\* isxdigit(), and the value strtoul() gives a hex digit.
IsXDigit(c) == (48 <= c /\ c <= 57) \/ (65 <= c /\ c <= 70) \/ (97 <= c /\ c <= 102)
DigitValue(c) == CASE 48 <= c /\ c <= 57 -> c - 48
                   [] 65 <= c /\ c <= 70 -> c - 55
                   [] OTHER -> c - 87

\* The hex digits "%0*x" prints for v: lowercase, zero-padded to width.
Hex(v, width) == [k \in 1..width |->
                    LET d == (v \div 16^(width - k)) % 16
                    IN  IF d < 10 THEN 48 + d ELSE 87 + d]

\* string_to_struct(): the big-endian fields of nv_uuid_t.
string_to_struct(in) ==
    [time_low |-> << in[1] * 256 + in[2], in[3] * 256 + in[4] >>,
     time_mid |-> in[5] * 256 + in[6],
     time_hi_and_version |-> in[7] * 256 + in[8],
     clock_seq_hi_and_reserved |-> in[9],
     clock_seq_low |-> in[10],
     node_addr |-> SubSeq(in, 11, 16)]

\* A packing that stores time_mid little-endian.
struct_to_stringMidSwapped(uu) ==
    << uu.time_low[1] \div 256, uu.time_low[1] % 256,
       uu.time_low[2] \div 256, uu.time_low[2] % 256,
       uu.time_mid % 256, uu.time_mid \div 256,
       uu.time_hi_and_version \div 256, uu.time_hi_and_version % 256,
       uu.clock_seq_hi_and_reserved, uu.clock_seq_low >> \o uu.node_addr

\* struct_to_string(): each field shifted out a byte at a time, the last
\* byte of the field first.
struct_to_string(uu) ==
    << uu.time_low[1] \div 256, uu.time_low[1] % 256,
       uu.time_low[2] \div 256, uu.time_low[2] % 256,
       uu.time_mid \div 256, uu.time_mid % 256,
       uu.time_hi_and_version \div 256, uu.time_hi_and_version % 256,
       uu.clock_seq_hi_and_reserved, uu.clock_seq_low >> \o uu.node_addr

\* nv_uuid_unparse(): "%08x-%04x-%04x-%04x-" and the node as six "%.2x".
nv_uuid_unparse(in) ==
    LET u == string_to_struct(in)
        clock_seq == u.clock_seq_hi_and_reserved * 256 + u.clock_seq_low
        etheraddr == FlattenSeq([i \in 1..6 |-> Hex(u.node_addr[i], 2)])
    IN  Hex(u.time_low[1], 4) \o Hex(u.time_low[2], 4) \o <<Dash>>
        \o Hex(u.time_mid, 4) \o <<Dash>> \o Hex(u.time_hi_and_version, 4) \o <<Dash>>
        \o Hex(clock_seq, 4) \o <<Dash>> \o etheraddr

\* strtoul(s + k - 1, NULL, 16): the value of the run of hex digits at k.
RECURSIVE HexRun(_, _, _)
HexRun(s, k, acc) ==
    IF k <= Len(s) /\ IsXDigit(s[k]) THEN HexRun(s, k + 1, acc * 16 + DigitValue(s[k]))
    ELSE acc

\* The sanity checks: 36 characters, '-' at 9, 14, 19 and 24 (counting
\* from 1), hex digits everywhere else.
ParseChecks(in) ==
    /\ Len(in) = 36
    /\ \A i \in 1..36 : IF i \in {9, 14, 19, 24} THEN in[i] = Dash ELSE IsXDigit(in[i])

\* A node loop that starts a character early, at the last '-'.
NodeAddrEarly(in) == [i \in 1..6 |-> HexRun(<< in[23 + 2 * i - 1], in[23 + 2 * i] >>, 1, 0)]

\* The node loop: each pair of characters copied into buf and converted.
NodeAddr(in) == [i \in 1..6 |-> HexRun(<< in[24 + 2 * i - 1], in[24 + 2 * i] >>, 1, 0)]

(***************************************************************************)
(* nv_uuid_parse(in, uu): -1 and uu untouched on a malformed string;      *)
(* otherwise the fields read with strtoul(), clock_seq split into its two *)
(* bytes, and the struct packed into uu.  time_low is read as two runs of *)
(* four digits, the halves of the eight the checks guarantee.             *)
(***************************************************************************)
nv_uuid_parse(in, uu) ==
    IF ~ParseChecks(in) THEN [ret |-> -1, uu |-> uu]
    ELSE LET clock_seq == HexRun(in, 20, 0)
             u == [time_low |-> << HexRun(SubSeq(in, 1, 4), 1, 0),
                                   HexRun(SubSeq(in, 5, 8), 1, 0) >>,
                   time_mid |-> HexRun(in, 10, 0) % 2^16,
                   time_hi_and_version |-> HexRun(in, 15, 0) % 2^16,
                   clock_seq_hi_and_reserved |-> clock_seq \div 256,
                   clock_seq_low |-> clock_seq % 256,
                   node_addr |-> NodeAddr(in)]
         IN  [ret |-> 0, uu |-> struct_to_string(u)]

\* tolower() of a character: the form nv_uuid_unparse() writes.
Lower(c) == IF 65 <= c /\ c <= 90 THEN c + 32 ELSE c

-----------------------------------------------------------------------------
(* Input enumeration: a uuid, or a printable form, changed one position   *)
(* at a time from all zeros; only one of them ever leaves its start.      *)
VARIABLES ubytes, ustr

uuidvars == <<ubytes, ustr>>

ZeroString == [i \in 1..36 |-> IF i \in {9, 14, 19, 24} THEN Dash ELSE 48]

UuidInit == ubytes = [i \in 1..16 |-> 0] /\ ustr = ZeroString

UuidIdle == UuidInit

SetByte == /\ ustr = ZeroString
           /\ \E i \in UPos, b \in UVals : ubytes' = [ubytes EXCEPT ![i] = b]
           /\ UNCHANGED ustr

SetChar == /\ ubytes = [i \in 1..16 |-> 0] /\ Len(ustr) = 36
           /\ \E i \in SPos, c \in SChars : ustr' = [ustr EXCEPT ![i] = c]
           /\ UNCHANGED ubytes

\* A string one character short.
Shorten == /\ ubytes = [i \in 1..16 |-> 0] /\ Len(ustr) = 36
           /\ ustr' = Front(ustr)
           /\ UNCHANGED ubytes

UuidNext == SetByte \/ SetChar \/ Shorten

(***************************************************************************)
(* Every uuid survives the trip through its printable form:               *)
(* nv_uuid_parse() accepts what nv_uuid_unparse() writes and gives back   *)
(* the same 16 bytes, the field widths, byte orders and the clock_seq     *)
(* split of the two functions agreeing.                                    *)
(***************************************************************************)
UnparseParses ==
    nv_uuid_parse(nv_uuid_unparse(ubytes), [i \in 1..16 |-> 0]) = [ret |-> 0, uu |-> ubytes]

(***************************************************************************)
(* nv_uuid_parse() accepts exactly the strings of the form                *)
(* xxxxxxxx-xxxx-xxxx-xxxx-xxxxxxxxxxxx, leaving uu alone otherwise, and  *)
(* what it accepts prints back as the same string in lower case.          *)
(***************************************************************************)
ParseAcceptsCanonical ==
    LET r == nv_uuid_parse(ustr, ubytes)
        wellFormed == /\ Len(ustr) = 36
                      /\ \A i \in 1..36 : (ustr[i] = Dash) <=> i \in {9, 14, 19, 24}
                      /\ \A j \in 1..36 : ustr[j] # Dash => IsXDigit(ustr[j])
    IN  /\ (r.ret = 0) <=> wellFormed
        /\ r.ret = 0 => nv_uuid_unparse(r.uu) = [i \in 1..36 |-> Lower(ustr[i])]
        /\ r.ret # 0 => r.uu = ubytes
====
