--------------------------- MODULE Base64Decode ----------------------------
(***************************************************************************)
(* The base64 decoder of the nvOS external password backend of            *)
(* wpa_supplicant (src/utils/ext_password_nvos.c): decode64_sextet(),     *)
(* nv_base64_decode() and the use ext_password_nvos_get() makes of it.    *)
(*                                                                         *)
(* Characters and bytes are their numeric codes; the end of the C string  *)
(* is the code 0.  The decoder is a RECURSIVE operator, one call per pass *)
(* of its while loop.  It yields the bytes it has written to the output   *)
(* buffer and its return value, because the backend ignores the return    *)
(* value and reads the buffer as a C string.  The reference is the        *)
(* encoder of RFC 4648, section 4, with padding.                          *)
(***************************************************************************)
EXTENDS Naturals, Sequences, SequencesExt

CONSTANTS
    OutSize,      \* out_size, PASSWD_ENCODED_LEN in ext_password_nvos_get()
    PlainBytes,   \* the byte values passwords are made of
    MaxPlain,     \* the longest password enumerated
    TextChars,    \* the character codes arbitrary encoded names are made of
    MaxText       \* the longest encoded name enumerated

\* 0xffffffff in the code; only its being no sextet value matters, and TLC's
\* integers are 32-bit signed, so it is -1 here.
B64_INVALID == -1
EQ == 61          \* '='

\* decode64_sextet(): the value of one base64 character.
decode64_sextet(ch) ==
    CASE 65 <= ch /\ ch <= 90  -> ch - 65          \* 'A'..'Z'
      [] 97 <= ch /\ ch <= 122 -> 26 + ch - 97     \* 'a'..'z'
      [] 48 <= ch /\ ch <= 57  -> 52 + ch - 48     \* '0'..'9'
      [] ch = 43 -> 62                             \* '+'
      [] ch = 47 -> 63                             \* '/'
      [] OTHER -> B64_INVALID

\* *in: the character at k, or the terminating NUL past the end.
Char(s, k) == IF k <= Len(s) THEN s[k] ELSE 0

\* The return value and the bytes written so far.
Result(ret, out) == [ret |-> ret, out |-> out]

\* The writes of one group: each byte is written only while the buffer has
\* room, and the first that has none returns -1.
WriteGroup(out, bytes) ==
    IF Len(out) + Len(bytes) <= OutSize THEN out \o bytes
    ELSE out \o SubSeq(bytes, 1, OutSize - Len(out))

\* A group that writes its second byte only when it has no '='.
GroupLenNoPad(equals) == IF equals = 0 THEN 3 ELSE 1

\* The bytes a group writes: the first always, the second if equals < 2,
\* the third if equals = 0.
GroupLen(equals) == 3 - equals

(***************************************************************************)
(* One pass of the while loop at in[k], with out written so far.  The     *)
(* pass reads a first sextet, a second one unless the string ends, then   *)
(* a third and a fourth position, each either '=' (counted in equals), a  *)
(* sextet, or the end.  A sextet after a '=' is rejected.  The group      *)
(* yields 3 - equals bytes (at least 1), and a '=' must end the string.   *)
(***************************************************************************)
RECURSIVE DecodeFrom(_, _, _)
DecodeFrom(in, k, out) ==
    IF Char(in, k) = 0 THEN Result(Len(out), out)
    ELSE
    LET k2 == k + 1
        has2 == Char(in, k2) # 0
        k3 == IF has2 THEN k2 + 1 ELSE k2
        c3 == Char(in, k3)
        k4 == IF c3 # 0 THEN k3 + 1 ELSE k3
        c4 == Char(in, k4)
        k5 == IF c4 # 0 THEN k4 + 1 ELSE k4
        isSextet(c) == c # 0 /\ c # EQ
        Sextet(c) == IF isSextet(c) THEN decode64_sextet(c) ELSE 0
        t1 == decode64_sextet(in[k])
        t2 == IF has2 THEN decode64_sextet(in[k2]) ELSE 0
        equals == (IF c3 = EQ THEN 1 ELSE 0) + (IF c4 = EQ THEN 1 ELSE 0)
        invalid == \/ t1 = B64_INVALID
                   \/ t2 = B64_INVALID
                   \/ Sextet(c3) = B64_INVALID
                   \/ isSextet(c4) /\ c3 = EQ
                   \/ Sextet(c4) = B64_INVALID
        val == t1 * 2^18 + t2 * 2^12 + Sextet(c3) * 2^6 + Sextet(c4)
        bytes == SubSeq(<< (val \div 2^16) % 256, (val \div 2^8) % 256, val % 256 >>,
                        1, GroupLen(equals))
        next == WriteGroup(out, bytes)
    IN  CASE invalid -> Result(-1, out)
          [] Len(out) + Len(bytes) > OutSize -> Result(-1, next)
          [] equals # 0 /\ Char(in, k5) # 0 -> Result(-1, next)
          [] OTHER -> DecodeFrom(in, k5, next)

nv_base64_decode(in) == DecodeFrom(in, 1, <<>>)

\* ext_password_nvos_get(): the decoded buffer, zeroed beyond what was
\* written, read up to its first NUL; the return value is not looked at.
ext_password_nvos_get(name) ==
    LET out == nv_base64_decode(name).out
        nul == SelectInSeq(out, LAMBDA b : b = 0)
    IN  IF nul = 0 THEN out ELSE SubSeq(out, 1, nul - 1)

-----------------------------------------------------------------------------
(* The reference: RFC 4648 base64 with padding. *)
Alphabet(v) == CASE v < 26 -> 65 + v
                 [] v < 52 -> 97 + (v - 26)
                 [] v < 62 -> 48 + (v - 52)
                 [] v = 62 -> 43
                 [] OTHER  -> 47

RECURSIVE Encode(_)
Encode(p) ==
    IF p = <<>> THEN <<>>
    ELSE LET n == IF Len(p) >= 3 THEN 3 ELSE Len(p)
             b(i) == IF i <= n THEN p[i] ELSE 0
             v == b(1) * 2^16 + b(2) * 2^8 + b(3)
             q(i) == Alphabet((v \div 2^(18 - 6 * i)) % 64)
             group == << q(0), q(1) >> \o (IF n >= 2 THEN <<q(2)>> ELSE <<EQ>>)
                                     \o (IF n = 3 THEN <<q(3)>> ELSE <<EQ>>)
         IN  group \o Encode(SubSeq(p, n + 1, Len(p)))

-----------------------------------------------------------------------------
(* Input enumeration: a password, or an arbitrary name, grown one element *)
(* at a time; only one of them is ever non-empty.                          *)
VARIABLES plain, text

b64vars == <<plain, text>>

B64Init == plain = <<>> /\ text = <<>>

B64Idle == B64Init

ExtendPlain == /\ text = <<>> /\ Len(plain) < MaxPlain
               /\ \E b \in PlainBytes : plain' = Append(plain, b)
               /\ UNCHANGED text

ExtendText == /\ plain = <<>> /\ Len(text) < MaxText
              /\ \E c \in TextChars : text' = Append(text, c)
              /\ UNCHANGED plain

B64Next == ExtendPlain \/ ExtendText

(***************************************************************************)
(* The backend hands wpa_supplicant exactly the password that was encoded *)
(* into the name, for every password without a NUL byte that fits the     *)
(* 512-byte buffer, the last byte of the buffer included: the padding     *)
(* rules, the byte count of a short group and the bound checks of         *)
(* nv_base64_decode() agree with RFC 4648.                                 *)
(***************************************************************************)
GetRecoversPassword ==
    (0 \notin ToSet(plain) /\ Len(plain) <= OutSize)
        => ext_password_nvos_get(Encode(plain)) = plain
====
