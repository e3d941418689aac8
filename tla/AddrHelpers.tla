----------------------------- MODULE AddrHelpers ----------------------------
(***************************************************************************)
(* The IPv4 netmask and broadcast conversions of ifupdown                  *)
(* (src/components/ifupdown/archcommon.c): compute_v4_mask() derives the  *)
(* netmask option from "address[/width|/mask]", and                       *)
(* compute_v4_broadcast() turns a broadcast of "+" or "-" into the        *)
(* address with its host bits set or cleared.                             *)
(*                                                                         *)
(* An IPv4 address is its four bytes in network order.  A parameter text  *)
(* is a record: the address before the '/' and what follows it, which is  *)
(* nothing, a width that sscanf("%d") reads, a dotted mask that           *)
(* inet_pton() accepts, or text that neither accepts.  The reference for  *)
(* the results works on the 32 bits of an address.                        *)
(***************************************************************************)
EXTENDS Naturals, Sequences, SequencesExt, Bitwise

CONSTANTS
    Addrs,      \* the addresses enumerated
    Widths,     \* the widths after a '/', all in 0..32
    Masks       \* the dotted masks after a '/'

\* The suffixes of a parameter text.
NoSuffix == [kind |-> "none"]
Junk == [kind |-> "junk"]
ParamSuffixes == {NoSuffix, Junk} \cup {[kind |-> "width", n |-> w] : w \in Widths}
            \cup {[kind |-> "mask", m |-> m] : m \in Masks}

\* The class test with class A ending below 127.
ClassfulWidthShort(a) == CASE a[1] < 127 -> 8
                           [] a[1] >= 127 /\ a[1] <= 191 -> 16
                           [] a[1] >= 192 /\ a[1] <= 223 -> 24
                           [] OTHER -> 32

\* The class of the first byte when no width is given.
ClassfulWidth(a) == CASE a[1] <= 127 -> 8
                      [] a[1] >= 128 /\ a[1] <= 191 -> 16
                      [] a[1] >= 192 /\ a[1] <= 223 -> 24
                      [] OTHER -> 32

Clamp(x) == IF x < 0 THEN 0 ELSE IF x > 8 THEN 8 ELSE x

\* htonl(~((1L << (32 - w)) - 1)) for 0 <= w <= 32, byte by byte: the
\* bits at or above 32 - w are set; the long is 64 bits, so 1L << 32 is
\* defined and the width 0 gives 0.0.0.0.
MaskBytes(w) == [k \in 1..4 |-> (256 - 2^Clamp((32 - w) - 8 * (4 - k))) % 256]

(***************************************************************************)
(* compute_v4_mask(): the new netmask, or "changed" false when the        *)
(* function returns early and leaves the parameter as it is.  A suffix    *)
(* inet_pton() reads as a dotted quad is the mask; otherwise it must be a  *)
(* width for sscanf(); no suffix means the class of the address.          *)
(***************************************************************************)
compute_v4_mask(p) ==
    CASE p.sfx.kind = "none"  -> [changed |-> TRUE, value |-> MaskBytes(ClassfulWidth(p.addr))]
      [] p.sfx.kind = "width" -> [changed |-> TRUE, value |-> MaskBytes(p.sfx.n)]
      [] p.sfx.kind = "mask"  -> [changed |-> TRUE, value |-> p.sfx.m]
      [] OTHER                -> [changed |-> FALSE, value |-> <<>>]

\* mask.s_addr != htonl(0xfffffffe): the /31 of RFC 3021.
IsPointToPoint(mask) == mask = <<255, 255, 255, 254>>

(***************************************************************************)
(* compute_v4_broadcast(): only "+" and "-" are converted.  The address   *)
(* and netmask options are read back and parsed; "+" sets the host bits,  *)
(* "-" clears them, and a /31 gets 255.255.255.255 or 0.0.0.0.            *)
(***************************************************************************)
compute_v4_broadcast(op, address, netmask) ==
    CASE op \notin {"+", "-"} -> [changed |-> FALSE, value |-> <<>>]
      [] IsPointToPoint(netmask) ->
            [changed |-> TRUE, value |-> IF op = "+" THEN <<255, 255, 255, 255>>
                                                      ELSE <<0, 0, 0, 0>>]
      [] OTHER ->
            [changed |-> TRUE,
             value |-> [k \in 1..4 |-> IF op = "+" THEN address[k] | (255 - netmask[k])
                                                  ELSE address[k] & netmask[k]]]

-----------------------------------------------------------------------------
(* The reference: an address as its 32 bits, most significant first.      *)
Bits(a) == FlattenSeq([k \in 1..4 |-> [j \in 1..8 |-> (a[k] \div 2^(8 - j)) % 2]])

\* RFC 791 classes by the leading bits: 0 is A, 10 is B, 110 is C.
ClassBits(b) == CASE b[1] = 0 -> 8
                  [] b[2] = 0 -> 16
                  [] b[3] = 0 -> 24
                  [] OTHER -> 32

\* The address with its bits past the first w replaced by x.
HostBits(b, w, x) == [i \in 1..32 |-> IF i <= w THEN b[i] ELSE x]

-----------------------------------------------------------------------------
VARIABLE aparam

AddrInit == aparam = [addr |-> <<0, 0, 0, 0>>, sfx |-> NoSuffix]

AddrIdle == AddrInit

\* Another parameter text.
SetParam == \E a \in Addrs, s \in ParamSuffixes : aparam' = [addr |-> a, sfx |-> s]

(***************************************************************************)
(* For an address with a width or none, compute_v4_mask() gives the mask  *)
(* of that width (of the address's class when none is given), and         *)
(* compute_v4_broadcast() then gives the address with every host bit set  *)
(* for "+" and cleared for "-", except that a /31 has 255.255.255.255 and  *)
(* 0.0.0.0.  A dotted mask is taken as it is, and a suffix that is        *)
(* neither leaves the parameter alone.                                     *)
(***************************************************************************)
MaskAndBroadcast ==
    LET p == aparam
        r == compute_v4_mask(p)
        b == Bits(p.addr)
        w == IF p.sfx.kind = "width" THEN p.sfx.n ELSE ClassBits(b)
        plus == compute_v4_broadcast("+", p.addr, r.value)
        minus == compute_v4_broadcast("-", p.addr, r.value)
    IN  CASE p.sfx.kind \in {"none", "width"} ->
                /\ r.changed /\ Bits(r.value) = [i \in 1..32 |-> IF i <= w THEN 1 ELSE 0]
                /\ Bits(plus.value) = IF w = 31 THEN [i \in 1..32 |-> 1] ELSE HostBits(b, w, 1)
                /\ Bits(minus.value) = IF w = 31 THEN [i \in 1..32 |-> 0] ELSE HostBits(b, w, 0)
          [] p.sfx.kind = "mask" -> r = [changed |-> TRUE, value |-> p.sfx.m]
          [] OTHER -> ~r.changed
====
