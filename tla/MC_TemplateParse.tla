------------------------- MODULE MC_TemplateParse ---------------------------
(***************************************************************************)
(* Instances of TemplateParse for TLC.  Option "a" holds "/y", option "c" *)
(* is present with an empty value (unset to get_var), and the name        *)
(* "iface" is spelled out, since parse() depends on the length of a name. *)
(* The pieces cover every case of parse()'s switch: text, escapes,        *)
(* brackets single and double, an unbalanced '%', set and unset           *)
(* references, %iface% and %a///x%, the %name/p/r% form on the set       *)
(* option "a": every '/' of its value "/y" is replaced by 'x'.           *)
(***************************************************************************)
EXTENDS TemplateParse

MCOptions == (<<"a">> :> <<"/", "y">>) @@ (<<"c">> :> <<>>)

MCIfaceName == <<"i", "f", "a", "c", "e">>

MCRealIface == <<"e">>

MCTokens == { <<"x">>, <<"/">>, <<"\\">>, <<"%">>, <<"[">>, <<"]">>,
              <<"[", "[">>, <<"]", "]">>,
              <<"%", "a", "%">>, <<"%", "c", "%">>, <<"%">> \o MCIfaceName \o <<"%">>,
              <<"%", "a", "/", "/", "/", "x", "%">> }
====
