------------------------- MODULE MC_ConfigParser ----------------------------
(***************************************************************************)
(* An instance of ConfigParser: the root n/interfaces (n stands for      *)
(* /etc/network), a file n/a that the root sources both as a* and as ./a *)
(* and that sources the root back (as the root also does) and itself as  *)
(* ./a, and a file n/d/b read by source-dir d next to an entry b~ that    *)
(* directory_filter() rejects.  Each file has a few contents to choose    *)
(* from, which between them reach every handler and every error exit of  *)
(* read_interfaces_defn().                                                 *)
(***************************************************************************)
EXTENDS ConfigParser

CONSTANTS R, A, B

L(kw, args) == [kw |-> kw, args |-> args]

MCRoot == <<"n", "interfaces">>

MCResolve == (<<"n", "interfaces">> :> R) @@ (<<"n", "a">> :> A) @@ (<<"n", "d", "b">> :> B)
             @@ (<<"n", "d", "b~">> :> B)

MCPattern == ("a*" :> <<"a*">>) @@ ("./a" :> <<".", "a">>) @@ ("interfaces" :> <<"interfaces">>)
             @@ ("d*" :> <<"d*">>)

\* a* matches a and a name removed before stat(); d* the directory d and
\* the file n/a's neighbour e, which is no directory.
MCGlob == ("a*" :> <<"a", "missing">>) @@ ("d*" :> <<"d", "e">>)

MCDirEntries == <<"n", "d">> :> <<"b", "b~">>

RootContents ==
    { << L("auto", <<"eth0", "eth0">>), L("iface", <<"eth0", "inet", "static">>),
         L("mtu", <<"1500">>), L("post-up", <<"c1">>), L("mtu", <<"9000">>),
         L("mtu?", <<"1">>), L("source", <<"a*">>), L("source-dir", <<"d*">>),
         L("iface", <<"vlan", "inherits", "eth0">>), L("up", <<"c2">>) >>,
      << L("allow-hotplug", <<"eth0">>), L("no-auto-down", <<"eth0">>),
         L("iface", <<"lo", "inet", "loopback">>), L("source", <<"./a">>),
         L("source", <<"interfaces">>),
         L("iface", <<"w", "inet", "static", "junk">>), L("iface", <<"w", "inet", "bogus">>) >> }

AContents ==
    { << L("mapping", <<"eth*">>), L("script", <<"s">>), L("map", <<"m1">>),
         L("source", <<"interfaces">>), L("source-dir", <<"d*">>), L("iface", <<"lo6", "inet6", "loopback">>),
         L("mtu?", <<"5">>), L("pre-down", <<"c3">>), L("pre-down", <<"c4">>) >>,
      << L("source", <<"./a">>), L("iface", <<"r", "inet", "static">>) >>,
      << L("mapping", <<"eth*">>), L("script", <<"s">>), L("script", <<"t">>) >>,
      << L("iface", <<"c", "inherits", "eth0">>), L("iface", <<"e", "inet", "static", "inherits">>) >>,
      << L("iface", <<"c", "inet6", "inherits", "eth0">>) >> }

BContents ==
    { << L("iface", <<"x">>) >>,
      << L("no-scripts", <<"x", "x">>), L("iface", <<"y", "inet">>) >>,
      << L("map", <<"m">>) >>,
      << L("iface", <<>>) >> }

MCDefaults == "mtu?" :> "mtu"

MCAllowGroups == "allow-hotplug" :> "hotplug"

MCContents == (R :> RootContents) @@ (A :> AContents) @@ (B :> BContents)
====
