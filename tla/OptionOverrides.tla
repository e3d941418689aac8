-------------------------- MODULE OptionOverrides ---------------------------
(***************************************************************************)
(* The options of an iface stanza as do_interface() hands them to the     *)
(* method (src/components/ifupdown/main.c): the method's defaults are     *)
(* injected for options the stanza does not set, then the "-o NAME=VALUE" *)
(* options of the command line, which parse_options() collected in the    *)
(* global array option[], are applied to the stanza.                      *)
(*                                                                         *)
(* An option list (currif->option, or the global option[]) is a sequence *)
(* of records [name, value]; names and values are short strings, the     *)
(* empty string being the empty VALUE.  The override loop is a RECURSIVE  *)
(* operator over both arrays, because the code writes to the global one   *)
(* while it iterates over it.                                              *)
(***************************************************************************)
EXTENDS Naturals, Sequences, SequencesExt

CONSTANTS
    StanzaNames,   \* option names of the stanza (after config.c's renaming)
    StanzaValues,  \* their values
    ArgNames,      \* the NAME of a "-o NAME=VALUE" argument
    ArgValues,     \* its VALUE, "" among them
    MethodDefaults,\* currif->method->defaults: a sequence of [option, value]
    MaxStanza,     \* the most option lines a stanza is given
    MaxArgs        \* the most -o arguments

Hooks == {"pre-up", "up", "down", "post-down"}

\* What a read of option[] past n_options yields: memory realloc() left
\* uninitialized, or stale entries.
Uninit == [name |-> "uninitialized", value |-> "uninitialized"]

\* set_variable() for a name without the '?' suffix: a hook is always
\* appended; another name replaces the value of the entry of that name, or
\* is appended.
set_variable(opts, n, value) ==
    LET k == SelectInSeq(opts, LAMBDA o : o.name = n)
    IN  IF n \notin Hooks /\ k # 0 THEN [opts EXCEPT ![k].value = value]
        ELSE Append(opts, [name |-> n, value |-> value])

\* parse_options(), case 'o': post-up is stored as up and pre-down as down.
OptionName(n) == CASE n = "post-up" -> "up"
                   [] n = "pre-down" -> "down"
                   [] OTHER -> n

Names(opts) == {opts[k].name : k \in DOMAIN opts}

\* A default loop that sets every default, found or not.
InjectDefaultsAlways(opts) ==
    FoldLeft(LAMBDA acc, d : set_variable(acc, d.option, d.value), opts, MethodDefaults)

\* The default loop: each default whose option the stanza lacks is set.
InjectDefaults(opts) ==
    FoldLeft(LAMBDA acc, d : IF d.option \in Names(acc) THEN acc
                             ELSE set_variable(acc, d.option, d.value),
             opts, MethodDefaults)

(***************************************************************************)
(* The override loop from option[i] on.  An empty VALUE for a name other  *)
(* than a hook searches currif->option for the name; when found, it       *)
(* decrements currif->n_options, which drops currif's LAST entry, and the *)
(* shift that follows moves the entries of the global option[] from j on  *)
(* one place down, up to the new currif->n_options, reading past the end  *)
(* of option[] when currif has more options than it.  An empty VALUE for *)
(* a hook does nothing, and any other VALUE is set with set_variable().   *)
(* The loop bound n_options is the global count, which does not change.  *)
(***************************************************************************)
RECURSIVE OverridesFrom(_, _, _)
OverridesFrom(i, cur, glob) ==
    IF i > Len(glob) THEN [cur |-> cur, glob |-> glob]
    ELSE LET o == glob[i]
             j == SelectInSeq(cur, LAMBDA v : v.name = o.name)
             n == Len(cur) - 1
             shifted == [k \in 1..Len(glob) |->
                           IF j # 0 /\ j <= k /\ k <= n
                           THEN IF k + 1 <= Len(glob) THEN glob[k + 1] ELSE Uninit
                           ELSE glob[k]]
         IN  CASE o.value = "" /\ o.name \notin Hooks /\ j # 0 ->
                    OverridesFrom(i + 1, SubSeq(cur, 1, n), shifted)
               [] o.value = "" -> OverridesFrom(i + 1, cur, glob)
               [] OTHER -> OverridesFrom(i + 1, set_variable(cur, o.name, o.value), glob)

\* The options the method sees, and the global array after the loop.
do_interface_options(stanza, glob) == OverridesFrom(1, InjectDefaults(stanza), glob)

-----------------------------------------------------------------------------
(* The reference (spec.md, section 7, step 7): the defaults the stanza   *)
(* does not specify are added; then each -o argument in command-line      *)
(* order sets the option, or removes it when VALUE is empty and it is not *)
(* a hook.                                                                 *)
SpecDefaults(stanza) ==
    stanza \o SelectSeq([k \in DOMAIN MethodDefaults |->
                            [name |-> MethodDefaults[k].option, value |-> MethodDefaults[k].value]],
                        LAMBDA o : o.name \notin Names(stanza))

SpecOverride(opts, a) ==
    LET n == OptionName(a.name)
    IN  CASE a.value # "" -> set_variable(opts, n, a.value)
          [] n \in Hooks -> opts
          [] OTHER -> SelectSeq(opts, LAMBDA v : v.name # n)

SpecOptions(stanza, args) == FoldLeft(SpecOverride, SpecDefaults(stanza), args)

\* What a method can tell apart in an option list: the value of each
\* option, and the hook commands in the order they run.
Effect(opts) == [vars  |-> {o \in ToSet(opts) : o.name \notin Hooks},
                 hooks |-> SelectSeq(opts, LAMBDA o : o.name \in Hooks)]

-----------------------------------------------------------------------------
(* Input enumeration: a stanza's options built line by line as the config *)
(* parser does, and -o arguments parsed one at a time.                     *)
VARIABLES stanza, slines, args, option

optvars == <<stanza, slines, args, option>>

OptInit == stanza = <<>> /\ slines = 0 /\ args = <<>> /\ option = <<>>

OptIdle == OptInit

\* An option line of the stanza (values are never empty there): a repeated
\* option other than a hook gets the new line appended to its value.
StanzaLine == /\ slines < MaxStanza /\ slines' = slines + 1
              /\ \E n \in StanzaNames, v \in StanzaValues :
                    LET k == SelectInSeq(stanza, LAMBDA o : o.name = n)
                        value == IF n \notin Hooks /\ k # 0 THEN stanza[k].value \o "\n" \o v ELSE v
                    IN  stanza' = set_variable(stanza, n, value)
              /\ UNCHANGED <<args, option>>

\* parse_options(), case 'o': the argument split at '=', the name renamed
\* and set in the global option[].
ParseOption == /\ Len(args) < MaxArgs
               /\ \E n \in ArgNames, v \in ArgValues :
                     /\ args' = Append(args, [name |-> n, value |-> v])
                     /\ option' = set_variable(option, OptionName(n), v)
               /\ UNCHANGED <<stanza, slines>>

OptNext == StanzaLine \/ ParseOption

(***************************************************************************)
(* The method sees the stanza's options with the defaults it lacks and    *)
(* the -o arguments applied in command-line order (the hooks in that     *)
(* order, each other option with the last value given), and the global -o *)
(* array that the next stanza of the interface reads is left as it was,   *)
(* whenever each "-o NAME=" names an option the stanza (with its          *)
(* defaults) does not have.  When it does, the code drops the stanza's    *)
(* last option instead and shifts the global array (main.c:1022-1029).    *)
(***************************************************************************)
OverridesApplied ==
    LET removals == {OptionName(args[k].name) : k \in {k \in DOMAIN args : args[k].value = ""}}
                    \ Hooks
        r == do_interface_options(stanza, option)
    IN  removals \cap Names(SpecDefaults(stanza)) = {}
            => /\ Effect(r.cur) = Effect(SpecOptions(stanza, args))
               /\ r.glob = option
====
