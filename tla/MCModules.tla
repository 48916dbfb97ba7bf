----------------------------- MODULE MCModules -----------------------------
(***************************************************************************)
(* Modules with a registry and a memory map of three entries each.  Up to  *)
(* four module tags: both names of the shell and one of a utility, on the  *)
(* command line and in the header in every combination, and images without *)
(* a header.  Between fewer modules, the other tags in every order: none,  *)
(* one or several command lines and memory maps.                           *)
(***************************************************************************)
EXTENDS Modules

MCNames == {"COMMAND.KERN", "command.com", "hello"}

Mod(c, h) == [kind |-> "module", cmdline |-> c, header |-> h]
Shell == Mod("COMMAND.KERN", "COMMAND.KERN")
Map(e) == [kind |-> "mmap", entries |-> e]

OtherTags == {[kind |-> "cmdline", serial |-> s] : s \in BOOLEAN}
               \cup {Map(<<"r1", "r2">>), Map(<<"r2">>), [kind |-> "other"]}

MCBootInfos ==
  UNION {[1 .. n -> ModuleTag] : n \in 0 .. 3}
    \cup {s \o <<Shell>> : s \in [1 .. 3 -> {Mod("hello", "hello"), Mod("hello", NoHeader)}]}
    \cup {s \o <<Shell>> \o t : s \in [1 .. 2 -> OtherTags],
                                t \in [1 .. 2 -> OtherTags \cup {Mod("hello", "hello")}]}
============================================================================
