------------------------------- MODULE Modules -------------------------------
(***************************************************************************)
(* From the boot information to the shell (hal.c, modules.c, kernel.c):    *)
(* hal_early_parse_console looks for the console the command line asks     *)
(* for, hal_arch_init keeps the memory map and registers the modules the   *)
(* boot loader loaded, modules_run_all calls every utility module,         *)
(* modules_launch_entry finds and calls the shell, and kernel_main panics  *)
(* when that returns.                                                      *)
(*                                                                         *)
(* Three pieces of code decide by name what becomes of a module: the       *)
(* filter of modules_run_all, the lookup of modules_find and the list of   *)
(* candidates of modules_launch_entry.  A module has two names, the one on *)
(* its command line and the one in its header, and either may be wrong.    *)
(***************************************************************************)
EXTENDS Integers, SequencesExt

CONSTANTS
  MAX_MODULES,   \* entries of the registry
  MAX_REGIONS,   \* entries of the memory map hal_arch_init collects
  Names,         \* module names
  Regions,       \* regions of memory
  BootInfos      \* the sequences of tags the boot loader may report

NoHeader == "no header"

(***************************************************************************)
(* The tags the kernel looks at.  Of a module: the command line (what      *)
(* str_copy keeps of it: a name of a shell is shorter than the 64 bytes of *)
(* the entry), and the name in the header of the image, if its magic is    *)
(* right.  Of the kernel's own command line: whether cmdline_has finds     *)
(* "console=serial" in it.                                                 *)
(***************************************************************************)
ModuleTag == [kind : {"module"}, cmdline : Names, header : Names \cup {NoHeader}]

Tag == ModuleTag \cup [kind : {"cmdline"}, serial : BOOLEAN]
         \cup [kind : {"mmap"}, entries : Seq(Regions)] \cup [kind : {"other"}]

ASSUME ModulesAssumption ==
  /\ MAX_MODULES \in Nat
  /\ MAX_REGIONS \in Nat
  /\ NoHeader \notin Names
  /\ BootInfos \subseteq Seq(Tag)

VARIABLES
  info,    \* the tags of the boot information
  tag,     \* the next one the walk looks at
  console, \* the console hal_console_init is given
  regions, \* the memory map hal_arch_init collects
  list,    \* module_list
  pc,      \* what runs: a routine of the kernel, a module, or nothing
  i,       \* the loop variable of modules_run_all, then of launch_entry
  calls    \* history: the modules whose entry has been called, in order

boot == <<info, console, regions>>
vars == <<boot, tag, list, pc, i, calls>>

Entry(t) == [cmdline |-> t.cmdline, header |-> t.header,
             state |-> IF t.header = NoHeader THEN "failed" ELSE "loaded"]

\* module_name_eq, module_is_entry_shell
Named(m, name) == m.cmdline = name \/ m.header = name

Candidates_Swapped == <<"command.com", "COMMAND.KERN">>
Candidates == <<"COMMAND.KERN", "command.com">>

IsEntryShell_ByHeader(m) == m.header \in {"COMMAND.KERN", "command.com"}
IsEntryShell(m) == Named(m, "COMMAND.KERN") \/ Named(m, "command.com")

\* modules_find: the first entry of that name.
Found(name) == {k \in DOMAIN list : /\ Named(list[k], name)
                                    /\ \A j \in 1 .. k - 1 : ~Named(list[j], name)}

----------------------------------------------------------------------------
Init == /\ info \in BootInfos
        /\ tag = 1
        /\ console = "vga"
        /\ regions = <<>>
        /\ list = <<>>
        /\ pc = "parse_console"
        /\ i = 0
        /\ calls = <<>>

\* hal_early_parse_console: the first command line decides.
ParseSkips == /\ pc = "parse_console"
              /\ tag <= Len(info)
              /\ info[tag].kind # "cmdline"
              /\ tag' = tag + 1
              /\ UNCHANGED <<boot, list, pc, i, calls>>

Parsed(type) == /\ console' = type
                /\ pc' = "arch_init"
                /\ tag' = 1
                /\ UNCHANGED <<info, regions, list, i, calls>>

ParseFinds == /\ pc = "parse_console"
              /\ tag <= Len(info)
              /\ info[tag].kind = "cmdline"
              /\ Parsed(IF info[tag].serial THEN "serial" ELSE "vga")

ParseEnds == /\ pc = "parse_console"
             /\ tag > Len(info)
             /\ Parsed("vga")

\* hal_arch_init meets a tag ...
At(kind) == /\ pc = "arch_init"
            /\ tag <= Len(info)
            /\ info[tag].kind = kind
            /\ tag' = tag + 1

\* ... of the memory map, of which it copies what there is room for,
Shorter(s, n) == IF Len(s) <= n THEN s ELSE SubSeq(s, 1, n)

AddRegions_StartsOver == /\ At("mmap")
                         /\ regions' = Shorter(info[tag].entries, MAX_REGIONS)
                         /\ UNCHANGED <<info, console, list, pc, i, calls>>
AddRegions == /\ At("mmap")
              /\ regions' = Shorter(regions \o info[tag].entries, MAX_REGIONS)
              /\ UNCHANGED <<info, console, list, pc, i, calls>>

\* ... of a module, which a full registry ignores,
Register_NoCap == /\ At("module")
                  /\ list' = Append(list, Entry(info[tag]))
                  /\ UNCHANGED <<boot, pc, i, calls>>
Register == /\ At("module")
            /\ Len(list) < MAX_MODULES
            /\ list' = Append(list, Entry(info[tag]))
            /\ UNCHANGED <<boot, pc, i, calls>>

Ignore == /\ At("module")
          /\ Len(list) >= MAX_MODULES
          /\ UNCHANGED <<boot, list, pc, i, calls>>

\* ... or one it has no use for.
PassOver == /\ At("cmdline") \/ At("other")
            /\ UNCHANGED <<boot, list, pc, i, calls>>

ArchDone == /\ pc = "arch_init"
            /\ tag > Len(info)
            /\ pc' = "run_all"
            /\ i' = 1
            /\ UNCHANGED <<boot, tag, list, calls>>

Call(k, who) == /\ list' = [list EXCEPT ![k].state = "running"]
                /\ calls' = Append(calls, k)
                /\ pc' = who
                /\ UNCHANGED <<boot, tag, i>>

\* modules_run_all
Runnable(m) == m.state = "loaded" /\ m.header # NoHeader /\ ~IsEntryShell(m)

RunSkips == /\ pc = "run_all"
            /\ i <= Len(list)
            /\ ~Runnable(list[i])
            /\ i' = i + 1
            /\ UNCHANGED <<boot, tag, list, pc, calls>>

RunCalls == /\ pc = "run_all"
            /\ i <= Len(list)
            /\ Runnable(list[i])
            /\ Call(i, "module")

RunDone_OneEarly == /\ pc = "run_all"
                    /\ i >= Len(list)
                    /\ pc' = "launch"
                    /\ i' = 1
                    /\ UNCHANGED <<boot, tag, list, calls>>
RunDone == /\ pc = "run_all"
           /\ i > Len(list)
           /\ pc' = "launch"
           /\ i' = 1
           /\ UNCHANGED <<boot, tag, list, calls>>

\* A module returns, or stops the machine: kst->sys.exit, kst->sys.panic,
\* an exception nobody handles.
ModuleReturns == /\ pc = "module"
                 /\ pc' = "run_all"
                 /\ i' = i + 1
                 /\ UNCHANGED <<boot, tag, list, calls>>

ModuleStops == /\ pc \in {"module", "shell"}
               /\ pc' = "halted"
               /\ UNCHANGED <<boot, tag, list, i, calls>>

\* modules_launch_entry
LaunchSkips == /\ pc = "launch"
               /\ i <= Len(Candidates)
               /\ \A k \in Found(Candidates[i]) : list[k].header = NoHeader
               /\ i' = i + 1
               /\ UNCHANGED <<boot, tag, list, pc, calls>>

LaunchCalls == /\ pc = "launch"
               /\ i <= Len(Candidates)
               /\ \E k \in Found(Candidates[i]) :
                    /\ list[k].header # NoHeader
                    /\ Call(k, "shell")

\* "No entry executable found"
LaunchFails == /\ pc = "launch"
               /\ i > Len(Candidates)
               /\ pc' = "no_entry"
               /\ UNCHANGED <<boot, tag, list, i, calls>>

ShellReturns == /\ pc = "shell"
                /\ pc' = "main_end"
                /\ UNCHANGED <<boot, tag, list, i, calls>>

\* kernel_main's last line.
Panic == /\ pc \in {"no_entry", "main_end"}
         /\ pc' = "halted"
         /\ UNCHANGED <<boot, tag, list, i, calls>>

Kernel == \/ ParseSkips \/ ParseFinds \/ ParseEnds
          \/ AddRegions \/ Register \/ Ignore \/ PassOver \/ ArchDone
          \/ RunSkips \/ RunCalls \/ RunDone
          \/ LaunchSkips \/ LaunchCalls \/ LaunchFails \/ Panic

Next == Kernel \/ ModuleReturns \/ ModuleStops \/ ShellReturns

Spec == Init /\ [][Next]_vars

----------------------------------------------------------------------------
Module == [cmdline : Names, header : Names \cup {NoHeader},
           state : {"loaded", "running", "failed"}]

Pcs == {"parse_console", "arch_init", "run_all", "module", "launch", "shell", "no_entry",
        "main_end", "halted"}

(* Type invariant; neither registry nor memory map outgrows its array.     *)
TypeOK ==
  /\ info \in Seq(Tag)
  /\ tag \in Nat \ {0}
  /\ console \in {"vga", "serial"}
  /\ regions \in Seq(Regions) /\ Len(regions) <= MAX_REGIONS
  /\ list \in Seq(Module) /\ Len(list) <= MAX_MODULES
  /\ pc \in Pcs
  /\ i \in Nat
  /\ calls \in Seq(Nat \ {0})

(***************************************************************************)
(* What the boot keeps of the boot information, in whatever order its tags *)
(* come: the console the first command line asks for, the first regions of *)
(* all memory maps together, and the first modules, each in their order.   *)
(***************************************************************************)
TagsUpTo(n, kind) == {k \in 1 .. n : info[k].kind = kind}

EntriesUpTo(n) ==
  FlattenSeq([k \in 1 .. n |-> IF info[k].kind = "mmap" THEN info[k].entries ELSE <<>>])

KeptUpTo(n) ==
  LET modules == TagsUpTo(n, "module")
      Rank(k) == Cardinality(TagsUpTo(k, "module"))
  IN  /\ regions = Shorter(EntriesUpTo(n), MAX_REGIONS)
      /\ Len(list) = Min({Cardinality(modules), MAX_MODULES})
      /\ \A k \in modules : Rank(k) <= Len(list) =>
           list[Rank(k)].cmdline = info[k].cmdline /\ list[Rank(k)].header = info[k].header

ConsoleAskedFor ==
  LET asked == TagsUpTo(Len(info), "cmdline")
  IN  console = IF asked # {} /\ info[Min(asked)].serial THEN "serial" ELSE "vga"

BootInfoKept ==
  pc \notin {"parse_console", "arch_init"} => ConsoleAskedFor /\ KeptUpTo(Len(info))

(***************************************************************************)
(* No entry point is called twice, whatever names command lines and        *)
(* headers carry: what modules_run_all skips as a shell is exactly what    *)
(* modules_launch_entry may call.                                          *)
(***************************************************************************)
CalledOnce == \A a, b \in DOMAIN calls : calls[a] = calls[b] => a = b

Utility(k) == list[k].header # NoHeader /\ ~IsEntryShell(list[k])

(***************************************************************************)
(* The shell starts on a finished system: every utility module has been    *)
(* called before it and has returned, in the order of the boot loader      *)
(* (overview_en.md, the boot sequence).                                    *)
(***************************************************************************)
UtilitiesFirst ==
  pc \in {"launch", "shell", "no_entry"} =>
    /\ \A k \in DOMAIN list : Utility(k) => \E a \in DOMAIN calls : calls[a] = k
    /\ \A a, b \in DOMAIN calls : a < b /\ Utility(calls[b]) => calls[a] < calls[b]

(***************************************************************************)
(* Which shell the names lead to.  A module can be launched under a name   *)
(* unless an earlier one of that name has no header.  The shell launched   *)
(* is a COMMAND.KERN if one can be, else a command.com; and "no entry      *)
(* executable" is the answer only if neither can be.                       *)
(***************************************************************************)
Launchable(k, name) ==
  /\ Named(list[k], name)
  /\ list[k].header # NoHeader
  /\ \A j \in 1 .. k - 1 : Named(list[j], name) => list[j].header # NoHeader

Available(name) == \E k \in DOMAIN list : Launchable(k, name)

ShellChoice ==
  /\ pc = "shell" =>
       LET s == calls[Len(calls)]
       IN  IF Available("COMMAND.KERN") THEN Launchable(s, "COMMAND.KERN")
                                        ELSE Launchable(s, "command.com")
  /\ pc = "no_entry" => ~Available("COMMAND.KERN") /\ ~Available("command.com")
============================================================================
