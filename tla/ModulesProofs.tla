---------------------------- MODULE ModulesProofs ----------------------------
(***************************************************************************)
(* Proofs about Modules, for every limit of the registry, every set of     *)
(* names and every boot information: no entry point is called twice, the   *)
(* utilities come before the shell, the shell is the one the names         *)
(* promise, and the boot keeps what the boot information says.             *)
(***************************************************************************)
EXTENDS Modules, FiniteSetTheorems, WellFoundedInduction, SequenceTheorems, TLAPS

USE DEF boot

Calls == DOMAIN calls
Called(k) == \E a \in Calls : calls[a] = k

(* An entry that has a header and has not been called can still be called. *)
StateInv ==
  /\ \A a \in Calls : calls[a] \in DOMAIN list
  /\ \A k \in DOMAIN list :
       list[k].header # NoHeader /\ ~Called(k) => list[k].state = "loaded"

(* All calls but the last are of utilities, in the order of the registry.  *)
OrderInv ==
  \A a, b \in Calls : a < b => /\ Utility(calls[a])
                               /\ Utility(calls[b]) => calls[a] < calls[b]

(* What each loop has behind it.                                           *)
PhaseInv ==
  /\ pc \in {"parse_console", "arch_init"} => calls = <<>>
  /\ pc \in {"run_all", "module", "launch", "no_entry"} =>
       \A a \in Calls : Utility(calls[a])
  /\ pc = "run_all" =>
       /\ i # 0
       /\ \A a \in Calls : calls[a] < i
       /\ \A k \in DOMAIN list : k < i /\ Utility(k) => Called(k)
  /\ pc = "module" =>
       /\ i # 0
       /\ \A a \in Calls : calls[a] <= i
       /\ \A k \in DOMAIN list : k <= i /\ Utility(k) => Called(k)
  /\ pc \in {"launch", "shell", "no_entry"} =>
       \A k \in DOMAIN list : Utility(k) => Called(k)
  /\ pc = "launch" => /\ i \in 1 .. 3
                      /\ i > 1 => ~Available("COMMAND.KERN")
                      /\ i > 2 => ~Available("command.com")

MInv == TypeOK /\ StateInv /\ OrderInv /\ PhaseInv /\ ShellChoice

----------------------------------------------------------------------------
(* Every non-empty set of natural numbers has a least element.             *)
LEMMA LeastElement ==
  ASSUME NEW T \in SUBSET Nat, T # {}
  PROVE  \E x \in T : \A y \in T : x <= y
<1> DEFINE R == {ss \in Nat \X Nat : ss[1] < ss[2]}
<1>1. IsWellFoundedOn(R, Nat)
  BY NatLessThanWellFounded DEF OpToRel
<1>2. \A x, y \in Nat : y < x => <<y, x>> \in R
  OBVIOUS
<1> HIDE DEF R
<1>3. PICK x \in T : \A y \in T : <<y, x>> \notin R
  BY <1>1, WFMin
<1>4. \A y \in T : ~(y < x)
  BY <1>2, <1>3
<1> QED BY <1>3, <1>4

(* modules_find returns an entry whenever there is one of that name.       *)
LEMMA FindFinds ==
  ASSUME TypeOK, NEW name, NEW k \in DOMAIN list, Named(list[k], name)
  PROVE  \E f \in Found(name) : f <= k
<1> DEFINE T == {j \in DOMAIN list : Named(list[j], name)}
<1>1. DOMAIN list = 1 .. Len(list) /\ Len(list) \in Nat
  BY DEF TypeOK
<1>2. T \in SUBSET Nat /\ T # {} /\ k \in T
  BY <1>1
<1>3. PICK x \in T : \A y \in T : x <= y
  <2> HIDE DEF T
  <2> QED BY <1>2, LeastElement
<1>4. \A j \in 1 .. x - 1 : ~Named(list[j], name)
  <2> SUFFICES ASSUME NEW j \in 1 .. x - 1, Named(list[j], name)  PROVE FALSE
    OBVIOUS
  <2>1. x \in 1 .. Len(list) /\ j \in DOMAIN list
    BY <1>1, <1>3
  <2>2. j \in T
    BY <2>1
  <2> QED BY <1>3, <2>1, <2>2, <1>1
<1>5. x \in Found(name)
  BY <1>3, <1>4 DEF Found
<1> QED BY <1>2, <1>3, <1>5

(* The entry modules_find returns is launchable if it has a header; if it  *)
(* has none, no entry of that name is.                                     *)
LEMMA FindLaunchable ==
  ASSUME TypeOK, NEW name, NEW f \in Found(name)
  PROVE  /\ list[f].header # NoHeader => Launchable(f, name)
         /\ list[f].header = NoHeader => ~Available(name)
<1>1. DOMAIN list = 1 .. Len(list) /\ Len(list) \in Nat
  BY DEF TypeOK
<1>2. f \in 1 .. Len(list) /\ Named(list[f], name)
      /\ \A j \in 1 .. f - 1 : ~Named(list[j], name)
  BY <1>1 DEF Found
<1>3. ASSUME list[f].header # NoHeader PROVE Launchable(f, name)
  BY <1>2, <1>3 DEF Launchable
<1>4. ASSUME list[f].header = NoHeader, NEW k \in DOMAIN list, Launchable(k, name)
      PROVE  FALSE
  <2>1. Named(list[k], name) /\ list[k].header # NoHeader
        /\ \A j \in 1 .. k - 1 : Named(list[j], name) => list[j].header # NoHeader
    BY <1>4 DEF Launchable
  <2>2. CASE f < k
    BY <1>1, <1>2, <1>4, <2>1, <2>2
  <2>3. CASE f = k
    BY <1>4, <2>1, <2>3
  <2>4. CASE k < f
    BY <1>1, <1>2, <2>1, <2>4
  <2> QED BY <1>1, <1>2, <2>2, <2>3, <2>4
<1> QED BY <1>3, <1>4 DEF Available

----------------------------------------------------------------------------
(* Calling an entry changes its state and the history, and nothing the     *)
(* names say.                                                              *)
LEMMA CallKeepsNames ==
  ASSUME TypeOK, NEW k \in DOMAIN list, NEW who \in Pcs, Call(k, who)
  PROVE  /\ list' \in Seq(Module) /\ Len(list') = Len(list)
         /\ DOMAIN list' = DOMAIN list
         /\ \A j \in DOMAIN list : /\ list'[j].header = list[j].header
                                   /\ list'[j].cmdline = list[j].cmdline
                                   /\ j # k => list'[j].state = list[j].state
         /\ \A j \in DOMAIN list : Utility(j)' <=> Utility(j)
         /\ \A j \in DOMAIN list : \A name : Launchable(j, name)' <=> Launchable(j, name)
         /\ \A name : Available(name)' <=> Available(name)
<1>1. DOMAIN list = 1 .. Len(list) /\ Len(list) \in Nat
  BY DEF TypeOK
<1>2. \A j \in DOMAIN list : list[j] \in Module
  BY <1>1 DEF TypeOK
<1>3. list' = [list EXCEPT ![k].state = "running"]
  BY DEF Call
<1>4. \A j \in DOMAIN list :
        list'[j] = IF j = k THEN [list[j] EXCEPT !.state = "running"] ELSE list[j]
  BY <1>3
<1>5. \A j \in DOMAIN list : /\ list'[j] \in Module
                             /\ list'[j].header = list[j].header
                             /\ list'[j].cmdline = list[j].cmdline
                             /\ j # k => list'[j].state = list[j].state
  BY <1>2, <1>4 DEF Module
<1>6. DOMAIN list' = DOMAIN list /\ list' \in Seq(Module) /\ Len(list') = Len(list)
  <2>1. list' = [j \in 1 .. Len(list) |-> list'[j]]
    BY <1>1, <1>3
  <2>2. \A j \in 1 .. Len(list) : list'[j] \in Module
    BY <1>1, <1>5
  <2> QED BY <1>1, <2>1, <2>2
<1>7. \A j \in DOMAIN list : \A name : Named(list[j], name)' <=> Named(list[j], name)
  BY <1>5, <1>6 DEF Named
<1>8. \A j \in DOMAIN list : Utility(j)' <=> Utility(j)
  BY <1>5, <1>7 DEF Utility, IsEntryShell
<1>9. \A j \in DOMAIN list : \A name : Launchable(j, name)' <=> Launchable(j, name)
  <2> SUFFICES ASSUME NEW j \in DOMAIN list, NEW name
               PROVE  Launchable(j, name)' <=> Launchable(j, name)
    OBVIOUS
  <2>1. \A m \in 1 .. j - 1 : m \in DOMAIN list
    BY <1>1
  <2> QED BY <2>1, <1>5, <1>7 DEF Launchable
<1>10. \A name : Available(name)' <=> Available(name)
  BY <1>6, <1>9 DEF Available
<1> QED BY <1>5, <1>6, <1>8, <1>9, <1>10

(* The history after a call.                                               *)
LEMMA CallHistory ==
  ASSUME TypeOK, StateInv, NEW k \in DOMAIN list, NEW who \in Pcs, Call(k, who)
  PROVE  /\ calls' \in Seq(Nat \ {0}) /\ Len(calls') = Len(calls) + 1
         /\ Calls = 1 .. Len(calls) /\ Len(calls) \in Nat
         /\ Calls' = 1 .. (Len(calls) + 1)
         /\ \A a \in Calls : calls'[a] = calls[a]
         /\ calls'[Len(calls) + 1] = k
         /\ \A j : Called(j)' <=> (Called(j) \/ j = k)
         /\ StateInv'
<1>1. DOMAIN list = 1 .. Len(list) /\ Len(list) \in Nat
  BY DEF TypeOK
<1>2. calls \in Seq(Nat \ {0}) /\ k \in Nat \ {0} /\ calls' = Append(calls, k)
  BY <1>1 DEF TypeOK, Call
<1>3. /\ calls' \in Seq(Nat \ {0}) /\ Len(calls') = Len(calls) + 1
      /\ Calls = 1 .. Len(calls) /\ Len(calls) \in Nat
      /\ Calls' = 1 .. (Len(calls) + 1)
      /\ \A a \in Calls : calls'[a] = calls[a]
      /\ calls'[Len(calls) + 1] = k
  BY <1>2 DEF Calls
<1>4. \A j : Called(j)' <=> (Called(j) \/ j = k)
  <2> SUFFICES ASSUME NEW j  PROVE Called(j)' <=> (Called(j) \/ j = k)
    OBVIOUS
  <2>1. Called(j)' <=> \E a \in 1 .. (Len(calls) + 1) : calls'[a] = j
    BY <1>3 DEF Called
  <2>2. \A a \in 1 .. (Len(calls) + 1) : a \in Calls \/ a = Len(calls) + 1
    BY <1>3
  <2>3. Len(calls) + 1 \in 1 .. (Len(calls) + 1) /\ Calls \subseteq 1 .. (Len(calls) + 1)
    BY <1>3
  <2> QED BY <1>3, <2>1, <2>2, <2>3 DEF Called
<1>5. StateInv'
  <2>1. \A a \in Calls' : calls'[a] \in DOMAIN list'
    <3> SUFFICES ASSUME NEW a \in Calls'  PROVE calls'[a] \in DOMAIN list'
      OBVIOUS
    <3>1. a \in Calls \/ a = Len(calls) + 1
      BY <1>3
    <3> QED BY <3>1, <1>3, CallKeepsNames DEF StateInv
  <2>2. \A j \in DOMAIN list' :
          list'[j].header # NoHeader /\ ~Called(j)' => list'[j].state = "loaded"
    BY <1>4, CallKeepsNames DEF StateInv
  <2> QED BY <2>1, <2>2 DEF StateInv, Called, Calls
<1> QED BY <1>3, <1>4, <1>5

(* Names, calls and their order are what they were when registry and       *)
(* history are.                                                            *)
LEMMA Unmoved ==
  ASSUME UNCHANGED <<list, calls>>
  PROVE  /\ StateInv => StateInv'
         /\ OrderInv => OrderInv'
         /\ Calls' = Calls
         /\ \A k : (Utility(k)' <=> Utility(k)) /\ (Called(k)' <=> Called(k))
         /\ \A k, name : Launchable(k, name)' <=> Launchable(k, name)
         /\ \A name : Available(name)' <=> Available(name)
BY DEF StateInv, OrderInv, Calls, Utility, IsEntryShell, Named, Called, Launchable, Available

(* Nothing is registered and nothing called.                               *)
LEMMA InitMInv == Init => MInv
<1> SUFFICES ASSUME Init PROVE MInv
  OBVIOUS
<1>1. info \in Seq(Tag)
  BY ModulesAssumption DEF Init
<1>2. calls = <<>> /\ list = <<>> /\ Calls = {} /\ DOMAIN list = {}
  BY DEF Init, Calls
<1>3. /\ list \in Seq(Module) /\ Len(list) <= MAX_MODULES
      /\ regions \in Seq(Regions) /\ Len(regions) <= MAX_REGIONS
  BY <1>2, ModulesAssumption DEF Init
<1>4. TypeOK
  BY <1>1, <1>2, <1>3 DEF Init, TypeOK, Pcs
<1>5. StateInv /\ OrderInv
  BY <1>2 DEF StateInv, OrderInv
<1>6. PhaseInv /\ ShellChoice
  BY <1>2 DEF Init, PhaseInv, ShellChoice
<1> QED BY <1>4, <1>5, <1>6 DEF MInv

(* What is kept of a sequence is a sequence no longer than the limit.      *)
LEMMA ShorterFits ==
  ASSUME NEW S, NEW s \in Seq(S), NEW n \in Nat
  PROVE  Shorter(s, n) \in Seq(S) /\ Len(Shorter(s, n)) <= n
<1>1. CASE Len(s) <= n
  BY <1>1 DEF Shorter
<1>2. CASE ~(Len(s) <= n)
  <2>1. Len(s) \in Nat /\ n \in 0 .. Len(s)
    BY <1>2
  <2>2. SubSeq(s, 1, n) \in Seq(S) /\ Len(SubSeq(s, 1, n)) = n
    BY <2>1
  <2> QED BY <1>2, <2>2 DEF Shorter
<1> QED BY <1>1, <1>2

(* Before the modules are run, walking the tags touches no module.         *)
LEMMA WalkMInv ==
  MInv /\ (ParseSkips \/ ParseFinds \/ ParseEnds \/ AddRegions \/ PassOver) => MInv'
<1> SUFFICES ASSUME MInv, ParseSkips \/ ParseFinds \/ ParseEnds \/ AddRegions \/ PassOver
             PROVE  MInv'
  OBVIOUS
<1> USE DEF MInv
<1>1. UNCHANGED <<info, list, i, calls>> /\ calls = <<>>
      /\ pc' \in {"parse_console", "arch_init"} /\ tag' \in Nat \ {0}
      /\ console' \in {"vga", "serial"}
  <2>1. tag \in Nat \ {0} /\ console \in {"vga", "serial"}
    BY DEF TypeOK
  <2>2. CASE ParseSkips
    BY <2>1, <2>2 DEF ParseSkips, PhaseInv
  <2>3. CASE ParseFinds
    BY <2>1, <2>3 DEF ParseFinds, Parsed, PhaseInv
  <2>4. CASE ParseEnds
    BY <2>1, <2>4 DEF ParseEnds, Parsed, PhaseInv
  <2>5. CASE AddRegions
    BY <2>1, <2>5 DEF AddRegions, At, PhaseInv
  <2>6. CASE PassOver
    BY <2>1, <2>6 DEF PassOver, At, PhaseInv
  <2> QED BY <2>2, <2>3, <2>4, <2>5, <2>6
<1>2. regions' \in Seq(Regions) /\ Len(regions') <= MAX_REGIONS
  <2>1. CASE AddRegions
    <3>1. info[tag] \in Tag /\ info[tag].kind = "mmap"
      BY <2>1 DEF AddRegions, At, TypeOK
    <3>2. info[tag].entries \in Seq(Regions)
      BY <3>1 DEF Tag, ModuleTag
    <3>3. PICK e \in Seq(Regions) : e = info[tag].entries
      BY <3>2
    <3>4. regions \o e \in Seq(Regions)
      BY <3>3 DEF TypeOK
    <3>5. regions' = Shorter(regions \o e, MAX_REGIONS)
      BY <2>1, <3>3 DEF AddRegions
    <3> QED BY <3>4, <3>5, ShorterFits, ModulesAssumption
  <2>2. CASE UNCHANGED regions
    BY <2>2 DEF TypeOK
  <2> QED BY <2>1, <2>2 DEF ParseSkips, ParseFinds, ParseEnds, Parsed, PassOver
<1>3. TypeOK'
  BY <1>1, <1>2 DEF TypeOK, Pcs
<1>4. StateInv' /\ OrderInv'
  BY <1>1, Unmoved
<1>5. PhaseInv' /\ ShellChoice'
  BY <1>1 DEF PhaseInv, ShellChoice
<1> QED BY <1>3, <1>4, <1>5

(* A module that is registered can be called.                              *)
LEMMA RegisterMInv == MInv /\ (Register \/ Ignore) => MInv'
<1> SUFFICES ASSUME MInv, Register \/ Ignore PROVE MInv'
  OBVIOUS
<1> USE DEF MInv
<1>1. calls = <<>> /\ pc = "arch_init" /\ UNCHANGED <<boot, pc, i, calls>>
      /\ tag' = tag + 1
  BY DEF Register, Ignore, At, PhaseInv
<1>2. list' \in Seq(Module) /\ Len(list') <= MAX_MODULES
      /\ \A k \in DOMAIN list' : list'[k].header # NoHeader => list'[k].state = "loaded"
  <2>1. CASE Register
    <3>0. PICK e : e = Entry(info[tag])
      OBVIOUS
    <3>1. info[tag] \in ModuleTag
      <4>1. info[tag] \in Tag /\ info[tag].kind = "module"
        BY <2>1 DEF Register, At, TypeOK
      <4> QED BY <4>1 DEF Tag, ModuleTag
    <3>2. e \in Module /\ (e.header # NoHeader => e.state = "loaded")
      BY <3>0, <3>1 DEF Entry, ModuleTag, Module
    <3>3. list' = Append(list, e) /\ list \in Seq(Module) /\ Len(list) < MAX_MODULES
      BY <2>1, <3>0 DEF Register, TypeOK
    <3>4. \A k \in DOMAIN list : list[k].header # NoHeader => list[k].state = "loaded"
      BY <1>1 DEF StateInv, Called, Calls
    <3>5. /\ list' \in Seq(Module) /\ Len(list') = Len(list) + 1 /\ Len(list) \in Nat
          /\ \A k \in DOMAIN list : list'[k] = list[k]
          /\ \A k \in DOMAIN list' : k \in DOMAIN list \/ list'[k] = e
      BY <3>2, <3>3
    <3>6. Len(list') <= MAX_MODULES
      BY <3>3, <3>5, ModulesAssumption
    <3>7. ASSUME NEW k \in DOMAIN list', list'[k].header # NoHeader
          PROVE  list'[k].state = "loaded"
      <4>1. CASE k \in DOMAIN list
        BY <4>1, <3>4, <3>5, <3>7
      <4>2. CASE list'[k] = e
        BY <4>2, <3>2, <3>7
      <4> QED BY <3>5, <3>7, <4>1, <4>2
    <3> QED BY <3>5, <3>6, <3>7
  <2>2. CASE Ignore
    BY <2>2, <1>1 DEF Ignore, At, TypeOK, StateInv, Called, Calls
  <2> QED BY <2>1, <2>2
<1>3. TypeOK'
  BY <1>1, <1>2 DEF TypeOK
<1>4. calls' = <<>> /\ Calls' = {}
  BY <1>1 DEF Calls
<1>5. StateInv' /\ OrderInv'
  BY <1>2, <1>4 DEF StateInv, OrderInv
<1>6. PhaseInv' /\ ShellChoice'
  BY <1>1, <1>4 DEF PhaseInv, ShellChoice
<1> QED BY <1>3, <1>5, <1>6

(* modules_run_all starts with nothing called.                             *)
LEMMA ArchDoneMInv == MInv /\ ArchDone => MInv'
<1> SUFFICES ASSUME MInv, ArchDone PROVE MInv'
  OBVIOUS
<1> USE DEF MInv
<1>1. UNCHANGED <<boot, tag, list, calls>> /\ pc = "arch_init" /\ pc' = "run_all"
      /\ i' = 1 /\ calls = <<>>
  BY DEF ArchDone, PhaseInv
<1>2. TypeOK'
  BY <1>1 DEF TypeOK, Pcs
<1>3. StateInv' /\ OrderInv'
  BY <1>1, Unmoved
<1>4. Calls' = {} /\ DOMAIN list' = 1 .. Len(list')
  BY <1>1 DEF Calls, TypeOK
<1>5. PhaseInv' /\ ShellChoice'
  BY <1>1, <1>4 DEF PhaseInv, ShellChoice
<1> QED BY <1>2, <1>3, <1>5

(* What modules_run_all skips is no utility, or cannot be called.          *)
LEMMA RunSkipsMInv == MInv /\ RunSkips => MInv'
<1> SUFFICES ASSUME MInv, RunSkips PROVE MInv'
  OBVIOUS
<1> USE DEF MInv
<1>1. UNCHANGED <<boot, tag, list, pc, calls>> /\ pc = "run_all" /\ i' = i + 1
      /\ i \in Nat /\ i <= Len(list) /\ ~Runnable(list[i])
  BY DEF RunSkips, TypeOK
<1>2. DOMAIN list = 1 .. Len(list) /\ Len(list) \in Nat
      /\ \A a \in Calls : calls[a] \in Nat
  BY DEF TypeOK, Calls
<1>3. TypeOK'
  BY <1>1 DEF TypeOK
<1>4. StateInv' /\ OrderInv'
  BY <1>1, Unmoved
<1>5. \A a \in Calls : calls[a] < i'
  BY <1>1, <1>2 DEF PhaseInv
<1>6. ASSUME NEW k \in DOMAIN list, k < i', Utility(k)  PROVE Called(k)
  <2>1. CASE k < i
    BY <2>1, <1>1, <1>6 DEF PhaseInv
  <2>2. CASE k = i
    BY <2>2, <1>1, <1>6 DEF StateInv, Runnable, Utility
  <2> QED BY <1>1, <1>2, <1>6, <2>1, <2>2
<1>7. PhaseInv'
  BY <1>1, <1>5, <1>6, Unmoved DEF PhaseInv
<1>8. ShellChoice'
  BY <1>1 DEF ShellChoice
<1> QED BY <1>3, <1>4, <1>7, <1>8

(* What modules_run_all calls is a utility it had not come to.             *)
LEMMA RunCallsMInv == MInv /\ RunCalls => MInv'
<1> SUFFICES ASSUME MInv, RunCalls PROVE MInv'
  OBVIOUS
<1> USE DEF MInv
<1>1. pc = "run_all" /\ i \in Nat /\ i <= Len(list) /\ Runnable(list[i])
      /\ Call(i, "module") /\ pc' = "module" /\ UNCHANGED <<boot, tag, i>>
  BY DEF RunCalls, Call, TypeOK
<1>2. DOMAIN list = 1 .. Len(list) /\ Len(list) \in Nat
  BY DEF TypeOK
<1>3. i \in DOMAIN list
  BY <1>1, <1>2 DEF PhaseInv
<1>4. Utility(i) /\ \A a \in Calls : calls[a] < i /\ Utility(calls[a])
  BY <1>1 DEF PhaseInv, Runnable, Utility
<1>5. "module" \in Pcs
  BY DEF Pcs
<1>6. TypeOK'
  BY <1>1, <1>3, <1>5, CallKeepsNames, CallHistory DEF TypeOK
<1>7. StateInv'
  BY <1>1, <1>3, <1>5, CallHistory
<1>8. \A a \in Calls' : a \in Calls \/ (a = Len(calls) + 1 /\ calls'[a] = i)
  BY <1>1, <1>3, <1>5, CallHistory
<1>9. \A a \in Calls' : calls'[a] \in DOMAIN list /\ calls'[a] <= i /\ Utility(calls'[a])
  <2> SUFFICES ASSUME NEW a \in Calls'
               PROVE  calls'[a] \in DOMAIN list /\ calls'[a] <= i /\ Utility(calls'[a])
    OBVIOUS
  <2>1. CASE a \in Calls
    <3>1. calls'[a] = calls[a] /\ calls[a] \in DOMAIN list
      BY <2>1, <1>1, <1>3, <1>5, CallHistory DEF StateInv
    <3> QED BY <2>1, <3>1, <1>1, <1>2, <1>4
  <2>2. CASE a = Len(calls) + 1 /\ calls'[a] = i
    BY <2>2, <1>1, <1>3, <1>4
  <2> QED BY <1>8, <2>1, <2>2
<1>10. \A k \in DOMAIN list : Utility(k)' <=> Utility(k)
  BY <1>1, <1>3, <1>5, CallKeepsNames
<1>11. (\A a \in Calls : Utility(calls[a]))'
  BY <1>9, <1>10 DEF Utility, IsEntryShell, Named
<1>12. OrderInv'
  <2> SUFFICES ASSUME NEW a \in Calls', NEW b \in Calls', a < b
               PROVE  calls'[a] < calls'[b]
    BY <1>11 DEF OrderInv
  <2>1. a \in Calls /\ calls'[a] = calls[a]
    BY <1>8, <1>1, <1>3, <1>5, CallHistory
  <2>2. CASE b \in Calls
    BY <2>1, <2>2, <1>1, <1>3, <1>4, <1>5, CallHistory DEF OrderInv
  <2>3. CASE b = Len(calls) + 1 /\ calls'[b] = i
    BY <2>1, <2>3, <1>4
  <2> QED BY <1>8, <2>2, <2>3
<1>13. ASSUME NEW k \in DOMAIN list, k <= i, Utility(k)  PROVE Called(k)'
  <2>1. Called(k)' <=> (Called(k) \/ k = i)
    BY <1>1, <1>3, <1>5, CallHistory
  <2>2. k < i => Called(k)
    BY <1>1, <1>13 DEF PhaseInv
  <2> QED BY <1>1, <1>2, <1>13, <2>1, <2>2
<1>14. PhaseInv'
  <2>1. DOMAIN list' = DOMAIN list
    BY <1>1, <1>3, <1>5, CallKeepsNames
  <2>2. \A k \in DOMAIN list' : k <= i' /\ Utility(k)' => Called(k)'
    BY <2>1, <1>1, <1>10, <1>13
  <2>3. i' # 0
    BY <1>1 DEF PhaseInv
  <2> QED BY <2>2, <2>3, <1>1, <1>9, <1>11 DEF PhaseInv
<1>15. ShellChoice'
  BY <1>1 DEF ShellChoice
<1> QED BY <1>6, <1>7, <1>12, <1>14, <1>15

(* At the end of modules_run_all no utility is left.                       *)
LEMMA RunDoneMInv == MInv /\ RunDone => MInv'
<1> SUFFICES ASSUME MInv, RunDone PROVE MInv'
  OBVIOUS
<1> USE DEF MInv
<1>1. UNCHANGED <<boot, tag, list, calls>> /\ pc = "run_all" /\ pc' = "launch"
      /\ i' = 1 /\ i > Len(list)
  BY DEF RunDone
<1>2. TypeOK'
  BY <1>1 DEF TypeOK, Pcs
<1>3. StateInv' /\ OrderInv'
  BY <1>1, Unmoved
<1>4. \A k \in DOMAIN list : k < i
  BY <1>1 DEF TypeOK
<1>5. PhaseInv'
  BY <1>1, <1>4, Unmoved DEF PhaseInv
<1>6. ShellChoice'
  BY <1>1 DEF ShellChoice
<1> QED BY <1>2, <1>3, <1>5, <1>6

(* A module returns, or one stops the machine, or the shell or the kernel  *)
(* comes to its end.                                                       *)
LEMMA EndMInv ==
  MInv /\ (ModuleReturns \/ ModuleStops \/ ShellReturns \/ Panic) => MInv'
<1> SUFFICES ASSUME MInv, ModuleReturns \/ ModuleStops \/ ShellReturns \/ Panic
             PROVE  MInv'
  OBVIOUS
<1> USE DEF MInv
<1>1. UNCHANGED <<boot, tag, list, calls>>
  BY DEF ModuleReturns, ModuleStops, ShellReturns, Panic
<1>2. StateInv' /\ OrderInv'
  BY <1>1, Unmoved
<1>3. CASE ModuleReturns
  <2>1. pc = "module" /\ pc' = "run_all" /\ i' = i + 1 /\ i \in Nat
    BY <1>3 DEF ModuleReturns, TypeOK
  <2>2. TypeOK' /\ ShellChoice'
    BY <1>1, <2>1 DEF TypeOK, Pcs, ShellChoice
  <2>3. \A a \in Calls : calls[a] < i'
    <3>1. \A a \in Calls : calls[a] \in Nat /\ calls[a] <= i
      BY <2>1 DEF TypeOK, Calls, PhaseInv
    <3> QED BY <2>1, <3>1
  <2>4. \A k \in DOMAIN list : k < i' /\ Utility(k) => Called(k)
    <3>1. \A k \in DOMAIN list : k \in Nat
      BY DEF TypeOK
    <3> QED BY <2>1, <3>1 DEF PhaseInv
  <2>5. PhaseInv'
    BY <1>1, <2>1, <2>3, <2>4, Unmoved DEF PhaseInv
  <2> QED BY <1>2, <2>2, <2>5
<1>4. CASE ModuleStops \/ ShellReturns \/ Panic
  <2>1. pc' \in {"halted", "main_end"} /\ i' = i
    BY <1>4 DEF ModuleStops, ShellReturns, Panic
  <2>2. TypeOK' /\ ShellChoice'
    BY <1>1, <2>1 DEF TypeOK, Pcs, ShellChoice
  <2>3. PhaseInv'
    BY <2>1 DEF PhaseInv
  <2> QED BY <1>2, <2>2, <2>3
<1> QED BY <1>3, <1>4

(* A candidate that is passed over cannot be launched.                     *)
LEMMA LaunchSkipsMInv == MInv /\ LaunchSkips => MInv'
<1> SUFFICES ASSUME MInv, LaunchSkips PROVE MInv'
  OBVIOUS
<1> USE DEF MInv
<1>1. UNCHANGED <<boot, tag, list, pc, calls>> /\ pc = "launch" /\ i' = i + 1
      /\ i \in 1 .. 2
      /\ \A k \in Found(Candidates[i]) : list[k].header = NoHeader
  BY DEF LaunchSkips, PhaseInv, Candidates
<1>2. TypeOK'
  BY <1>1 DEF TypeOK
<1>3. StateInv' /\ OrderInv'
  BY <1>1, Unmoved
<1>4. ~Available(Candidates[i])
  <2> SUFFICES ASSUME Available(Candidates[i]) PROVE FALSE
    OBVIOUS
  <2>1. PICK k \in DOMAIN list : Named(list[k], Candidates[i])
    BY DEF Available, Launchable
  <2>2. PICK f : f \in Found(Candidates[i])
    BY <2>1, FindFinds
  <2>3. list[f].header = NoHeader
    BY <1>1, <2>2
  <2> QED BY <2>2, <2>3, FindLaunchable
<1>5. i = 1 => ~Available("COMMAND.KERN")
  BY <1>4 DEF Candidates
<1>6. i = 2 => ~Available("command.com")
  BY <1>4 DEF Candidates
<1>7. i' \in 1 .. 3 /\ (i' > 1 => ~Available("COMMAND.KERN"))
      /\ (i' > 2 => ~Available("command.com"))
  BY <1>1, <1>5, <1>6 DEF PhaseInv
<1>8. PhaseInv'
  BY <1>1, <1>7, Unmoved DEF PhaseInv
<1>9. ShellChoice'
  BY <1>1 DEF ShellChoice
<1> QED BY <1>2, <1>3, <1>8, <1>9

(* When both candidates have been passed over, neither can be.             *)
LEMMA LaunchFailsMInv == MInv /\ LaunchFails => MInv'
<1> SUFFICES ASSUME MInv, LaunchFails PROVE MInv'
  OBVIOUS
<1> USE DEF MInv
<1>1. UNCHANGED <<boot, tag, list, i, calls>> /\ pc = "launch" /\ pc' = "no_entry"
      /\ i = 3
  BY DEF LaunchFails, PhaseInv, Candidates
<1>2. TypeOK'
  BY <1>1 DEF TypeOK, Pcs
<1>3. StateInv' /\ OrderInv'
  BY <1>1, Unmoved
<1>4. PhaseInv'
  BY <1>1, Unmoved DEF PhaseInv
<1>5. ShellChoice'
  BY <1>1, Unmoved DEF PhaseInv, ShellChoice
<1> QED BY <1>2, <1>3, <1>4, <1>5

(* The shell that is called has not been called by modules_run_all.        *)
LEMMA LaunchCallsMInv == MInv /\ LaunchCalls => MInv'
<1> SUFFICES ASSUME MInv, LaunchCalls PROVE MInv'
  OBVIOUS
<1> USE DEF MInv
<1>1. PICK k \in Found(Candidates[i]) : list[k].header # NoHeader /\ Call(k, "shell")
  BY DEF LaunchCalls
<1>2. pc = "launch" /\ pc' = "shell" /\ i \in 1 .. 2 /\ UNCHANGED <<boot, tag, i>>
      /\ Candidates[i] \in {"COMMAND.KERN", "command.com"}
      /\ (i = 1 => Candidates[i] = "COMMAND.KERN")
      /\ (i = 2 => Candidates[i] = "command.com")
  BY <1>1 DEF LaunchCalls, Call, PhaseInv, Candidates
<1>3. k \in DOMAIN list /\ Named(list[k], Candidates[i]) /\ "shell" \in Pcs
  BY <1>1 DEF Found, Pcs
<1>4. ~Utility(k)
  BY <1>2, <1>3 DEF Utility, IsEntryShell
<1>5. TypeOK'
  BY <1>1, <1>2, <1>3, CallKeepsNames, CallHistory DEF TypeOK
<1>6. StateInv'
  BY <1>1, <1>3, CallHistory
<1>7. OrderInv'
  <2> SUFFICES ASSUME NEW a \in Calls', NEW b \in Calls', a < b
               PROVE  (Utility(calls[a]) /\ (Utility(calls[b]) => calls[a] < calls[b]))'
    BY DEF OrderInv
  <2>1. a \in Calls /\ calls'[a] = calls[a] /\ calls[a] \in DOMAIN list
    BY <1>1, <1>3, CallHistory DEF StateInv
  <2>2. Utility(calls[a])
    BY <1>2, <2>1 DEF PhaseInv
  <2>3. \A j \in DOMAIN list : Utility(j)' <=> Utility(j)
    BY <1>1, <1>3, CallKeepsNames
  <2>4. Utility(calls[a])'
    BY <2>1, <2>2, <2>3 DEF Utility, IsEntryShell, Named
  <2>5. CASE b \in Calls
    <3>1. calls'[b] = calls[b] /\ calls[b] \in DOMAIN list
      BY <2>5, <1>1, <1>3, CallHistory DEF StateInv
    <3>2. Utility(calls[b])
      BY <1>2, <2>5 DEF PhaseInv
    <3> QED BY <2>1, <2>4, <2>5, <3>1, <3>2 DEF OrderInv
  <2>6. CASE b = Len(calls) + 1
    <3>1. calls'[b] = k
      BY <2>6, <1>1, <1>3, CallHistory
    <3>2. ~Utility(calls[b])'
      BY <1>3, <1>4, <2>3, <3>1 DEF Utility, IsEntryShell, Named
    <3> QED BY <2>4, <3>2
  <2> QED BY <1>1, <1>3, <2>5, <2>6, CallHistory
<1>8. PhaseInv'
  <2>1. DOMAIN list' = DOMAIN list
        /\ (\A j \in DOMAIN list : Utility(j)' <=> Utility(j))
        /\ (\A j : Called(j)' <=> (Called(j) \/ j = k))
    BY <1>1, <1>3, CallKeepsNames, CallHistory
  <2>2. \A j \in DOMAIN list : Utility(j) => Called(j)
    BY <1>2 DEF PhaseInv
  <2> QED BY <1>2, <2>1, <2>2 DEF PhaseInv
<1>9. ShellChoice'
  <2>1. Launchable(k, Candidates[i])
    BY <1>1, FindLaunchable
  <2>2. /\ \A name : Launchable(k, name)' <=> Launchable(k, name)
        /\ \A name : Available(name)' <=> Available(name)
    BY <1>1, <1>3, CallKeepsNames
  <2>3. calls'[Len(calls')] = k
    BY <1>1, <1>3, CallHistory
  <2>4. CASE i = 1
    <3>1. Launchable(k, "COMMAND.KERN") /\ Available("COMMAND.KERN")
      BY <1>2, <1>3, <2>1, <2>4 DEF Available
    <3>2. Launchable(k, "COMMAND.KERN")' /\ Available("COMMAND.KERN")'
      BY <2>2, <3>1
    <3>3. Launchable(calls[Len(calls)], "COMMAND.KERN")'
      BY <2>3, <3>2 DEF Launchable, Named
    <3> QED BY <1>2, <3>2, <3>3 DEF ShellChoice
  <2>5. CASE i = 2
    <3>1. Launchable(k, "command.com") /\ ~Available("COMMAND.KERN")
      BY <1>2, <2>1, <2>5 DEF PhaseInv
    <3>2. Launchable(k, "command.com")' /\ ~Available("COMMAND.KERN")'
      BY <2>2, <3>1
    <3>3. Launchable(calls[Len(calls)], "command.com")'
      BY <2>3, <3>2 DEF Launchable, Named
    <3> QED BY <1>2, <3>2, <3>3 DEF ShellChoice
  <2> QED BY <1>2, <2>4, <2>5
<1> QED BY <1>5, <1>6, <1>7, <1>8, <1>9

----------------------------------------------------------------------------
LEMMA NextMInv == MInv /\ [Next]_vars => MInv'
<1> SUFFICES ASSUME MInv, [Next]_vars PROVE MInv'
  OBVIOUS
<1>1. CASE UNCHANGED vars
  BY <1>1, Unmoved DEF vars, MInv, TypeOK, PhaseInv, ShellChoice
<1>2. CASE Next
  BY <1>2, WalkMInv, RegisterMInv, ArchDoneMInv, RunSkipsMInv, RunCallsMInv, RunDoneMInv,
     EndMInv, LaunchSkipsMInv, LaunchCallsMInv, LaunchFailsMInv DEF Next, Kernel
<1> QED BY <1>1, <1>2

(* The invariant, of every behaviour.                                      *)
LEMMA ModulesInvariance == Spec => []MInv
BY InitMInv, NextMInv, PTL DEF Spec

(* The registry keeps its shape and never outgrows its array, for every    *)
(* limit and every boot information.                                       *)
THEOREM RegistryTypeCorrect == Spec => []TypeOK
<1>1. MInv => TypeOK
  BY DEF MInv
<1> QED BY <1>1, ModulesInvariance, PTL

(* No entry point is ever called twice: modules_run_all calls in           *)
(* increasing order what modules_launch_entry cannot name.                 *)
THEOREM NoSecondCall == Spec => []CalledOnce
<1>1. MInv => CalledOnce
  <2> SUFFICES ASSUME MInv, NEW a \in DOMAIN calls, NEW b \in DOMAIN calls,
                      calls[a] = calls[b], a # b
               PROVE  FALSE
    BY DEF CalledOnce
  <2>1. a \in Nat /\ b \in Nat /\ calls[a] \in Nat /\ a \in Calls /\ b \in Calls
    BY DEF MInv, TypeOK, Calls
  <2>2. CASE a < b
    BY <2>1, <2>2 DEF MInv, OrderInv
  <2>3. CASE b < a
    BY <2>1, <2>3 DEF MInv, OrderInv
  <2> QED BY <2>1, <2>2, <2>3
<1> QED BY <1>1, ModulesInvariance, PTL

(* Before the shell is looked for, every utility has been called and has   *)
(* returned, in the order of the boot loader.                              *)
THEOREM UtilitiesBeforeShell == Spec => []UtilitiesFirst
<1>1. MInv => UtilitiesFirst
  BY DEF MInv, PhaseInv, OrderInv, Calls, Called, UtilitiesFirst
<1> QED BY <1>1, ModulesInvariance, PTL

(* The shell is a COMMAND.KERN if one can be launched, else a command.com; *)
(* "no entry executable" is said only when neither can be.                 *)
THEOREM RightShell == Spec => []ShellChoice
<1>1. MInv => ShellChoice
  BY DEF MInv
<1> QED BY <1>1, ModulesInvariance, PTL

----------------------------------------------------------------------------
(* Flattening, by induction on sets of lengths.                            *)

\* What FlattenSeq computes on its way.
Flattens(g, s, n) == \A k \in 1 .. n : g[k] = IF k = 1 THEN s[1] ELSE g[k - 1] \o s[k]

(* It has a value, ...                                                     *)
LEMMA FlattenExists ==
  ASSUME NEW S, NEW s \in Seq(Seq(S))
  PROVE  \E g \in [1 .. Len(s) -> Seq(S)] : Flattens(g, s, Len(s))
<1> DEFINE Part(g, n) ==
             \A k \in 1 .. n : g[k] = IF k = 1 THEN s[1] ELSE g[k - 1] \o s[k]
           T == {n \in 0 .. Len(s) : ~\E g \in [1 .. n -> Seq(S)] : Part(g, n)}
<1>1. Len(s) \in Nat /\ \A k \in 1 .. Len(s) : s[k] \in Seq(S)
  BY LenProperties, ElementOfSeq
<1>2. T = {}
  <2> SUFFICES ASSUME T # {} PROVE FALSE
    OBVIOUS
  <2>1. PICK m \in T : \A n \in T : m <= n
    <3>1. T \in SUBSET Nat
      BY <1>1
    <3> HIDE DEF T
    <3> QED
      BY <3>1, LeastElement
  <2>2. m \in 0 .. Len(s) /\ m \in Nat
    BY <1>1, <2>1
  <2>3. CASE m = 0
    <3>1. [k \in 1 .. 0 |-> <<>>] \in [1 .. 0 -> Seq(S)]
      OBVIOUS
    <3>2. Part([k \in 1 .. 0 |-> <<>>], 0)
      OBVIOUS
    <3> QED
      BY <2>1, <2>3, <3>1, <3>2
  <2>4. CASE m # 0
    <3>1. m - 1 \in 0 .. Len(s) /\ m - 1 \notin T /\ m \in 1 .. Len(s)
      <4>1. m - 1 \in 0 .. Len(s) /\ m \in 1 .. Len(s) /\ ~(m <= m - 1)
        BY <1>1, <2>2, <2>4
      <4> HIDE DEF T
      <4> QED
        BY <2>1, <4>1
    <3>2. PICK g \in [1 .. (m - 1) -> Seq(S)] : Part(g, m - 1)
      BY <3>1
    <3> DEFINE next == IF m = 1 THEN s[1] ELSE g[m - 1] \o s[m]
               h == [k \in 1 .. m |-> IF k = m THEN next ELSE g[k]]
    <3>3. next \in Seq(S)
      <4>1. CASE m = 1
        BY <1>1, <3>1, <4>1
      <4>2. CASE m # 1
        <5>1. g[m - 1] \in Seq(S) /\ s[m] \in Seq(S)
          BY <1>1, <2>2, <3>1, <3>2, <4>2
        <5> QED
          BY <4>2, <5>1, ConcatProperties
      <4> QED
        BY <4>1, <4>2
    <3>4. h \in [1 .. m -> Seq(S)]
      <4> HIDE DEF next
      <4>1. \A k \in 1 .. m : k # m => k \in 1 .. (m - 1)
        BY <2>2
      <4> QED
        BY <3>2, <3>3, <4>1
    <3>5. Part(h, m)
      <4> TAKE k \in 1 .. m
      <4>1. CASE k = m
        <5>1. m # 1 => m - 1 \in 1 .. m /\ m - 1 # m
          BY <2>2, <2>4
        <5>2. h[m] = next /\ (m # 1 => h[m - 1] = g[m - 1])
          BY <2>2, <2>4, <5>1
        <5> QED
          BY <4>1, <5>2
      <4>2. CASE k # m
        <5>1. k \in 1 .. (m - 1) /\ (k # 1 => k - 1 \in 1 .. m /\ k - 1 # m)
          BY <2>2, <4>2
        <5>2. h[k] = g[k] /\ (k # 1 => h[k - 1] = g[k - 1])
          BY <4>2, <5>1
        <5> QED
          BY <3>2, <5>1, <5>2
      <4> QED
        BY <4>1, <4>2
    <3> QED
      BY <2>1, <3>4, <3>5
  <2> QED
    BY <2>3, <2>4
<1>3. Len(s) \notin T /\ Len(s) \in 0 .. Len(s)
  <2> HIDE DEF T
  <2>1. Len(s) \in 0 .. Len(s)
    BY <1>1
  <2> QED
    BY <1>2, <2>1
<1>4. PICK g \in [1 .. Len(s) -> Seq(S)] : Part(g, Len(s))
  BY <1>3
<1> QED
  BY <1>4 DEF Flattens

(* ... which is what FlattenSeq picks.                                     *)
LEMMA FlattenIs ==
  ASSUME NEW S, NEW s \in Seq(Seq(S)), Len(s) # 0
  PROVE  \E g : /\ DOMAIN g = 1 .. Len(s) /\ Flattens(g, s, Len(s))
                /\ FlattenSeq(s) = g[Len(s)]
<1> DEFINE P(g) == g = [k \in 1 .. Len(s) |-> IF k = 1 THEN s[k] ELSE g[k - 1] \o s[k]]
<1>1. PICK g \in [1 .. Len(s) -> Seq(S)] : Flattens(g, s, Len(s))
  BY FlattenExists
<1>2. P(g)
  BY <1>1 DEF Flattens
<1>3. P(CHOOSE f : P(f))
  BY <1>2, Zenon
<1>4. FlattenSeq(s) = (CHOOSE f : P(f))[Len(s)]
  BY Zenon DEF FlattenSeq
<1> QED
  <2> DEFINE c == CHOOSE f : P(f)
  <2>1. c = [k \in 1 .. Len(s) |-> IF k = 1 THEN s[k] ELSE c[k - 1] \o s[k]]
    BY <1>3
  <2>2. FlattenSeq(s) = c[Len(s)]
    BY <1>4
  <2> HIDE DEF c
  <2>3. DOMAIN c = 1 .. Len(s) /\ Flattens(c, s, Len(s))
    BY <2>1 DEF Flattens
  <2> QED
    BY <2>2, <2>3

(* There is but one.                                                       *)
LEMMA FlattenUnique ==
  ASSUME NEW s, NEW n \in Nat, NEW g, NEW h,
         Flattens(g, s, n), Flattens(h, s, n)
  PROVE  \A k \in 1 .. n : g[k] = h[k]
<1> DEFINE T == {k \in 1 .. n : g[k] # h[k]}
<1>1. T = {}
  <2> SUFFICES ASSUME T # {} PROVE FALSE
    OBVIOUS
  <2>1. PICK m \in T : \A k \in T : m <= k
    <3>1. T \in SUBSET Nat
      OBVIOUS
    <3> HIDE DEF T
    <3> QED
      BY <3>1, LeastElement
  <2>2. m \in 1 .. n /\ g[m] # h[m]
    BY <2>1
  <2>3. m # 1 => m - 1 \in 1 .. n /\ ~(m <= m - 1)
    BY <2>2
  <2>4. m # 1 => m - 1 \notin T
    <3> HIDE DEF T
    <3> QED
      BY <2>1, <2>3
  <2>5. m # 1 => g[m - 1] = h[m - 1]
    BY <2>3, <2>4
  <2> QED
    BY <2>2, <2>5 DEF Flattens
<1> QED
  BY <1>1

(* Flattening one more sequence adds it at the end.                        *)
LEMMA FlattenAppend ==
  ASSUME NEW S, NEW s \in Seq(Seq(S)), NEW x \in Seq(S)
  PROVE  /\ FlattenSeq(s) \in Seq(S)
         /\ FlattenSeq(<<>>) = <<>>
         /\ FlattenSeq(Append(s, x)) = FlattenSeq(s) \o x
<1> DEFINE t == Append(s, x)
<1>1. /\ t \in Seq(Seq(S)) /\ Len(s) \in Nat /\ Len(t) = Len(s) + 1 /\ t[Len(s) + 1] = x
      /\ \A k \in 1 .. Len(s) : t[k] = s[k]
  BY LenProperties, AppendProperties
<1>2. FlattenSeq(<<>>) = <<>>
  BY EmptySeq DEF FlattenSeq
<1> HIDE DEF t
<1>3. PICK h : DOMAIN h = 1 .. Len(t) /\ Flattens(h, t, Len(t)) /\ FlattenSeq(t) = h[Len(t)]
  BY <1>1, FlattenIs
<1>4. CASE s = <<>>
  <2>1. Len(s) = 0 /\ 1 \in 1 .. Len(t) /\ Len(t) = 1 /\ Len(s) + 1 = 1
    BY <1>1, <1>4
  <2>2. FlattenSeq(t) = x
    BY <1>1, <1>3, <2>1 DEF Flattens
  <2>3. <<>> \o x = x
    BY ConcatEmptySeq
  <2> QED
    BY <1>2, <1>4, <2>2, <2>3, EmptySeq DEF t
<1>5. CASE s # <<>>
  <2>1. Len(s) # 0 /\ Len(s) \in 1 .. Len(s) /\ 1 \in 1 .. Len(s)
    BY <1>1, <1>5, EmptySeq
  <2>2. PICK g : DOMAIN g = 1 .. Len(s) /\ Flattens(g, s, Len(s)) /\ FlattenSeq(s) = g[Len(s)]
    BY <2>1, FlattenIs
  <2>3. PICK f \in [1 .. Len(s) -> Seq(S)] : Flattens(f, s, Len(s))
    BY FlattenExists
  <2>4. Flattens(h, s, Len(s))
    <3> SUFFICES \A k \in 1 .. Len(s) : h[k] = IF k = 1 THEN s[1] ELSE h[k - 1] \o s[k]
      BY DEF Flattens
    <3> TAKE k \in 1 .. Len(s)
    <3>1. k \in 1 .. Len(t) /\ t[k] = s[k] /\ t[1] = s[1]
      BY <1>1, <2>1
    <3> QED
      BY <1>3, <3>1 DEF Flattens
  <2>5. \A k \in 1 .. Len(s) : g[k] = h[k]
    <3>1. Len(s) \in Nat /\ Flattens(g, s, Len(s)) /\ Flattens(h, s, Len(s))
      BY <1>1, <2>2, <2>4
    <3> QED
      BY <3>1, FlattenUnique
  <2>6. \A k \in 1 .. Len(s) : g[k] = f[k]
    <3>1. Len(s) \in Nat /\ Flattens(g, s, Len(s)) /\ Flattens(f, s, Len(s))
      BY <1>1, <2>2, <2>3
    <3> QED
      BY <3>1, FlattenUnique
  <2>7. FlattenSeq(s) \in Seq(S)
    BY <2>1, <2>2, <2>3, <2>6
  <2>8. FlattenSeq(t) = h[Len(s)] \o x
    <3>1. Len(t) \in 1 .. Len(t) /\ Len(t) # 1 /\ Len(t) - 1 = Len(s)
      BY <1>1, <2>1
    <3> QED
      BY <1>1, <1>3, <3>1 DEF Flattens
  <2> QED
    BY <1>2, <2>1, <2>2, <2>5, <2>7, <2>8 DEF t
<1> QED
  BY <1>4, <1>5

----------------------------------------------------------------------------
(* What the walk over the tags keeps.                                      *)

\* The walk has kept what the tags before the next one say.
KeepInv ==
  /\ pc = "parse_console" => /\ tag <= Len(info) + 1
                             /\ TagsUpTo(tag - 1, "cmdline") = {}
                             /\ regions = <<>> /\ list = <<>>
  /\ pc # "parse_console" => ConsoleAskedFor
  /\ pc = "arch_init" => tag <= Len(info) + 1 /\ KeptUpTo(tag - 1)
  /\ BootInfoKept

(* The least element, if it is known.                                      *)
LEMMA MinIs ==
  ASSUME NEW T \in SUBSET Nat, NEW x \in T, \A y \in T : x <= y
  PROVE  Min(T) = x
<1>1. \A z \in T : (\A y \in T : z <= y) => z = x
  <2> TAKE z \in T
  <2>1. z \in Nat /\ x \in Nat
    OBVIOUS
  <2> QED
    BY <2>1
<1> QED
  BY <1>1 DEF Min

(* The lesser of two counts.                                               *)
LEMMA MinOfTwo ==
  ASSUME NEW a \in Nat, NEW b \in Nat
  PROVE  Min({a, b}) = IF a <= b THEN a ELSE b
<1> DEFINE x == IF a <= b THEN a ELSE b
<1>1. {a, b} \in SUBSET Nat /\ x \in {a, b} /\ \A y \in {a, b} : x <= y
  OBVIOUS
<1> HIDE DEF x
<1>2. Min({a, b}) = x
  BY <1>1, MinIs
<1> QED
  BY <1>2 DEF x

(* One more tag.                                                           *)
LEMMA OneMoreTag ==
  ASSUME NEW n \in Nat, NEW kind
  PROVE  /\ TagsUpTo(n, kind) \in SUBSET Nat /\ n + 1 \notin TagsUpTo(n, kind)
         /\ TagsUpTo(n + 1, kind) =
              IF info[n + 1].kind = kind THEN TagsUpTo(n, kind) \cup {n + 1}
                                         ELSE TagsUpTo(n, kind)
BY DEF TagsUpTo

(* Counting the tags of a kind.                                            *)
LEMMA TagsCounted ==
  ASSUME NEW n \in Nat, NEW kind
  PROVE  /\ IsFiniteSet(TagsUpTo(n, kind))
         /\ Cardinality(TagsUpTo(n, kind)) \in Nat
         /\ Cardinality(TagsUpTo(n + 1, kind)) =
              IF info[n + 1].kind = kind THEN Cardinality(TagsUpTo(n, kind)) + 1
                                         ELSE Cardinality(TagsUpTo(n, kind))
         /\ \A k \in 1 .. n : Cardinality(TagsUpTo(k, kind)) <= Cardinality(TagsUpTo(n, kind))
<1>1. ASSUME NEW k \in Nat
      PROVE  IsFiniteSet(TagsUpTo(k, kind)) /\ Cardinality(TagsUpTo(k, kind)) \in Nat
  <2>1. IsFiniteSet(1 .. k)
    BY FS_Interval
  <2>2. TagsUpTo(k, kind) \subseteq 1 .. k
    BY DEF TagsUpTo
  <2> QED
    BY <2>1, <2>2, FS_Subset, FS_CardinalityType
<1>2. Cardinality(TagsUpTo(n + 1, kind)) =
        IF info[n + 1].kind = kind THEN Cardinality(TagsUpTo(n, kind)) + 1
                                   ELSE Cardinality(TagsUpTo(n, kind))
  BY <1>1, OneMoreTag, FS_AddElement
<1>3. ASSUME NEW k \in 1 .. n
      PROVE  Cardinality(TagsUpTo(k, kind)) <= Cardinality(TagsUpTo(n, kind))
  <2>1. TagsUpTo(k, kind) \subseteq TagsUpTo(n, kind)
    BY DEF TagsUpTo
  <2> QED
    BY <1>1, <2>1, FS_Subset
<1> QED
  BY <1>1, <1>2, <1>3

(* What a tag adds to the memory map.                                      *)
EntriesAt(k) == IF info[k].kind = "mmap" THEN info[k].entries ELSE <<>>

(* A tag adds its entries to those of the tags before it.                  *)
LEMMA OneMoreEntries ==
  ASSUME TypeOK, NEW n \in Nat, n < Len(info)
  PROVE  /\ EntriesUpTo(0) = <<>>
         /\ EntriesUpTo(n) \in Seq(Regions) /\ EntriesAt(n + 1) \in Seq(Regions)
         /\ EntriesUpTo(n + 1) = EntriesUpTo(n) \o EntriesAt(n + 1)
<1>1. Len(info) \in Nat /\ \A k \in 1 .. Len(info) : info[k] \in Tag
  BY ElementOfSeq, LenProperties DEF TypeOK
<1>2. \A k \in 1 .. Len(info) : EntriesAt(k) \in Seq(Regions)
  <2> TAKE k \in 1 .. Len(info)
  <2>1. CASE info[k].kind = "mmap"
    BY <1>1, <2>1 DEF EntriesAt, Tag, ModuleTag
  <2>2. CASE info[k].kind # "mmap"
    BY <2>2, EmptySeq DEF EntriesAt
  <2> QED
    BY <2>1, <2>2
<1> DEFINE E(m) == [k \in 1 .. m |-> EntriesAt(k)]
<1>3. ASSUME NEW m \in 0 .. Len(info) PROVE E(m) \in Seq(Seq(Regions)) /\ Len(E(m)) = m
  <2>1. m \in Nat /\ E(m) \in [1 .. m -> Seq(Regions)]
    BY <1>1, <1>2
  <2> QED
    BY <2>1, SeqDef
<1>4. E(n + 1) = Append(E(n), EntriesAt(n + 1))
  <2> DEFINE a == Append(E(n), EntriesAt(n + 1))
  <2>1. /\ E(n + 1) \in Seq(Seq(Regions)) /\ Len(E(n + 1)) = n + 1
        /\ E(n) \in Seq(Seq(Regions)) /\ Len(E(n)) = n /\ EntriesAt(n + 1) \in Seq(Regions)
    <3>1. n \in 0 .. Len(info) /\ n + 1 \in 0 .. Len(info) /\ n + 1 \in 1 .. Len(info)
      BY <1>1
    <3> HIDE DEF E
    <3> QED
      BY <1>2, <1>3, <3>1
  <2>2. /\ a \in Seq(Seq(Regions)) /\ Len(a) = n + 1 /\ a[n + 1] = EntriesAt(n + 1)
        /\ \A k \in 1 .. n : a[k] = E(n)[k]
    <3> HIDE DEF E
    <3> QED
      BY <2>1, AppendProperties
  <2>3. \A k \in 1 .. n + 1 : E(n + 1)[k] = a[k]
    <3> TAKE k \in 1 .. n + 1
    <3>1. k \in 1 .. n \/ k = n + 1
      OBVIOUS
    <3>2. E(n + 1)[k] = EntriesAt(k) /\ (k \in 1 .. n => E(n)[k] = EntriesAt(k))
      OBVIOUS
    <3> HIDE DEF a, E
    <3> QED
      BY <2>2, <3>1, <3>2
  <2> HIDE DEF a, E
  <2>4. E(n + 1) = a
    BY <2>1, <2>2, <2>3, SeqEqual
  <2> QED
    BY <2>4 DEF a
<1>5. \A m : EntriesUpTo(m) = FlattenSeq(E(m))
  BY DEF EntriesUpTo, EntriesAt
<1>6. E(0) = <<>>
  <2>1. E(0) \in Seq(Seq(Regions)) /\ Len(E(0)) = 0
    BY <1>1, <1>3
  <2> HIDE DEF E
  <2> QED
    BY <2>1, EmptySeq
<1>7. E(n) \in Seq(Seq(Regions)) /\ EntriesAt(n + 1) \in Seq(Regions)
  <2>1. n \in 0 .. Len(info) /\ n + 1 \in 1 .. Len(info)
    BY <1>1
  <2> HIDE DEF E
  <2> QED
    BY <1>2, <1>3, <2>1
<1> HIDE DEF E
<1>8. /\ FlattenSeq(E(n)) \in Seq(Regions) /\ FlattenSeq(<<>>) = <<>>
      /\ FlattenSeq(Append(E(n), EntriesAt(n + 1))) = FlattenSeq(E(n)) \o EntriesAt(n + 1)
  BY <1>7, FlattenAppend
<1> QED
  BY <1>4, <1>5, <1>6, <1>7, <1>8

(* Keeping what fits of a map that was cut short.                          *)
LEMMA ShorterAgain ==
  ASSUME NEW S, NEW s \in Seq(S), NEW t \in Seq(S), NEW n \in Nat
  PROVE  Shorter(Shorter(s, n) \o t, n) = Shorter(s \o t, n)
<1>1. CASE Len(s) <= n
  BY <1>1 DEF Shorter
<1>2. CASE ~(Len(s) <= n)
  <2>1. Len(s) \in Nat /\ Len(t) \in Nat /\ n < Len(s)
    BY <1>2, LenProperties
  <2> DEFINE b == SubSeq(s, 1, n)
  <2>2. b \in Seq(S) /\ Len(b) = n /\ \A k \in 1 .. n : b[k] = s[k]
    <3>1. n \in 0 .. Len(s)
      BY <2>1
    <3> QED
      BY <2>1, <3>1
  <2> HIDE DEF b
  <2>3. Shorter(s, n) = b
    BY <1>2 DEF Shorter, b
  <2>4. /\ b \o t \in Seq(S) /\ Len(b \o t) = n + Len(t)
        /\ \A k \in 1 .. n : (b \o t)[k] = s[k]
    <3>1. /\ b \o t \in Seq(S) /\ Len(b \o t) = Len(b) + Len(t)
          /\ \A k \in 1 .. Len(b) + Len(t) :
               (b \o t)[k] = IF k <= Len(b) THEN b[k] ELSE t[k - Len(b)]
      BY <2>2, ConcatProperties
    <3>2. \A k \in 1 .. n : k \in 1 .. n + Len(t) /\ k <= n
      BY <2>1
    <3> QED
      BY <2>2, <3>1, <3>2
  <2>5. /\ s \o t \in Seq(S) /\ Len(s \o t) = Len(s) + Len(t)
        /\ \A k \in 1 .. n : (s \o t)[k] = s[k]
    BY <2>1, ConcatProperties
  <2>6. ASSUME NEW u \in Seq(S), n <= Len(u), \A k \in 1 .. n : u[k] = s[k]
        PROVE  Shorter(u, n) \in Seq(S) /\ Len(Shorter(u, n)) = n
               /\ \A k \in 1 .. n : Shorter(u, n)[k] = s[k]
    <3>1. Len(u) \in Nat
      BY LenProperties
    <3>2. CASE Len(u) = n
      BY <2>6, <3>1, <3>2 DEF Shorter
    <3>3. CASE Len(u) # n
      <4>1. n \in 0 .. Len(u) /\ ~(Len(u) <= n)
        BY <2>6, <3>1, <3>3
      <4>2. SubSeq(u, 1, n) \in Seq(S) /\ Len(SubSeq(u, 1, n)) = n
            /\ \A k \in 1 .. n : SubSeq(u, 1, n)[k] = u[k]
        BY <3>1, <4>1
      <4> QED
        BY <2>6, <4>1, <4>2 DEF Shorter
    <3> QED
      BY <3>2, <3>3
  <2>7. /\ n <= Len(b \o t) /\ n <= Len(s \o t)
    BY <2>1, <2>4, <2>5
  <2>8. /\ Shorter(b \o t, n) \in Seq(S) /\ Len(Shorter(b \o t, n)) = n
        /\ \A k \in 1 .. n : Shorter(b \o t, n)[k] = s[k]
    BY <2>4, <2>6, <2>7
  <2>9. /\ Shorter(s \o t, n) \in Seq(S) /\ Len(Shorter(s \o t, n)) = n
        /\ \A k \in 1 .. n : Shorter(s \o t, n)[k] = s[k]
    BY <2>5, <2>6, <2>7
  <2>10. Shorter(b \o t, n) = Shorter(s \o t, n)
    BY <2>8, <2>9, SeqEqual
  <2> QED
    BY <2>3, <2>10
<1> QED
  BY <1>1, <1>2

(* The registry before and after a step that keeps all names.              *)
LEMMA NamesKept ==
  ASSUME NEW n \in Nat, KeptUpTo(n), UNCHANGED <<info, regions>>, Len(list') = Len(list),
         Len(list) \in Nat,
         \A k \in 1 .. Len(list) : /\ list'[k].cmdline = list[k].cmdline
                                   /\ list'[k].header = list[k].header
  PROVE  KeptUpTo(n)'
<1>1. \A k, kind : TagsUpTo(k, kind)' = TagsUpTo(k, kind)
  BY DEF TagsUpTo
<1>2. EntriesUpTo(n)' = EntriesUpTo(n)
  BY DEF EntriesUpTo
<1> DEFINE Rank(k) == Cardinality(TagsUpTo(k, "module"))
<1>3. ASSUME NEW k \in TagsUpTo(n, "module"), Rank(k) <= Len(list)
      PROVE  Rank(k) \in 1 .. Len(list)
  <2>1. k \in 1 .. n /\ info[k].kind = "module"
    BY <1>3 DEF TagsUpTo
  <2>2. k \in Nat /\ k \in TagsUpTo(k, "module")
    BY <2>1 DEF TagsUpTo
  <2>3. IsFiniteSet(TagsUpTo(k, "module")) /\ Rank(k) \in Nat
    BY <2>2, TagsCounted
  <2>4. Rank(k) # 0
    BY <2>2, <2>3, FS_EmptySet
  <2> HIDE DEF Rank
  <2> QED
    BY <1>3, <2>3, <2>4
<1>4. ASSUME NEW k \in TagsUpTo(n, "module"), Rank(k) <= Len(list)
      PROVE  list'[Rank(k)].cmdline = info[k].cmdline /\ list'[Rank(k)].header = info[k].header
  <2>1. list[Rank(k)].cmdline = info[k].cmdline /\ list[Rank(k)].header = info[k].header
    BY <1>4 DEF KeptUpTo
  <2> HIDE DEF Rank
  <2> QED
    BY <1>3, <1>4, <2>1
<1> QED
  BY <1>1, <1>2, <1>4 DEF KeptUpTo

(* Before the first tag there is nothing to keep.                          *)
LEMMA InitKeepInv == Init => KeepInv
<1> SUFFICES ASSUME Init PROVE KeepInv
  OBVIOUS
<1>1. info \in Seq(Tag) /\ Len(info) \in Nat
  BY ModulesAssumption, LenProperties DEF Init
<1>2. TagsUpTo(0, "cmdline") = {}
  BY DEF TagsUpTo
<1> QED
  BY <1>1, <1>2 DEF Init, KeepInv, BootInfoKept

(* The console is the one that the first command line asks for.            *)
LEMMA ParseKeepInv ==
  ASSUME TypeOK, KeepInv, ParseSkips \/ ParseFinds \/ ParseEnds
  PROVE  KeepInv'
<1>0. pc = "parse_console" /\ UNCHANGED <<info, regions, list>>
  BY DEF ParseSkips, ParseFinds, ParseEnds, Parsed, boot
<1>1. /\ pc = "parse_console" /\ tag \in Nat \ {0} /\ Len(info) \in Nat /\ tag <= Len(info) + 1
      /\ TagsUpTo(tag - 1, "cmdline") = {} /\ regions = <<>> /\ list = <<>>
      /\ UNCHANGED <<info, regions, list>> /\ MAX_REGIONS \in Nat /\ MAX_MODULES \in Nat
  <2>1. tag \in Nat \ {0} /\ info \in Seq(Tag)
    BY DEF TypeOK
  <2>2. /\ tag <= Len(info) + 1 /\ TagsUpTo(tag - 1, "cmdline") = {}
        /\ regions = <<>> /\ list = <<>>
    BY <1>0 DEF KeepInv
  <2>3. Len(info) \in Nat
    BY <2>1, LenProperties
  <2>4. MAX_REGIONS \in Nat /\ MAX_MODULES \in Nat
    BY ModulesAssumption
  <2> QED
    BY <1>0, <2>1, <2>2, <2>3, <2>4
<1>2. \A k, kind : TagsUpTo(k, kind)' = TagsUpTo(k, kind)
  BY <1>1 DEF TagsUpTo
<1>3. CASE ParseSkips
  <2>1. pc' = pc /\ tag' = tag + 1 /\ tag <= Len(info) /\ info[tag].kind # "cmdline"
    BY <1>3 DEF ParseSkips
  <2>2. TagsUpTo(tag, "cmdline") = {}
    <3>1. tag - 1 \in Nat /\ tag - 1 + 1 = tag
      BY <1>1
    <3> QED
      BY <1>1, <2>1, <3>1, OneMoreTag
  <2>3. tag' - 1 = tag
    BY <1>1, <2>1
  <2> QED
    BY <1>1, <1>2, <2>1, <2>2, <2>3 DEF KeepInv, BootInfoKept
<1>4. CASE ParseFinds \/ ParseEnds
  <2>1. pc' = "arch_init" /\ tag' = 1
    BY <1>4 DEF ParseFinds, ParseEnds, Parsed
  <2>2. ConsoleAskedFor'
    <3> DEFINE asked == TagsUpTo(Len(info), "cmdline")
    <3>1. ASSUME ParseFinds PROVE tag \in asked /\ Min(asked) = tag
      <4>1. tag \in 1 .. Len(info) /\ info[tag].kind = "cmdline"
        BY <1>1, <3>1 DEF ParseFinds
      <4>2. tag \in asked /\ asked \in SUBSET Nat
        BY <4>1 DEF TagsUpTo
      <4>3. \A k \in asked : tag <= k
        <5> SUFFICES ASSUME NEW k \in asked, ~(tag <= k) PROVE FALSE
          OBVIOUS
        <5>1. k \in 1 .. (tag - 1) /\ info[k].kind = "cmdline"
          BY <1>1, <4>1 DEF TagsUpTo
        <5> QED
          BY <1>1, <5>1 DEF TagsUpTo
      <4> HIDE DEF asked
      <4> QED
        BY <4>2, <4>3, MinIs
    <3>2. CASE ParseFinds
      BY <1>1, <1>2, <3>1, <3>2 DEF ParseFinds, Parsed, ConsoleAskedFor
    <3>3. CASE ParseEnds
      <4>1. tag - 1 = Len(info)
        BY <1>1, <3>3 DEF ParseEnds
      <4> QED
        BY <1>1, <1>2, <3>3, <4>1 DEF ParseEnds, Parsed, ConsoleAskedFor
    <3> QED
      BY <1>4, <3>2, <3>3
  <2>3. KeptUpTo(0)'
    <3>1. EntriesUpTo(0) = <<>> /\ TagsUpTo(0, "module") = {}
      <4>1. [k \in 1 .. 0 |-> IF info[k].kind = "mmap" THEN info[k].entries ELSE <<>>] = <<>>
        OBVIOUS
      <4> QED
        BY <4>1, EmptySeq DEF EntriesUpTo, TagsUpTo, FlattenSeq
    <3>2. Shorter(<<>>, MAX_REGIONS) = <<>>
      BY <1>1, EmptySeq DEF Shorter
    <3>3. Min({Cardinality(TagsUpTo(0, "module")), MAX_MODULES}) = 0
      BY <1>1, <3>1, FS_EmptySet, MinOfTwo
    <3>4. EntriesUpTo(0)' = EntriesUpTo(0)
      BY <1>1 DEF EntriesUpTo
    <3>5. Len(list) = 0
      BY <1>1, EmptySeq
    <3> QED
      BY <1>1, <1>2, <3>1, <3>2, <3>3, <3>4, <3>5 DEF KeptUpTo
  <2>4. tag' - 1 = 0 /\ tag' <= Len(info) + 1
    BY <1>1, <2>1
  <2> QED
    BY <1>1, <2>1, <2>2, <2>3, <2>4 DEF KeepInv, BootInfoKept
<1> QED
  BY <1>3, <1>4

(* The memory map gets what it has room for.                               *)
LEMMA RegionsKept ==
  ASSUME TypeOK, NEW n \in Nat, n < Len(info), regions = Shorter(EntriesUpTo(n), MAX_REGIONS),
         UNCHANGED info,
         IF info[n + 1].kind = "mmap"
           THEN regions' = Shorter(regions \o info[n + 1].entries, MAX_REGIONS)
           ELSE UNCHANGED regions
  PROVE  regions' = Shorter(EntriesUpTo(n + 1), MAX_REGIONS)'
<1>1. /\ EntriesUpTo(n) \in Seq(Regions) /\ EntriesAt(n + 1) \in Seq(Regions)
      /\ EntriesUpTo(n + 1) = EntriesUpTo(n) \o EntriesAt(n + 1) /\ MAX_REGIONS \in Nat
  BY OneMoreEntries, ModulesAssumption
<1>2. CASE info[n + 1].kind = "mmap"
  <2>1. EntriesAt(n + 1) = info[n + 1].entries
    BY <1>2 DEF EntriesAt
  <2>2. Shorter(regions \o EntriesAt(n + 1), MAX_REGIONS)
          = Shorter(EntriesUpTo(n) \o EntriesAt(n + 1), MAX_REGIONS)
    BY <1>1, ShorterAgain
  <2>3. regions' = Shorter(EntriesUpTo(n + 1), MAX_REGIONS)
    BY <1>1, <1>2, <2>1, <2>2
  <2> QED
    BY <2>3 DEF Shorter, EntriesUpTo
<1>3. CASE info[n + 1].kind # "mmap"
  <2>1. EntriesUpTo(n + 1) = EntriesUpTo(n)
    BY <1>1, <1>3, ConcatEmptySeq DEF EntriesAt
  <2> QED
    BY <1>3, <2>1 DEF Shorter, EntriesUpTo
<1> QED
  BY <1>2, <1>3

(* The registry gets the first modules.                                    *)
LEMMA ModulesKept ==
  ASSUME TypeOK, NEW n \in Nat, n < Len(info), UNCHANGED info,
         Len(list) = Min({Cardinality(TagsUpTo(n, "module")), MAX_MODULES}),
         \A k \in TagsUpTo(n, "module") : Cardinality(TagsUpTo(k, "module")) <= Len(list) =>
           /\ list[Cardinality(TagsUpTo(k, "module"))].cmdline = info[k].cmdline
           /\ list[Cardinality(TagsUpTo(k, "module"))].header = info[k].header,
         IF info[n + 1].kind = "module" /\ Len(list) < MAX_MODULES
           THEN list' = Append(list, Entry(info[n + 1]))
           ELSE UNCHANGED list
  PROVE  /\ Len(list') = Min({Cardinality(TagsUpTo(n + 1, "module")), MAX_MODULES})
         /\ \A k \in TagsUpTo(n + 1, "module") :
              Cardinality(TagsUpTo(k, "module")) <= Len(list') =>
                /\ list'[Cardinality(TagsUpTo(k, "module"))].cmdline = info[k].cmdline
                /\ list'[Cardinality(TagsUpTo(k, "module"))].header = info[k].header
<1> DEFINE Rank(k) == Cardinality(TagsUpTo(k, "module"))
<1>1. /\ Rank(n) \in Nat
      /\ Rank(n + 1) = IF info[n + 1].kind = "module" THEN Rank(n) + 1 ELSE Rank(n)
  BY TagsCounted
<1>2. /\ n + 1 \notin TagsUpTo(n, "module")
      /\ TagsUpTo(n + 1, "module") =
           IF info[n + 1].kind = "module" THEN TagsUpTo(n, "module") \cup {n + 1}
                                          ELSE TagsUpTo(n, "module")
  BY OneMoreTag
<1>3. \A k \in TagsUpTo(n, "module") : Rank(k) \in Nat \ {0} /\ Rank(k) <= Rank(n)
  <2> TAKE k \in TagsUpTo(n, "module")
  <2>1. k \in 1 .. n /\ k \in Nat /\ k \in TagsUpTo(k, "module")
    BY DEF TagsUpTo
  <2>2. IsFiniteSet(TagsUpTo(k, "module")) /\ Rank(k) \in Nat /\ Rank(k) <= Rank(n)
    BY <2>1, TagsCounted
  <2>3. Rank(k) # 0
    BY <2>1, <2>2, FS_EmptySet
  <2> QED
    BY <2>2, <2>3
<1>4. list \in Seq(Module) /\ Len(list) \in Nat /\ MAX_MODULES \in Nat
  BY ModulesAssumption, LenProperties DEF TypeOK
<1>5. Len(list) = IF Rank(n) <= MAX_MODULES THEN Rank(n) ELSE MAX_MODULES
  BY <1>1, <1>4, MinOfTwo
<1>6. \A k \in TagsUpTo(n, "module") : Rank(k) <= Len(list) =>
        list[Rank(k)].cmdline = info[k].cmdline /\ list[Rank(k)].header = info[k].header
  OBVIOUS
<1>7. Rank(n + 1) \in Nat
  BY <1>1
<1>8. Min({Rank(n + 1), MAX_MODULES})
        = IF Rank(n + 1) <= MAX_MODULES THEN Rank(n + 1) ELSE MAX_MODULES
  BY <1>4, <1>7, MinOfTwo
<1>9. IF info[n + 1].kind = "module" /\ Len(list) < MAX_MODULES
        THEN list' = Append(list, Entry(info[n + 1]))
        ELSE list' = list
  OBVIOUS
<1> SUFFICES
      /\ Len(list') = Min({Rank(n + 1), MAX_MODULES})
      /\ \A k \in TagsUpTo(n + 1, "module") : Rank(k) <= Len(list') =>
           list'[Rank(k)].cmdline = info[k].cmdline /\ list'[Rank(k)].header = info[k].header
  OBVIOUS
<1> HIDE DEF Rank
<1>10. CASE info[n + 1].kind = "module" /\ Len(list) < MAX_MODULES
  <2> DEFINE e == Entry(info[n + 1])
  <2>1. e \in Module
    <3>1. n + 1 \in 1 .. Len(info) /\ info \in Seq(Tag)
      BY LenProperties DEF TypeOK
    <3>2. info[n + 1] \in Tag
      BY <3>1, ElementOfSeq
    <3> QED
      BY <1>10, <3>2 DEF Entry, Module, Tag, ModuleTag
  <2>2. e.cmdline = info[n + 1].cmdline /\ e.header = info[n + 1].header
    BY DEF Entry
  <2>3. list' = Append(list, e)
    BY <1>9, <1>10
  <2> HIDE DEF e
  <2>4. Len(list') = Len(list) + 1 /\ list'[Len(list) + 1] = e
        /\ \A k \in 1 .. Len(list) : list'[k] = list[k]
    BY <1>4, <2>1, <2>3, AppendProperties
  <2>5. Len(list) = Rank(n) /\ Rank(n + 1) = Len(list) + 1
    BY <1>1, <1>4, <1>5, <1>10
  <2>6. ASSUME NEW k \in TagsUpTo(n + 1, "module"), Rank(k) <= Len(list')
        PROVE  list'[Rank(k)].cmdline = info[k].cmdline /\ list'[Rank(k)].header = info[k].header
    <3>1. CASE k = n + 1
      BY <2>2, <2>4, <2>5, <3>1
    <3>2. CASE k # n + 1
      <4>1. k \in TagsUpTo(n, "module")
        BY <1>2, <3>2
      <4>2. Rank(k) \in 1 .. Len(list)
        BY <1>3, <2>5, <4>1, <1>4
      <4>3. list'[Rank(k)] = list[Rank(k)]
        BY <2>4, <4>2
      <4>4. Rank(k) <= Len(list)
        BY <1>4, <4>2
      <4> QED
        BY <1>6, <4>1, <4>3, <4>4
    <3> QED
      BY <3>1, <3>2
  <2>7. Len(list') = Min({Rank(n + 1), MAX_MODULES})
    BY <1>4, <1>8, <1>10, <2>4, <2>5
  <2> QED
    BY <2>6, <2>7
<1>11. CASE ~(info[n + 1].kind = "module" /\ Len(list) < MAX_MODULES)
  <2>1. list' = list
    BY <1>9, <1>11
  <2>2. Len(list) = Min({Rank(n + 1), MAX_MODULES})
    BY <1>1, <1>4, <1>5, <1>8, <1>11
  <2>3. ASSUME NEW k \in TagsUpTo(n + 1, "module"), Rank(k) <= Len(list)
        PROVE  list[Rank(k)].cmdline = info[k].cmdline /\ list[Rank(k)].header = info[k].header
    <3>1. CASE k = n + 1
      <4>1. info[n + 1].kind = "module"
        BY <1>2, <3>1
      <4>2. Rank(n + 1) > Len(list)
        BY <1>1, <1>4, <1>5, <1>11, <4>1
      <4> QED
        BY <1>4, <1>7, <2>3, <3>1, <4>2
    <3>2. CASE k # n + 1
      BY <1>2, <1>6, <2>3, <3>2
    <3> QED
      BY <3>1, <3>2
  <2> QED
    BY <2>1, <2>2, <2>3
<1> QED
  BY <1>10, <1>11

(* One tag of hal_arch_init.                                               *)
LEMMA ArchKeepInv ==
  ASSUME TypeOK, KeepInv, AddRegions \/ Register \/ Ignore \/ PassOver
  PROVE  KeepInv'
<1>0. PICK n : n = tag - 1
  OBVIOUS
<1>1. /\ pc = "arch_init" /\ pc' = pc /\ UNCHANGED <<info, console>>
      /\ tag <= Len(info) /\ tag' = tag + 1
  BY DEF AddRegions, Register, Ignore, PassOver, At
<1>2. tag \in Nat \ {0} /\ Len(info) \in Nat
  <2>1. tag \in Nat \ {0} /\ info \in Seq(Tag)
    BY DEF TypeOK
  <2> QED
    BY <2>1, LenProperties
<1>3. n \in Nat /\ n < Len(info) /\ n + 1 = tag /\ tag' - 1 = n + 1
  BY <1>0, <1>1, <1>2
<1>4. ConsoleAskedFor /\ KeptUpTo(n)
  BY <1>0, <1>1 DEF KeepInv
<1>5. /\ IF info[tag].kind = "mmap"
           THEN regions' = Shorter(regions \o info[tag].entries, MAX_REGIONS)
           ELSE UNCHANGED regions
      /\ IF info[tag].kind = "module" /\ Len(list) < MAX_MODULES
           THEN list' = Append(list, Entry(info[tag]))
           ELSE UNCHANGED list
  <2>1. CASE AddRegions
    BY <2>1 DEF AddRegions, At
  <2>2. CASE Register
    BY <2>2 DEF Register, At
  <2>3. CASE Ignore
    <3>1. Len(list) \in Nat /\ MAX_MODULES \in Nat
      BY ModulesAssumption, LenProperties DEF TypeOK
    <3> QED
      BY <2>3, <3>1 DEF Ignore, At
  <2>4. CASE PassOver
    BY <2>4 DEF PassOver, At
  <2> QED
    BY <2>1, <2>2, <2>3, <2>4
<1>6. \A k, kind : TagsUpTo(k, kind)' = TagsUpTo(k, kind)
  BY <1>1 DEF TagsUpTo
<1>7. regions' = Shorter(EntriesUpTo(n + 1), MAX_REGIONS)'
  <2>1. regions = Shorter(EntriesUpTo(n), MAX_REGIONS)
    BY <1>4 DEF KeptUpTo
  <2>2. IF info[n + 1].kind = "mmap"
          THEN regions' = Shorter(regions \o info[n + 1].entries, MAX_REGIONS)
          ELSE UNCHANGED regions
    BY <1>3, <1>5
  <2> QED
    BY <1>1, <1>3, <2>1, <2>2, RegionsKept
<1>8. /\ Len(list') = Min({Cardinality(TagsUpTo(n + 1, "module")), MAX_MODULES})
      /\ \A k \in TagsUpTo(n + 1, "module") :
           Cardinality(TagsUpTo(k, "module")) <= Len(list') =>
             /\ list'[Cardinality(TagsUpTo(k, "module"))].cmdline = info[k].cmdline
             /\ list'[Cardinality(TagsUpTo(k, "module"))].header = info[k].header
  <2>1. /\ Len(list) = Min({Cardinality(TagsUpTo(n, "module")), MAX_MODULES})
        /\ \A k \in TagsUpTo(n, "module") : Cardinality(TagsUpTo(k, "module")) <= Len(list) =>
             /\ list[Cardinality(TagsUpTo(k, "module"))].cmdline = info[k].cmdline
             /\ list[Cardinality(TagsUpTo(k, "module"))].header = info[k].header
    BY <1>4 DEF KeptUpTo
  <2>2. IF info[n + 1].kind = "module" /\ Len(list) < MAX_MODULES
          THEN list' = Append(list, Entry(info[n + 1]))
          ELSE UNCHANGED list
    BY <1>3, <1>5
  <2>3. UNCHANGED info
    BY <1>1
  <2> QED
    BY <1>3, <2>1, <2>2, <2>3, ModulesKept
<1>9. ConsoleAskedFor'
  BY <1>1, <1>4, <1>6 DEF ConsoleAskedFor
<1>11. KeptUpTo(n + 1)'
  BY <1>1, <1>6, <1>7, <1>8 DEF KeptUpTo
<1>12. KeptUpTo(tag - 1)'
  BY <1>3, <1>11
<1>13. pc' = "arch_init" /\ (tag <= Len(info) + 1)'
  BY <1>1, <1>2
<1> QED
  BY <1>9, <1>12, <1>13 DEF KeepInv, BootInfoKept

(* What is kept is not lost afterwards.                                    *)
LEMMA LaterKeepInv ==
  ASSUME TypeOK, KeepInv,
         pc # "parse_console", pc' \notin {"parse_console", "arch_init"},
         pc = "arch_init" => tag > Len(info),
         UNCHANGED <<info, console, regions>>,
         \/ UNCHANGED list
         \/ \E k \in DOMAIN list, who \in Pcs : Call(k, who)
  PROVE  KeepInv'
<1>1. Len(info) \in Nat /\ Len(list) \in Nat /\ DOMAIN list = 1 .. Len(list) /\ tag \in Nat \ {0}
  BY LenProperties DEF TypeOK
<1>2. ConsoleAskedFor
  BY DEF KeepInv
<1>3. KeptUpTo(Len(info))
  <2>1. CASE pc = "arch_init"
    <3>1. tag - 1 = Len(info)
      BY <1>1, <2>1 DEF KeepInv
    <3> QED
      BY <2>1, <3>1 DEF KeepInv
  <2>2. CASE pc # "arch_init"
    BY <2>2 DEF KeepInv, BootInfoKept
  <2> QED
    BY <2>1, <2>2
<1>4. /\ Len(list') = Len(list)
      /\ \A k \in 1 .. Len(list) : /\ list'[k].cmdline = list[k].cmdline
                                   /\ list'[k].header = list[k].header
  <2>1. CASE UNCHANGED list
    BY <2>1
  <2>2. ASSUME NEW k \in DOMAIN list, NEW who \in Pcs, Call(k, who)
        PROVE  /\ Len(list') = Len(list)
               /\ \A j \in 1 .. Len(list) : /\ list'[j].cmdline = list[j].cmdline
                                            /\ list'[j].header = list[j].header
    BY <1>1, <2>2, CallKeepsNames
  <2> QED
    BY <2>1, <2>2
<1>5. PICK n : n = Len(info)
  OBVIOUS
<1>6. KeptUpTo(n)'
  <2>1. n \in Nat /\ KeptUpTo(n) /\ UNCHANGED <<info, regions>> /\ Len(list) \in Nat
    BY <1>1, <1>3, <1>5
  <2> QED
    BY <1>4, <2>1, NamesKept
<1>7. KeptUpTo(Len(info))'
  BY <1>5, <1>6
<1>8. ConsoleAskedFor'
  BY <1>2 DEF ConsoleAskedFor, TagsUpTo
<1> QED
  BY <1>7, <1>8 DEF KeepInv, BootInfoKept

(* Every step keeps what has been kept.                                    *)
LEMMA NextKeepInv == MInv /\ KeepInv /\ [Next]_vars => KeepInv'
<1> SUFFICES ASSUME MInv, KeepInv, [Next]_vars PROVE KeepInv'
  OBVIOUS
<1>1. TypeOK
  BY DEF MInv
<1>2. CASE UNCHANGED vars
  BY <1>2 DEF vars, KeepInv, BootInfoKept, KeptUpTo, ConsoleAskedFor, TagsUpTo, EntriesUpTo, Shorter
<1>3. CASE ParseSkips \/ ParseFinds \/ ParseEnds
  BY <1>1, <1>3, ParseKeepInv
<1>4. CASE AddRegions \/ Register \/ Ignore \/ PassOver
  BY <1>1, <1>4, ArchKeepInv
<1>5. CASE ArchDone \/ RunSkips \/ RunDone \/ LaunchSkips \/ LaunchFails \/ Panic
           \/ ModuleReturns \/ ModuleStops \/ ShellReturns
  <2>1. /\ pc # "parse_console" /\ pc' \notin {"parse_console", "arch_init"}
        /\ pc = "arch_init" => tag > Len(info)
        /\ UNCHANGED <<info, console, regions, list>>
    BY <1>5 DEF ArchDone, RunSkips, RunDone, LaunchSkips, LaunchFails, Panic, ModuleReturns,
                ModuleStops, ShellReturns
  <2> QED
    BY <1>1, <2>1, LaterKeepInv
<1>6. CASE RunCalls \/ LaunchCalls
  <2>1. /\ pc \in {"run_all", "launch"}
        /\ \E k \in DOMAIN list, who \in {"module", "shell"} : Call(k, who)
    <3>1. CASE RunCalls
      <4>1. i \in Nat /\ Len(list) \in Nat /\ DOMAIN list = 1 .. Len(list)
        BY <1>1, LenProperties DEF TypeOK
      <4>2. i # 0
        BY <3>1 DEF RunCalls, MInv, PhaseInv
      <4>3. i \in DOMAIN list
        BY <3>1, <4>1, <4>2 DEF RunCalls
      <4> QED
        BY <3>1, <4>3 DEF RunCalls
    <3>2. CASE LaunchCalls
      BY <3>2 DEF LaunchCalls, Found
    <3> QED
      BY <1>6, <3>1, <3>2
  <2>2. /\ pc' \in {"module", "shell"} /\ UNCHANGED <<info, console, regions>>
    BY <2>1 DEF Call
  <2>3. \E k \in DOMAIN list, who \in Pcs : Call(k, who)
    BY <2>1 DEF Pcs
  <2> QED
    BY <1>1, <2>1, <2>2, <2>3, LaterKeepInv
<1> QED
  BY <1>2, <1>3, <1>4, <1>5, <1>6 DEF Next, Kernel

----------------------------------------------------------------------------
(* What the boot keeps of the boot information: the console of the first   *)
(* command line, the first regions of all memory maps together and the     *)
(* first modules, in whatever order the tags come.                         *)
THEOREM BootInformationKept == Spec => []BootInfoKept
<1>1. MInv /\ KeepInv /\ [Next]_vars => KeepInv'
  BY NextKeepInv
<1>2. KeepInv => BootInfoKept
  BY DEF KeepInv
<1> QED
  BY <1>1, <1>2, InitKeepInv, ModulesInvariance, PTL DEF Spec
============================================================================
