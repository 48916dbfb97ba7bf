----------------------------- MODULE ExcRecovery -----------------------------
(***************************************************************************)
(* How the shell survives the exceptions of the programs it runs.  Four    *)
(* pieces of code share the processor and a few words of memory:           *)
(*                                                                         *)
(*   - the shell (command_kern/main.c): cmd_load and elf_exec;             *)
(*   - its context switch (recover.S): exc_save, exc_restore;              *)
(*   - the kernel's entry and exit of an exception (isr.S);                *)
(*   - the kernel's handler and its hook word (idt.c).                     *)
(*                                                                         *)
(* The program the shell calls, and the interrupt controller and NMI line  *)
(* nobody in this kernel programs, are the environment.  An exception can  *)
(* only strike where one is raised: in the program, in a program's own     *)
(* hook, or anywhere if it is an NMI or (with IF set) an interrupt.  One   *)
(* action is one step between two such points.                             *)
(***************************************************************************)
EXTENDS Integers, Sequences

CONSTANTS
  Faults,     \* vectors of the exceptions a program may raise
  ProgRsps,   \* depths the stack pointer of a program may have
  Lines       \* the interrupt lines a machine may have open

(***************************************************************************)
(* The stack is abstracted to the depth of the stack pointer.  The shell's *)
(* call chain is fixed: module_main's loop, cmd_load, elf_exec, and what   *)
(* elf_exec calls.  A program uses the shell's stack from there on, or any *)
(* other; it may also leave rsp where nothing can be pushed.  IST1 is the  *)
(* stack idt_init keeps for #DF.                                           *)
(***************************************************************************)
PromptRsp == 0
LoadRsp == 1
ExecRsp == 2
NoStack == -1
IstRsp == -2

ASSUME ExcAssumption ==
  /\ Faults \subseteq {0, 1, 3, 4, 5, 6, 7, 8, 10, 11, 12, 13, 14, 16, 17, 18, 19}
  /\ ProgRsps \subseteq (Nat \ {0, 1, 2}) \cup {NoStack}
  /\ Lines \subseteq {"nmi", "timer"}

VARIABLES
  lines,            \* the lines open on this machine; nothing here changes them
  pc,               \* where the processor is about to execute
  rsp,              \* depth of the stack
  regs,             \* whose values the callee-saved registers hold
  iflag,            \* RFLAGS.IF
  frames,           \* interrupt frames on the stack, innermost last
  nmi_blocked,      \* an NMI is being served: the next one waits for an IRET
  exc_hook,         \* idt.c: the hook word
  exc_buf,          \* recover.S: _exc_buf
  exc_restore_rsp,  \* main.c: rsp captured by elf_exec for the IRET frame
  exc_caught,       \* main.c: set when elf_exec ends through exc_restore
  exc_info,         \* main.c: exc_vec and exc_rip (exc_err goes the way of exc_vec)
  last,             \* history: the last exception delivered, and where
  tampered,         \* history: this program has changed the hook itself
  why               \* history: what stopped the machine

cpu == <<rsp, regs, iflag, frames, nmi_blocked>>
shell == <<exc_buf, exc_restore_rsp, exc_caught, exc_info>>
history == <<last, tampered, why>>
vars == <<lines, pc, cpu, exc_hook, shell, history>>

NoHook == "none"
ShellHook == "exc_hook_fn"
ProgHook == "program's"
Hooks == {NoHook, ShellHook, ProgHook}

Owners == {"shell", "program", "zero"}
Rsps == {NoStack, IstRsp, PromptRsp, LoadRsp, ExecRsp} \cup ProgRsps

ShellPcs == {"prompt", "load", "exec_clear", "exec_rsp", "exec_hook", "exec_save",
             "exec_call", "exec_unhook", "exec_caught", "report"}
HandlerPcs == {"handler", "take_hook", "hook", "iret"}
Stopped == {"halted", "reset", "nowhere"}
Pcs == ShellPcs \cup {"prog", "exc_restore"} \cup HandlerPcs \cup Stopped

Top == frames[Len(frames)]

----------------------------------------------------------------------------
(* Entry to an exception.                                                  *)

\* The vectors the processor pushes an error code for.
CpuPushesError(vec, raised) == raised /\ vec \in {8, 10, 11, 12, 13, 14, 17, 30}

\* The vectors whose stub in isr.S relies on one.
StubExpectsError_NoPF(vec) == vec \in {8, 10, 11, 12, 13, 17, 30}
StubExpectsError(vec) == vec \in {8, 10, 11, 12, 13, 14, 17, 30}

\* The gates that switch to a stack of their own (idt_init: #DF to IST1).
HasOwnStack_None(vec) == FALSE
HasOwnStack(vec) == vec = 8

(***************************************************************************)
(* The processor pushes a frame and the stub completes it.  `raised' says  *)
(* that the processor raised the exception (an interrupt line does not     *)
(* push an error code, whatever its vector).  When stub and processor      *)
(* disagree on the error code, every field the handler reads is one word   *)
(* off, and IRET takes its operands from the wrong words.                  *)
(***************************************************************************)
Aligned(vec, raised) == CpuPushesError(vec, raised) <=> StubExpectsError(vec)

NewFrame(vec, raised, at, sp) ==
  [vec |-> vec, rip |-> IF Aligned(vec, raised) THEN at ELSE "garbage", rsp |-> sp,
   regs |-> regs, iflag |-> iflag, aligned |-> Aligned(vec, raised), fn |-> NoHook]

Push(vec, raised, at, sp) ==
  /\ frames' = Append(frames, NewFrame(vec, raised, at, sp))
  /\ rsp' = IF HasOwnStack(vec) THEN IstRsp ELSE sp
  /\ iflag' = FALSE          \* interrupt gate
  /\ pc' = "handler"
  /\ last' = [vec |-> vec, rip |-> at]

\* With nowhere to push, an exception or interrupt becomes #DF; with nowhere
\* to push that either, the machine resets.
Raise(vec, raised, at, sp) ==
  IF sp # NoStack \/ HasOwnStack(vec) THEN Push(vec, raised, at, sp)
  ELSE IF HasOwnStack(8) THEN Push(8, TRUE, at, sp)
  ELSE /\ pc' = "reset"
       /\ UNCHANGED <<frames, rsp, iflag, last>>

----------------------------------------------------------------------------
(* The boot leaves IF clear and .bss zero; the shell is at its prompt.     *)
Init == /\ lines \in SUBSET Lines
        /\ pc = "prompt"
        /\ rsp = PromptRsp
        /\ regs = "shell"
        /\ iflag = FALSE
        /\ frames = <<>>
        /\ nmi_blocked = FALSE
        /\ exc_hook = NoHook
        /\ exc_buf = [rip |-> "nowhere", rsp |-> PromptRsp, regs |-> "zero"]
        /\ exc_restore_rsp = PromptRsp
        /\ exc_caught = FALSE
        /\ exc_info = [vec |-> 0, rip |-> "nowhere"]
        /\ last = [vec |-> 0, rip |-> "nowhere"]
        /\ tampered = FALSE
        /\ why = "running"

Goto(from, to) == pc = from /\ pc' = to

Stop(reason) == pc' = "halted" /\ why' = reason

----------------------------------------------------------------------------
(* The shell.                                                              *)

\* "halt": hal_panic.
CmdHalt == /\ pc = "prompt"
           /\ Stop("user")
           /\ UNCHANGED <<cpu, exc_hook, shell, last, tampered>>

CmdLoad == /\ Goto("prompt", "load")
           /\ rsp' = LoadRsp
           /\ UNCHANGED <<regs, iflag, frames, nmi_blocked, exc_hook, shell, history>>

\* transfer_recv_elf or elf_load says no.
LoadFails == /\ Goto("load", "prompt")
             /\ rsp' = PromptRsp
             /\ UNCHANGED <<regs, iflag, frames, nmi_blocked, exc_hook, shell, history>>

\* They succeed, and cmd_load calls elf_exec.
CallElfExec == /\ Goto("load", "exec_clear")
               /\ rsp' = ExecRsp
               /\ tampered' = FALSE
               /\ UNCHANGED <<regs, iflag, frames, nmi_blocked, exc_hook, shell, last, why>>

ExecClear_Omitted == /\ Goto("exec_clear", "exec_rsp")
                     /\ UNCHANGED <<cpu, exc_hook, shell, history>>
ExecClear == /\ Goto("exec_clear", "exec_rsp")
             /\ exc_caught' = FALSE
             /\ UNCHANGED <<cpu, exc_hook, exc_buf, exc_restore_rsp, exc_info, history>>

ExecCaptureRsp == /\ Goto("exec_rsp", "exec_hook")
                  /\ exc_restore_rsp' = rsp
                  /\ UNCHANGED <<cpu, exc_hook, exc_buf, exc_caught, exc_info, history>>

ExecSetHook == /\ Goto("exec_hook", "exec_save")
               /\ exc_hook' = ShellHook
               /\ UNCHANGED <<cpu, shell, history>>

\* exc_save saves the registers and the stack pointer its caller will have
\* when it has returned.
ExcSave_OwnRsp == /\ Goto("exec_save", "exec_call")
                  /\ exc_buf' = [rip |-> "exec_caught", rsp |-> rsp - 1, regs |-> regs]
                  /\ UNCHANGED <<cpu, exc_hook, exc_restore_rsp, exc_caught, exc_info, history>>
ExcSave_CallSite == /\ Goto("exec_save", "exec_call")
                    /\ exc_buf' = [rip |-> "exec_save", rsp |-> rsp, regs |-> regs]
                    /\ UNCHANGED <<cpu, exc_hook, exc_restore_rsp, exc_caught, exc_info, history>>
ExcSave == /\ Goto("exec_save", "exec_call")
           /\ exc_buf' = [rip |-> "exec_caught", rsp |-> rsp, regs |-> regs]
           /\ UNCHANGED <<cpu, exc_hook, exc_restore_rsp, exc_caught, exc_info, history>>

CallProgram == /\ Goto("exec_call", "prog")
               /\ regs' = "program"
               /\ UNCHANGED <<rsp, iflag, frames, nmi_blocked, exc_hook, shell, history>>

ExecClearHook_Omitted == /\ Goto("exec_unhook", "report")
                         /\ rsp' = LoadRsp
                         /\ UNCHANGED <<regs, iflag, frames, nmi_blocked, exc_hook, shell, history>>
ExecClearHook == /\ Goto("exec_unhook", "report")
                 /\ exc_hook' = NoHook
                 /\ rsp' = LoadRsp
                 /\ UNCHANGED <<regs, iflag, frames, nmi_blocked, shell, history>>

\* The second return of exc_save: elf_exec returns from the frame rsp names.
ExecCaught == /\ Goto("exec_caught", "report")
              /\ exc_caught' = TRUE
              /\ rsp' = rsp - 1
              /\ UNCHANGED <<regs, iflag, frames, nmi_blocked, exc_hook, exc_buf,
                             exc_restore_rsp, exc_info, history>>

Report == /\ Goto("report", "prompt")
          /\ rsp' = rsp - 1
          /\ UNCHANGED <<regs, iflag, frames, nmi_blocked, exc_hook, shell, history>>

----------------------------------------------------------------------------
(* The program.                                                            *)

\* It returns by the ABI: stack and callee-saved registers as they were.
ProgReturns == /\ Goto("prog", "exec_unhook")
               /\ rsp' = ExecRsp
               /\ regs' = "shell"
               /\ UNCHANGED <<iflag, frames, nmi_blocked, exc_hook, shell, history>>

ProgFaults(vec, sp) == /\ pc = "prog"
                       /\ Raise(vec, TRUE, "prog", sp)
                       /\ UNCHANGED <<regs, nmi_blocked, exc_hook, shell, tampered, why>>

\* kst->sys.set_exc_hook and clear_exc_hook are there for any program.
ProgSetsHook(hook) == /\ pc = "prog"
                      /\ exc_hook' = hook
                      /\ tampered' = TRUE
                      /\ UNCHANGED <<pc, cpu, shell, last, why>>

\* kst->sys.exit and kst->sys.panic end in hal_panic.
ProgExits == /\ pc = "prog"
             /\ Stop("program")
             /\ UNCHANGED <<cpu, exc_hook, shell, last, tampered>>

----------------------------------------------------------------------------
(* The kernel.                                                             *)

\* exception_handler tests the hook word ...
HandlerFindsHook == /\ Goto("handler", "take_hook")
                    /\ exc_hook # NoHook
                    /\ frames' = [frames EXCEPT ![Len(frames)].fn = exc_hook]
                    /\ UNCHANGED <<rsp, regs, iflag, nmi_blocked, exc_hook, shell, history>>

HandlerFindsNoHook == /\ pc = "handler"
                      /\ exc_hook = NoHook
                      /\ Stop("unhandled")
                      /\ UNCHANGED <<cpu, exc_hook, shell, last, tampered>>

\* ... clears it, and calls the hook.
HandlerTakesHook_KeepsIt == /\ Goto("take_hook", "hook")
                            /\ UNCHANGED <<cpu, exc_hook, shell, history>>
HandlerTakesHook == /\ Goto("take_hook", "hook")
                    /\ exc_hook' = NoHook
                    /\ UNCHANGED <<cpu, shell, history>>

\* When the hook asks to resume elsewhere, IRET leaves for there and nothing
\* returns to the frames below any more.
Redirect(rip, sp) ==
  frames' = <<[Top EXCEPT !.rip = rip, !.rsp = sp, !.iflag = TRUE]>>

\* exc_hook_fn: note the exception, ask for exc_restore.
ShellHookRuns == /\ Goto("hook", "iret")
                 /\ Top.fn = ShellHook
                 /\ exc_info' = [vec |-> Top.vec, rip |-> Top.rip]
                 /\ Redirect("exc_restore", exc_restore_rsp)
                 /\ UNCHANGED <<rsp, regs, iflag, nmi_blocked, exc_hook, exc_buf,
                                exc_restore_rsp, exc_caught, history>>

\* A program's own hook retries the instruction, resumes elsewhere in the
\* program, or faults itself.
ProgHookRetries == /\ Goto("hook", "iret")
                   /\ Top.fn = ProgHook
                   /\ UNCHANGED <<cpu, exc_hook, shell, history>>

ProgHookRedirects(sp) == /\ Goto("hook", "iret")
                         /\ Top.fn = ProgHook
                         /\ Redirect("prog", sp)
                         /\ UNCHANGED <<rsp, regs, iflag, nmi_blocked, exc_hook, shell, history>>

ProgHookFaults(vec) == /\ pc = "hook"
                       /\ Top.fn = ProgHook
                       /\ Raise(vec, TRUE, "hook", rsp)
                       /\ UNCHANGED <<regs, nmi_blocked, exc_hook, shell, tampered, why>>

\* The stub pops the registers and returns.
Iret == /\ pc = "iret"
        /\ Top.aligned
        /\ pc' = Top.rip
        /\ rsp' = Top.rsp
        /\ regs' = Top.regs
        /\ iflag' = Top.iflag
        /\ nmi_blocked' = FALSE
        /\ frames' = SubSeq(frames, 1, Len(frames) - 1)
        /\ UNCHANGED <<exc_hook, shell, history>>

\* From a frame one word off, IRET loads RFLAGS as a code selector: #GP.
IretFaults == /\ pc = "iret"
              /\ ~Top.aligned
              /\ Raise(13, TRUE, "iret", rsp)
              /\ UNCHANGED <<regs, nmi_blocked, exc_hook, shell, tampered, why>>

\* exc_restore: from now on the processor runs in the saved context.
ExcRestore_RegsKept == /\ pc = "exc_restore"
                       /\ pc' = exc_buf.rip
                       /\ rsp' = exc_buf.rsp
                       /\ UNCHANGED <<regs, iflag, frames, nmi_blocked, exc_hook, shell, history>>
ExcRestore == /\ pc = "exc_restore"
              /\ pc' = exc_buf.rip
              /\ rsp' = exc_buf.rsp
              /\ regs' = exc_buf.regs
              /\ UNCHANGED <<iflag, frames, nmi_blocked, exc_hook, shell, history>>

----------------------------------------------------------------------------
(* Interrupt lines.  The NMI has vector 2.  The timer is on IRQ 0, which   *)
(* the firmware maps to vector 8; no code of this kernel remaps or masks   *)
(* it.  Which lines are open is a matter of the machine, not of this code. *)
(* The shell and the kernel are interrupted on the stack they are on, a    *)
(* program on any it may have.                                             *)

Interrupted == IF pc = "prog" THEN ProgRsps ELSE {rsp}

Nmi == /\ "nmi" \in lines
       /\ ~nmi_blocked
       /\ pc \notin Stopped
       /\ nmi_blocked' = TRUE
       /\ \E sp \in Interrupted : Raise(2, FALSE, pc, sp)
       /\ UNCHANGED <<regs, exc_hook, shell, tampered, why>>

TimerIrq == /\ "timer" \in lines
            /\ iflag
            /\ pc \notin Stopped
            /\ \E sp \in Interrupted : Raise(8, FALSE, pc, sp)
            /\ UNCHANGED <<regs, nmi_blocked, exc_hook, shell, tampered, why>>

----------------------------------------------------------------------------
Handler == \/ HandlerFindsHook \/ HandlerFindsNoHook \/ HandlerTakesHook
           \/ ShellHookRuns \/ Iret \/ IretFaults

\* The steps the processor takes by itself, once an exception struck or a
\* program ended: nothing blocks them.
Kernel == Handler \/ ExcRestore \/ ExecCaught \/ ExecClearHook \/ Report

ElfExec == \/ CallElfExec \/ ExecClear \/ ExecCaptureRsp \/ ExecSetHook
           \/ ExcSave \/ CallProgram

Program == \/ ProgReturns
           \/ \E vec \in Faults, sp \in ProgRsps : ProgFaults(vec, sp)
           \/ \E hook \in {NoHook, ProgHook} : ProgSetsHook(hook)
           \/ ProgExits
           \/ ProgHookRetries
           \/ \E sp \in ProgRsps \ {NoStack} : ProgHookRedirects(sp)
           \/ \E vec \in Faults : ProgHookFaults(vec)

Next == /\ \/ CmdHalt \/ CmdLoad \/ LoadFails
           \/ ElfExec \/ Program \/ Kernel
           \/ Nmi \/ TimerIrq
        /\ UNCHANGED lines

Spec == Init /\ [][Next]_vars /\ WF_vars(Kernel /\ UNCHANGED lines)

----------------------------------------------------------------------------
Frame == [vec : 0 .. 31, rip : Pcs \cup {"garbage"}, rsp : Rsps, regs : Owners,
          iflag : BOOLEAN, aligned : BOOLEAN, fn : Hooks]

(* Type invariant: the processor state and the words shell and kernel keep. *)
TypeOK ==
  /\ lines \subseteq Lines
  /\ pc \in Pcs
  /\ rsp \in Rsps
  /\ regs \in Owners
  /\ iflag \in BOOLEAN
  /\ frames \in Seq(Frame)
  /\ nmi_blocked \in BOOLEAN
  /\ exc_hook \in Hooks
  /\ exc_buf \in [rip : {"nowhere", "exec_caught"}, rsp : Rsps, regs : Owners]
  /\ exc_restore_rsp \in Rsps
  /\ exc_caught \in BOOLEAN
  /\ exc_info \in [vec : 0 .. 31, rip : Pcs \cup {"garbage"}]
  /\ last \in [vec : 0 .. 31, rip : Pcs]
  /\ tampered \in BOOLEAN
  /\ why \in {"running", "user", "program", "unhandled"}

(***************************************************************************)
(* The hook is armed only while elf_exec runs a program: at the prompt and *)
(* in the rest of a command an exception is the kernel's own (idt.c clears *)
(* the word on entry, elf_exec on a normal return), so a fault of the      *)
(* shell can never "resume" a program that is gone.                        *)
(***************************************************************************)
HookScope ==
  pc \in {"prompt", "load", "exec_clear", "exec_rsp", "exec_caught", "report"}
    => exc_hook = NoHook

(***************************************************************************)
(* When exc_restore runs, _exc_buf holds the context of elf_exec: its      *)
(* resume point, its stack frame, its callee-saved registers (main.c,      *)
(* "arrived here with the full elf_exec frame intact").                    *)
(***************************************************************************)
FrameIntact ==
  pc = "exc_restore" =>
    exc_buf = [rip |-> "exec_caught", rsp |-> ExecRsp, regs |-> "shell"]

(***************************************************************************)
(* It does, as long as no NMI can come between the steps of elf_exec.      *)
(***************************************************************************)
FrameIntactIfNoNmi == "nmi" \notin lines => FrameIntact

(***************************************************************************)
(* However a program ended, cmd_load and the prompt go on with the stack   *)
(* and the callee-saved registers they had before.                         *)
(***************************************************************************)
ShellStateKept ==
  /\ pc = "report" => rsp = LoadRsp /\ regs = "shell"
  /\ pc = "prompt" => rsp = PromptRsp /\ regs = "shell" /\ frames = <<>>

(***************************************************************************)
(* cmd_load reports what happened: an exception, with the vector and place *)
(* of the last one raised, exactly when the program did not return.        *)
(***************************************************************************)
ReportTruthful ==
  /\ pc = "exec_unhook" => ~exc_caught
  /\ pc = "report" /\ exc_caught => exc_info = last

(***************************************************************************)
(* An exception stops the machine only if the program had replaced or      *)
(* removed the shell's hook; the machine never resets and the processor    *)
(* never runs off to an unsaved address (command_kern_en.md, "catches      *)
(* exceptions raised by ELF programs without crashing the shell").         *)
(***************************************************************************)
ShellSurvives ==
  /\ pc = "halted" /\ why = "unhandled" => tampered
  /\ pc \notin {"reset", "nowhere"}

(***************************************************************************)
(* With every line closed that is so, also when the program faults on a    *)
(* stack that cannot be used, or in a hook of its own.                     *)
(***************************************************************************)
FaultsSurvived == lines = {} => ShellSurvives

(***************************************************************************)
(* A hook that faults is not entered again: no two frames on the stack are *)
(* both running a hook (idt.c, "prevent re-entry if hook faults").  Only   *)
(* an NMI between the test of the hook word and its reset could do that.   *)
(***************************************************************************)
NoReentry ==
  "nmi" \notin lines =>
    \A i, j \in DOMAIN frames :
      frames[i].fn # NoHook /\ frames[j].fn # NoHook => i = j

(***************************************************************************)
(* With every line closed, an exception of a program that left the shell's *)
(* hook in place always leads back to the prompt.                          *)
(***************************************************************************)
FaultReported ==
  (lines = {} /\ pc = "handler" /\ exc_hook = ShellHook) ~> pc = "prompt"
============================================================================
