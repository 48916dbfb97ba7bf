----------------------------- MODULE ExcProofs -----------------------------
(***************************************************************************)
(* Proofs about ExcRecovery, for every set of faults, of stack depths a    *)
(* program may have, and of interrupt lines.  What holds only while some   *)
(* line is closed says so.                                                 *)
(***************************************************************************)
EXTENDS ExcRecovery, SequenceTheorems, TLAPS

ZeroBuf == [rip |-> "nowhere", rsp |-> PromptRsp, regs |-> "zero"]
ElfExecBuf == [rip |-> "exec_caught", rsp |-> ExecRsp, regs |-> "shell"]

(***************************************************************************)
(* The shell's own code always runs at the depth of its function, with its *)
(* own registers; so does what an interrupted frame will resume.  _exc_buf *)
(* is zero or holds elf_exec's context.                                    *)
(***************************************************************************)
ShellRsp(at) == IF at = "prompt" THEN PromptRsp
                ELSE IF at \in {"load", "report"} THEN LoadRsp ELSE ExecRsp

AtShell(at, sp, owner) == at \in ShellPcs => sp = ShellRsp(at) /\ owner = "shell"

ShellInv ==
  /\ AtShell(pc, rsp, regs)
  /\ \A i \in DOMAIN frames : AtShell(frames[i].rip, frames[i].rsp, frames[i].regs)
  /\ exc_buf \in {ZeroBuf, ElfExecBuf}

(***************************************************************************)
(* Frames are on the stack exactly while the handler runs, and only the    *)
(* first one interrupted something other than the handler.  A frame one    *)
(* word off is the only one without a place to return to.  Interrupts are  *)
(* off in the handler.                                                     *)
(***************************************************************************)
Serves == {"take_hook", "hook", "iret"}

FramesInv ==
  /\ pc \in HandlerPcs => frames # <<>> /\ ~iflag
  /\ pc \notin HandlerPcs \cup Stopped => frames = <<>>
  /\ \A i \in DOMAIN frames :
       /\ frames[i].rip = "garbage" => ~frames[i].aligned
       /\ frames[i].rip \in HandlerPcs => i > 1
       /\ i > 1 => frames[i].rip \in HandlerPcs \cup {"garbage"} /\ ~frames[i].iflag
       /\ frames[i].rip \notin Stopped
       /\ frames[i].rip \in Serves => frames[i - 1].fn # NoHook
  /\ pc \in Serves => Top.fn # NoHook

(***************************************************************************)
(* The hook word is set only from ExecSetHook until the program has ended  *)
(* or an exception has taken it.                                           *)
(***************************************************************************)
ArmedPcs == {"exec_save", "exec_call", "prog", "exec_unhook"}

HookInv ==
  /\ exc_hook # NoHook => pc \in ArmedPcs \cup {"handler", "take_hook"} \cup Stopped
  /\ pc = "take_hook" /\ exc_hook # NoHook => exc_hook = Top.fn

(***************************************************************************)
(* An exception is engaged when a hook serves it or is about to; any other *)
(* one ends with the machine stopped.  Engaged exceptions struck while the *)
(* hook was armed, and one hook serves them all.                           *)
(***************************************************************************)
Engaged == pc \in Serves \/ (pc = "handler" /\ exc_hook # NoHook)

Serving == IF exc_hook # NoHook THEN exc_hook ELSE Top.fn

Leaving == pc = "iret" /\ Top.fn = ShellHook

EngagedInv ==
  /\ Engaged => ~exc_caught
  /\ Engaged => \A i \in DOMAIN frames : frames[i].fn \in {NoHook, Serving}
  /\ Engaged /\ ~Leaving =>
       \A i \in DOMAIN frames : frames[i].rip \in ArmedPcs \cup HandlerPcs \cup {"garbage"}
  /\ Leaving => Len(frames) = 1 /\ Top.rip = "exc_restore"

(***************************************************************************)
(* exc_caught is set only by the last step of elf_exec; from the moment    *)
(* the shell's hook has run, exc_info tells of the last exception.         *)
(***************************************************************************)
Untold == {"exec_rsp", "exec_hook", "exec_save", "exec_call", "prog", "exec_unhook",
           "exc_restore", "exec_caught"}

TruthInv ==
  /\ pc \in Untold => ~exc_caught
  /\ \/ pc = "handler" /\ exc_hook = ShellHook
     \/ pc \in {"take_hook", "hook"} /\ Top.fn = ShellHook
     => last.vec = Top.vec /\ (Top.aligned => last.rip = Top.rip)
  /\ Leaving /\ Top.aligned => exc_info = last
  /\ pc \in {"exc_restore", "exec_caught"} => exc_info = last
  /\ pc = "report" /\ exc_caught => exc_info = last

(***************************************************************************)
(* Without NMI: nothing strikes before exc_save has run once, and only     *)
(* the first frame can be served by a hook.                                *)
(***************************************************************************)
NoNmiInv ==
  "nmi" \notin lines =>
    /\ exc_buf # ElfExecBuf =>
         /\ ~iflag
         /\ pc \in {"prompt", "load", "exec_clear", "exec_rsp", "exec_hook", "exec_save", "halted"}
    /\ Engaged => Len(frames) = 1
    /\ \A i \in DOMAIN frames : i > 1 => frames[i].fn = NoHook

(***************************************************************************)
(* With every line closed: every exception is a fault of the program or of *)
(* its hook, with a frame as it should be, and as long as the program      *)
(* leaves the hook word alone, the shell's hook is there to serve it.      *)
(***************************************************************************)
QuietInv ==
  lines = {} =>
    /\ \A i \in DOMAIN frames : /\ frames[i].aligned
                                /\ frames[i].rip \in {"prog", "exc_restore"} \cup HandlerPcs
    /\ pc \in {"exec_save", "exec_call"} => exc_hook = ShellHook
    /\ pc \in {"prog", "handler"} /\ ~tampered => exc_hook = ShellHook
    /\ pc \in Serves /\ ~tampered => Top.fn = ShellHook
    /\ ShellSurvives

ExcInv == /\ TypeOK
          /\ ShellInv
          /\ FramesInv
          /\ HookInv
          /\ EngagedInv
          /\ TruthInv
          /\ NoNmiInv
          /\ QuietInv

----------------------------------------------------------------------------
USE DEF cpu, shell, history, Goto, Stop

(* The innermost frame is a frame; what each way to change the stack of    *)
(* frames makes of it follows.                                             *)
LEMMA TopFacts ==
  ASSUME frames \in Seq(Frame), frames # <<>>
  PROVE  /\ Len(frames) \in Nat \ {0}
         /\ DOMAIN frames = 1 .. Len(frames)
         /\ Len(frames) \in DOMAIN frames
         /\ Top \in Frame
         /\ \A i \in DOMAIN frames : frames[i] \in Frame
<1>1. Len(frames) \in Nat \ {0} /\ DOMAIN frames = 1 .. Len(frames)
  OBVIOUS
<1>2. \A i \in DOMAIN frames : frames[i] \in Frame
  BY <1>1, ElementOfSeq
<1> QED
  BY <1>1, <1>2 DEF Top

(* An exception adds a frame.                                              *)
LEMMA AppendFacts ==
  ASSUME frames \in Seq(Frame), NEW f \in Frame, frames' = Append(frames, f)
  PROVE  /\ frames' \in Seq(Frame)
         /\ frames' # <<>>
         /\ Len(frames') = Len(frames) + 1
         /\ Len(frames) \in Nat
         /\ DOMAIN frames = 1 .. Len(frames)
         /\ DOMAIN frames' = DOMAIN frames \cup {Len(frames')}
         /\ \A i \in DOMAIN frames : frames'[i] = frames[i]
         /\ Top' = f
         /\ frames'[Len(frames')] = f
<1>1. /\ Append(frames, f) \in Seq(Frame)
      /\ Len(Append(frames, f)) = Len(frames) + 1
      /\ \A i \in 1 .. Len(frames) : Append(frames, f)[i] = frames[i]
      /\ Append(frames, f)[Len(frames) + 1] = f
  BY AppendProperties
<1>2. Len(frames) \in Nat /\ DOMAIN frames = 1 .. Len(frames)
  BY LenProperties
<1>3. DOMAIN frames' = 1 .. Len(frames')
  BY <1>1, LenProperties
<1>4. frames' # <<>>
  BY <1>1, <1>2
<1>5. Top' = frames'[Len(frames')]
  BY DEF Top
<1> QED
  BY <1>1, <1>2, <1>3, <1>4, <1>5

(* IRET drops the innermost one.                                           *)
LEMMA FrontFacts ==
  ASSUME frames \in Seq(Frame), frames # <<>>,
         frames' = SubSeq(frames, 1, Len(frames) - 1)
  PROVE  /\ frames' \in Seq(Frame)
         /\ Len(frames') = Len(frames) - 1
         /\ DOMAIN frames' = 1 .. (Len(frames) - 1)
         /\ DOMAIN frames' \subseteq DOMAIN frames
         /\ \A i \in DOMAIN frames' : frames'[i] = frames[i]
         /\ Len(frames) = 1 => frames' = <<>>
<1>1. Len(frames) \in Nat \ {0} /\ DOMAIN frames = 1 .. Len(frames)
  BY TopFacts
<1>2. \A i \in 1 .. (Len(frames) - 1) : frames[i] \in Frame
  BY <1>1, TopFacts
<1>3. /\ frames' \in Seq(Frame)
      /\ Len(frames') = Len(frames) - 1
      /\ \A i \in 1 .. (Len(frames) - 1) : frames'[i] = frames[i]
  BY <1>1, <1>2, SubSeqProperties
<1>4. DOMAIN frames' = 1 .. Len(frames')
  BY <1>3, LenProperties
<1>5. Len(frames) = 1 => frames' = <<>>
  BY <1>3, EmptySeq
<1> QED
  BY <1>1, <1>3, <1>4, <1>5

(* A hook that resumes elsewhere leaves one frame, which goes there.       *)
LEMMA RedirectFacts ==
  ASSUME frames \in Seq(Frame), frames # <<>>,
         NEW rip \in Pcs, NEW sp \in Rsps, Redirect(rip, sp)
  PROVE  /\ frames' \in Seq(Frame)
         /\ frames' # <<>>
         /\ Len(frames') = 1
         /\ DOMAIN frames' = {1}
         /\ Top' = [Top EXCEPT !.rip = rip, !.rsp = sp, !.iflag = TRUE]
         /\ frames'[1] = Top'
<1> DEFINE f == [Top EXCEPT !.rip = rip, !.rsp = sp, !.iflag = TRUE]
<1>1. f \in Frame
  BY TopFacts, TRUE \in BOOLEAN DEF Frame
<1>2. frames' = <<f>>
  BY DEF Redirect
<1> HIDE DEF f
<1>3. frames' \in Seq(Frame) /\ Len(frames') = 1 /\ DOMAIN frames' = {1} /\ frames'[1] = f
  BY <1>1, <1>2
<1>4. Top' = f
  BY <1>3 DEF Top
<1>5. frames' # <<>>
  <2>1. <<f>> # <<>>
    OBVIOUS
  <2> QED
    BY <1>2, <2>1
<1> QED
  BY <1>3, <1>4, <1>5 DEF f

(* The handler notes in the innermost one which hook it has found.         *)
LEMMA MarkFacts ==
  ASSUME frames \in Seq(Frame), frames # <<>>, NEW hook \in Hooks,
         frames' = [frames EXCEPT ![Len(frames)].fn = hook]
  PROVE  /\ frames' \in Seq(Frame)
         /\ frames' # <<>>
         /\ Len(frames') = Len(frames)
         /\ DOMAIN frames' = DOMAIN frames
         /\ \A i \in DOMAIN frames : i # Len(frames) => frames'[i] = frames[i]
         /\ Top' = [Top EXCEPT !.fn = hook]
         /\ frames'[Len(frames)] = [Top EXCEPT !.fn = hook]
<1> DEFINE f == [Top EXCEPT !.fn = hook]
<1>1. Len(frames) \in 1 .. Len(frames) /\ DOMAIN frames = 1 .. Len(frames)
  BY TopFacts
<1>2. f \in Frame
  BY TopFacts DEF Frame
<1>3. frames' = [frames EXCEPT ![Len(frames)] = f]
  BY DEF Top
<1> HIDE DEF f
<1>4. /\ frames' \in Seq(Frame)
      /\ Len(frames') = Len(frames)
      /\ \A j \in 1 .. Len(frames) : frames'[j] = IF j = Len(frames) THEN f ELSE frames[j]
  BY <1>1, <1>2, <1>3, ExceptSeq
<1>5. DOMAIN frames' = DOMAIN frames
  BY <1>3
<1>6. Top' = f /\ frames'[Len(frames)] = f
  BY <1>1, <1>4 DEF Top
<1>7. frames' # <<>>
  BY <1>1, <1>4
<1> QED
  BY <1>1, <1>4, <1>5, <1>6, <1>7 DEF f

----------------------------------------------------------------------------
(* The machine starts in a state of the invariant.                         *)
LEMMA InitExcInv == Init => ExcInv
<1> SUFFICES ASSUME Init PROVE ExcInv
  OBVIOUS
<1> USE DEF Init, NoHook, ShellHook, ProgHook, Stopped, ShellPcs, HandlerPcs,
       PromptRsp, LoadRsp, ExecRsp, NoStack, IstRsp
<1>1. TypeOK
  <2>1. lines \subseteq Lines /\ frames \in Seq(Frame)
    OBVIOUS
  <2>2. {iflag, nmi_blocked, exc_caught, tampered} \subseteq BOOLEAN
    OBVIOUS
  <2> QED
    BY <2>1, <2>2 DEF TypeOK, Pcs, Hooks, Owners, Rsps
<1>2. ShellInv
  BY DEF ShellInv, AtShell, ShellRsp, ZeroBuf
<1>3. FramesInv
  BY DEF FramesInv, Serves
<1>4. HookInv
  BY DEF HookInv
<1>5. EngagedInv
  BY DEF EngagedInv, Engaged, Leaving, Serves
<1>6. TruthInv
  BY DEF TruthInv, Leaving, Untold
<1>7. NoNmiInv
  BY DEF NoNmiInv, Engaged, Serves
<1>8. QuietInv
  BY DEF QuietInv, ShellSurvives, Serves
<1> QED
  BY <1>1, <1>2, <1>3, <1>4, <1>5, <1>6, <1>7, <1>8 DEF ExcInv

(* The steps of the shell, with no frame on the stack.                     *)
LEMMA ShellSteps ==
  ASSUME ExcInv, UNCHANGED lines,
         \/ CmdHalt \/ CmdLoad \/ LoadFails \/ CallElfExec \/ ExecClear \/ ExecCaptureRsp
         \/ ExecSetHook \/ ExcSave \/ CallProgram \/ ExecClearHook \/ ExecCaught \/ Report
         \/ ExcRestore
  PROVE  ExcInv'
<1> USE DEF ExcInv, TypeOK, ShellInv, AtShell, ShellRsp, FramesInv, HookInv, EngagedInv, Engaged,
       Leaving, TruthInv, NoNmiInv, QuietInv, ShellSurvives, Serves, Untold, ArmedPcs, Serving,
       Top, ZeroBuf, ElfExecBuf, Pcs, ShellPcs, HandlerPcs, Stopped, Hooks, NoHook, ShellHook,
       ProgHook, Owners, Rsps, PromptRsp, LoadRsp, ExecRsp, NoStack, IstRsp
<1>1. CASE CmdHalt
  BY <1>1 DEF CmdHalt
<1>2. CASE CmdLoad
  BY <1>2 DEF CmdLoad
<1>3. CASE LoadFails
  BY <1>3 DEF LoadFails
<1>4. CASE CallElfExec
  <2>1. tampered' \in BOOLEAN
    BY <1>4, FALSE \in BOOLEAN DEF CallElfExec
  <2> QED
    BY <1>4, <2>1 DEF CallElfExec
<1>5. CASE ExecClear
  <2>1. exc_caught' \in BOOLEAN
    BY <1>5, FALSE \in BOOLEAN DEF ExecClear
  <2> QED
    BY <1>5, <2>1 DEF ExecClear
<1>6. CASE ExecCaptureRsp
  BY <1>6 DEF ExecCaptureRsp
<1>7. CASE ExecSetHook
  BY <1>7 DEF ExecSetHook
<1>8. CASE ExcSave
  BY <1>8 DEF ExcSave
<1>9. CASE CallProgram
  BY <1>9 DEF CallProgram
<1>10. CASE ExecClearHook
  BY <1>10 DEF ExecClearHook
<1>11. CASE ExecCaught
  BY <1>11 DEF ExecCaught
<1>12. CASE Report
  BY <1>12 DEF Report
<1>13. CASE ExcRestore
  BY <1>13 DEF ExcRestore
<1> QED
  BY <1>1, <1>2, <1>3, <1>4, <1>5, <1>6, <1>7, <1>8, <1>9, <1>10, <1>11, <1>12, <1>13

(* The steps of program, hook and handler that leave the frames alone.     *)
LEMMA PlainSteps ==
  ASSUME ExcInv, UNCHANGED lines,
         \/ ProgReturns \/ ProgExits \/ ProgHookRetries \/ HandlerFindsNoHook \/ HandlerTakesHook
  PROVE  ExcInv'
<1> USE DEF ExcInv, TypeOK, ShellInv, AtShell, ShellRsp, FramesInv, HookInv, EngagedInv, Engaged,
       Leaving, TruthInv, NoNmiInv, QuietInv, ShellSurvives, Serves, Untold, ArmedPcs, Serving,
       Top, ZeroBuf, ElfExecBuf, Pcs, ShellPcs, HandlerPcs, Stopped, Hooks, NoHook, ShellHook,
       ProgHook, Owners, Rsps, PromptRsp, LoadRsp, ExecRsp, NoStack, IstRsp
<1>1. CASE ProgReturns
  BY <1>1 DEF ProgReturns
<1>2. CASE ProgExits
  BY <1>2 DEF ProgExits
<1>3. CASE ProgHookRetries
  BY <1>3 DEF ProgHookRetries
<1>4. CASE HandlerFindsNoHook
  BY <1>4 DEF HandlerFindsNoHook
<1>5. CASE HandlerTakesHook
  BY <1>5 DEF HandlerTakesHook
<1> QED
  BY <1>1, <1>2, <1>3, <1>4, <1>5

(* The shell's hook leaves one frame, which goes to exc_restore, and       *)
(* exc_info tells of the exception the frame stands for.                   *)
LEMMA ShellHookRuns_Inv == ASSUME ExcInv, ShellHookRuns, UNCHANGED lines PROVE ExcInv'
<1> USE DEF ExcInv, ShellHookRuns,
       Pcs, ShellPcs, HandlerPcs, Stopped, Hooks, NoHook, ShellHook, ProgHook,
       Owners, Rsps, PromptRsp, LoadRsp, ExecRsp, NoStack, IstRsp, Serves
<1>1. /\ frames \in Seq(Frame)
      /\ frames # <<>>
      /\ Redirect("exc_restore", exc_restore_rsp)
      /\ exc_restore_rsp \in Rsps
  BY DEF TypeOK, FramesInv
<1>2. /\ frames' \in Seq(Frame)
      /\ frames' # <<>>
      /\ Len(frames') = 1
      /\ DOMAIN frames' = {1}
      /\ Top' = [Top EXCEPT !.rip = "exc_restore", !.rsp = exc_restore_rsp, !.iflag = TRUE]
      /\ frames'[1] = Top'
  BY <1>1, RedirectFacts
<1>3. /\ Top \in Frame
      /\ Top'.rip = "exc_restore" /\ Top'.vec = Top.vec /\ Top'.regs = Top.regs
      /\ Top'.fn = ShellHook /\ Top'.iflag = TRUE /\ Top'.aligned = Top.aligned
  BY <1>1, <1>2, TopFacts DEF Frame
<1> HIDE DEF Redirect
<1>4. exc_info' = [vec |-> Top.vec, rip |-> Top.rip]
  OBVIOUS
<1>a. TypeOK'
  BY <1>2, <1>3, <1>4 DEF TypeOK, Frame
<1>b. ShellInv'
  BY <1>2, <1>3 DEF ShellInv, AtShell
<1>c. FramesInv'
  <2>1. \A i \in DOMAIN frames' : i = 1 /\ frames'[i].rip = "exc_restore"
    BY <1>2, <1>3
  <2>2. pc' = "iret" /\ ~iflag'
    BY DEF FramesInv
  <2> QED
    BY <1>2, <1>3, <2>1, <2>2 DEF FramesInv
<1>d. HookInv'
  BY <1>2, <1>3 DEF HookInv, ArmedPcs
<1>e. EngagedInv'
  BY <1>2, <1>3 DEF EngagedInv, Engaged, Leaving, Serving, HookInv, ArmedPcs
<1>f. TruthInv'
  BY <1>2, <1>3 DEF TruthInv, Leaving, Untold, TypeOK
<1>g. NoNmiInv'
  BY <1>2, <1>3 DEF NoNmiInv, Engaged
<1>h. QuietInv'
  <2>1. lines = {} => Top.aligned
    BY <1>1, TopFacts DEF QuietInv, Top
  <2>2. \A i \in DOMAIN frames' : frames'[i] = Top'
    BY <1>2
  <2> QED
    BY <1>3, <2>1, <2>2 DEF QuietInv, ShellSurvives
<1> QED
  BY <1>a, <1>b, <1>c, <1>d, <1>e, <1>f, <1>g, <1>h

(* The handler notes the hook in the innermost frame and nothing else.     *)
LEMMA HandlerFindsHook_Inv == ASSUME ExcInv, HandlerFindsHook, UNCHANGED lines PROVE ExcInv'
<1> USE DEF ExcInv, HandlerFindsHook,
       Pcs, ShellPcs, HandlerPcs, Stopped, Hooks, NoHook, ShellHook, ProgHook,
       Owners, Rsps, PromptRsp, LoadRsp, ExecRsp, NoStack, IstRsp, Serves
<1>1. /\ frames \in Seq(Frame)
      /\ frames # <<>>
      /\ exc_hook \in Hooks
  BY DEF TypeOK, FramesInv
<1>2. /\ frames' \in Seq(Frame)
      /\ frames' # <<>>
      /\ Len(frames') = Len(frames)
      /\ DOMAIN frames' = DOMAIN frames
      /\ \A i \in DOMAIN frames : i # Len(frames) => frames'[i] = frames[i]
      /\ Top' = [Top EXCEPT !.fn = exc_hook]
      /\ frames'[Len(frames)] = [Top EXCEPT !.fn = exc_hook]
  BY <1>1, MarkFacts
<1>3. /\ Top \in Frame
      /\ Top = frames[Len(frames)]
      /\ Len(frames) \in DOMAIN frames
  BY <1>1, TopFacts DEF Top
<1>4. /\ Top'.fn = exc_hook
      /\ \A i \in DOMAIN frames : /\ frames'[i].rip = frames[i].rip
                                  /\ frames'[i].rsp = frames[i].rsp
                                  /\ frames'[i].regs = frames[i].regs
                                  /\ frames'[i].iflag = frames[i].iflag
                                  /\ frames'[i].aligned = frames[i].aligned
                                  /\ frames'[i].vec = frames[i].vec
                                  /\ i # Len(frames) => frames'[i].fn = frames[i].fn
                                  /\ i = Len(frames) => frames'[i].fn = exc_hook
  BY <1>2, <1>3 DEF Frame
<1>a. TypeOK'
  BY <1>2 DEF TypeOK
<1>b. ShellInv'
  BY <1>2, <1>4 DEF ShellInv, AtShell
<1>c. FramesInv'
  BY DEF FramesInv, Top
<1>d. HookInv'
  BY <1>4 DEF HookInv, ArmedPcs
<1>e. EngagedInv'
  BY DEF EngagedInv, Engaged, Leaving, Serving, Top, ArmedPcs
<1>f. TruthInv'
  BY <1>2, <1>3, <1>4 DEF TruthInv, Leaving, Untold, Top
<1>g. NoNmiInv'
  BY <1>2, <1>3, <1>4 DEF NoNmiInv, Engaged
<1>h. QuietInv'
  BY <1>2, <1>3, <1>4 DEF QuietInv, ShellSurvives
<1> QED
  BY <1>a, <1>b, <1>c, <1>d, <1>e, <1>f, <1>g, <1>h

(* IRET from the only frame leaves the kernel: to the shell, the program   *)
(* or exc_restore.  From any other it goes back to the handler.            *)
LEMMA Iret_Inv == ASSUME ExcInv, Iret, UNCHANGED lines PROVE ExcInv'
<1> USE DEF ExcInv, Iret,
       Pcs, ShellPcs, HandlerPcs, Stopped, Hooks, NoHook, ShellHook, ProgHook,
       Owners, Rsps, PromptRsp, LoadRsp, ExecRsp, NoStack, IstRsp, Serves
<1>1. /\ frames \in Seq(Frame)
      /\ frames # <<>>
      /\ frames' = SubSeq(frames, 1, Len(frames) - 1)
  BY DEF TypeOK, FramesInv
<1>2. /\ frames' \in Seq(Frame)
      /\ Len(frames') = Len(frames) - 1
      /\ DOMAIN frames' = 1 .. (Len(frames) - 1)
      /\ DOMAIN frames' \subseteq DOMAIN frames
      /\ \A i \in DOMAIN frames' : frames'[i] = frames[i]
      /\ Len(frames) = 1 => frames' = <<>>
  BY <1>1, FrontFacts
<1>3. /\ Top \in Frame
      /\ Top = frames[Len(frames)]
      /\ Len(frames) \in DOMAIN frames
      /\ Len(frames) \in Nat \ {0}
      /\ DOMAIN frames = 1 .. Len(frames)
  BY <1>1, TopFacts DEF Top
<1>4. Top.aligned /\ Top.rip # "garbage" /\ Top.rip \in Pcs \ Stopped
  BY <1>3 DEF Frame, FramesInv
<1>t. nmi_blocked' \in BOOLEAN /\ iflag' \in BOOLEAN
  BY <1>3, FALSE \in BOOLEAN DEF Frame
<1>5. CASE Len(frames) = 1
  <2>1. frames' = <<>> /\ DOMAIN frames' = {}
    BY <1>2, <1>5
  <2>2. Top.rip \notin HandlerPcs
    BY <1>3, <1>5 DEF FramesInv
  <2>a. TypeOK'
    BY <1>2, <1>3, <1>4, <1>t DEF TypeOK, Frame
  <2>b. ShellInv'
    BY <1>3, <2>1 DEF ShellInv, AtShell, ShellRsp
  <2>c. FramesInv'
    BY <1>4, <2>1, <2>2 DEF FramesInv
  <2>d. HookInv'
    BY <1>4, <2>2 DEF HookInv, ArmedPcs
  <2>e. EngagedInv'
    BY <2>2 DEF EngagedInv, Engaged, Leaving
  <2>f. TruthInv'
    BY <1>3, <1>4, <2>2 DEF TruthInv, Leaving, Untold, EngagedInv, Engaged, ArmedPcs, HookInv
  <2>g. NoNmiInv'
    BY <1>3, <1>4, <2>1, <2>2 DEF NoNmiInv, Engaged, TypeOK, EngagedInv, Leaving, ArmedPcs
  <2>h. QuietInv'
    BY <1>3, <1>4, <2>1, <2>2 DEF QuietInv, ShellSurvives, EngagedInv, Engaged, Leaving, ArmedPcs
  <2> QED
    BY <2>a, <2>b, <2>c, <2>d, <2>e, <2>f, <2>g, <2>h
<1>6. CASE Len(frames) > 1
  <2>1. /\ Len(frames') \in DOMAIN frames
        /\ Len(frames') \in DOMAIN frames'
        /\ Len(frames') = Len(frames) - 1
        /\ frames' # <<>>
        /\ Top' = frames[Len(frames')]
    BY <1>2, <1>3, <1>6, EmptySeq DEF Top
  <2>2. Top.rip \in HandlerPcs /\ ~Top.iflag
    BY <1>3, <1>4, <1>6 DEF FramesInv
  <2>3. ~Leaving
    BY <1>6 DEF EngagedInv
  <2>a. TypeOK'
    BY <1>2, <1>3, <1>4, <1>t DEF TypeOK, Frame
  <2>b. ShellInv'
    BY <1>2, <1>3, <2>2 DEF ShellInv, AtShell
  <2>c. FramesInv'
    BY <1>2, <1>3, <2>1, <2>2 DEF FramesInv
  <2>d. HookInv'
    BY <2>2 DEF HookInv, ArmedPcs
  <2>e. EngagedInv'
    BY <1>2, <1>3, <2>1, <2>2, <2>3 DEF EngagedInv, Engaged, Leaving, Serving, HookInv, ArmedPcs,
         FramesInv
  <2>f. TruthInv'
    BY <1>3, <2>1, <2>2, <2>3 DEF TruthInv, Leaving, Untold, EngagedInv, Engaged, Serving,
         HookInv, FramesInv
  <2>g. NoNmiInv'
    BY <1>3, <1>6 DEF NoNmiInv, Engaged
  <2>h. QuietInv'
    <3>1. lines # {}
      BY <1>6 DEF NoNmiInv, Engaged
    <3> QED
      BY <3>1 DEF QuietInv
  <2> QED
    BY <2>a, <2>b, <2>c, <2>d, <2>e, <2>f, <2>g, <2>h
<1> QED
  BY <1>3, <1>5, <1>6

(***************************************************************************)
(* An exception strikes.  One lemma covers the fault, the NMI and the      *)
(* timer; what it assumes is where each may strike: a fault in the program *)
(* or, with the hook word taken, in the handler; the timer outside the     *)
(* handler and only with IF set; an NMI anywhere.                          *)
(***************************************************************************)
Unshared == <<regs, exc_hook, shell, tampered, why>>

(* What the fields of a new frame are.                                     *)
LEMMA NewFrameFacts ==
  ASSUME TypeOK, NEW vec \in 0 .. 31, NEW raised \in BOOLEAN, NEW at \in Pcs, NEW sp \in Rsps,
         NEW f, f = NewFrame(vec, raised, at, sp)
  PROVE  /\ f \in Frame
         /\ f.vec = vec /\ f.rsp = sp /\ f.regs = regs /\ f.iflag = iflag
         /\ f.fn = NoHook
         /\ f.aligned = Aligned(vec, raised)
         /\ f.rip = IF Aligned(vec, raised) THEN at ELSE "garbage"
<1>1. Aligned(vec, raised) \in BOOLEAN
  BY DEF Aligned, CpuPushesError, StubExpectsError
<1> QED
  BY <1>1 DEF NewFrame, Frame, TypeOK, Hooks

LEMMA Push_Inv ==
  ASSUME ExcInv, UNCHANGED Unshared, UNCHANGED lines, nmi_blocked' \in BOOLEAN,
         NEW vec \in 0 .. 31, NEW raised \in BOOLEAN, NEW sp \in Rsps,
         Push(vec, raised, pc, sp),
         pc \notin Stopped,
         \/ pc \in HandlerPcs /\ ("nmi" \in lines \/ exc_hook = NoHook)
         \/ pc = "prog"
         \/ pc \notin HandlerPcs /\ sp = rsp /\ ("nmi" \in lines \/ iflag),
         lines = {} => Aligned(vec, raised) /\ (pc = "prog" \/ (pc = "hook" /\ Top.fn = ProgHook)),
         pc \in HandlerPcs => sp = rsp
  PROVE  ExcInv'
<1> DEFINE f == NewFrame(vec, raised, pc, sp)
<1>1. /\ f \in Frame
      /\ f.vec = vec /\ f.rsp = sp /\ f.regs = regs /\ f.iflag = iflag
      /\ f.fn = NoHook
      /\ f.aligned = Aligned(vec, raised)
      /\ f.rip = IF Aligned(vec, raised) THEN pc ELSE "garbage"
  <2>1. TypeOK /\ pc \in Pcs
    BY DEF ExcInv, TypeOK
  <2> QED
    BY <2>1, NewFrameFacts
<1>2. /\ frames' = Append(frames, f)
      /\ pc' = "handler"
      /\ rsp' \in {IstRsp, sp}
      /\ iflag' = FALSE
      /\ last' = [vec |-> vec, rip |-> pc]
  BY DEF Push
<1> HIDE DEF f
<1> USE DEF ExcInv, Unshared,
       Pcs, ShellPcs, HandlerPcs, Stopped, Hooks, NoHook, ShellHook, ProgHook,
       Owners, Rsps, PromptRsp, LoadRsp, ExecRsp, NoStack, IstRsp, Serves
<1>3. frames \in Seq(Frame)
  BY DEF TypeOK
<1>4. /\ frames' \in Seq(Frame)
      /\ frames' # <<>>
      /\ Len(frames') = Len(frames) + 1
      /\ Len(frames) \in Nat
      /\ DOMAIN frames = 1 .. Len(frames)
      /\ DOMAIN frames' = DOMAIN frames \cup {Len(frames')}
      /\ \A i \in DOMAIN frames : frames'[i] = frames[i]
      /\ Top' = f
      /\ frames'[Len(frames')] = f
  BY <1>1, <1>2, <1>3, AppendFacts
<1>5. pc \notin HandlerPcs => frames = <<>> /\ Len(frames) = 0
  BY DEF FramesInv
<1>6. pc \in HandlerPcs => Len(frames) > 0 /\ ~iflag
  BY <1>3, TopFacts DEF FramesInv
<1>t. iflag' \in BOOLEAN
  BY <1>2, FALSE \in BOOLEAN
<1>a. TypeOK'
  BY <1>2, <1>4, <1>t DEF TypeOK
<1>b. ShellInv'
  BY <1>1, <1>2, <1>4 DEF ShellInv, AtShell
<1>c. FramesInv'
  <2>1. ASSUME NEW i \in DOMAIN frames'
        PROVE  /\ frames'[i].rip = "garbage" => ~frames'[i].aligned
               /\ frames'[i].rip \in HandlerPcs => i > 1
               /\ i > 1 => frames'[i].rip \in HandlerPcs \cup {"garbage"} /\ ~frames'[i].iflag
               /\ frames'[i].rip \notin Stopped
               /\ frames'[i].rip \in Serves => frames'[i - 1].fn # NoHook
    <3>1. CASE i \in DOMAIN frames
      <4>1. frames'[i] = frames[i] /\ (i > 1 => frames'[i - 1] = frames[i - 1])
        BY <1>4, <3>1
      <4> QED
        BY <3>1, <4>1 DEF FramesInv
    <3>2. CASE i = Len(frames')
      <4>3. pc # "garbage"
        BY DEF TypeOK
      <4>1. frames'[i] = f /\ i = Len(frames) + 1 /\ Len(frames) \in Nat
        BY <1>4, <3>2
      <4>2. pc \in HandlerPcs => frames'[i - 1] = Top
        BY <1>4, <1>6, <4>1 DEF Top
      <4> QED
        BY <1>1, <1>5, <1>6, <4>1, <4>2, <4>3 DEF FramesInv
    <3> QED
      BY <1>4, <3>1, <3>2
  <2> QED
    BY <1>2, <1>4, <2>1 DEF FramesInv
<1>d. HookInv'
  BY <1>2 DEF HookInv, ArmedPcs
<1>e. EngagedInv'
  BY <1>1, <1>2, <1>4, <1>5 DEF EngagedInv, Engaged, Leaving, Serving, HookInv, ArmedPcs,
     TruthInv, Untold
<1>f. TruthInv'
  BY <1>1, <1>2, <1>4 DEF TruthInv, Leaving, Untold
<1>g. NoNmiInv'
  BY <1>1, <1>2, <1>4, <1>5 DEF NoNmiInv, Engaged, HookInv, ArmedPcs
<1>h. QuietInv'
  <2>1. lines = {} =>
          \A i \in DOMAIN frames' : /\ frames'[i].aligned
                                     /\ frames'[i].rip \in {"prog", "exc_restore"} \cup HandlerPcs
    BY <1>1, <1>4 DEF QuietInv
  <2>2. lines = {} /\ ~tampered => exc_hook = ShellHook
    BY DEF QuietInv
  <2> QED
    BY <1>2, <2>1, <2>2 DEF QuietInv, ShellSurvives
<1> QED
  BY <1>a, <1>b, <1>c, <1>d, <1>e, <1>f, <1>g, <1>h

(* An exception or interrupt finds a stack, its own or that of #DF: the    *)
(* machine does not reset.  A fault finds a frame as it ought to be.       *)
LEMMA Raise_Inv ==
  ASSUME ExcInv, UNCHANGED Unshared, UNCHANGED lines, nmi_blocked' \in BOOLEAN,
         NEW vec \in 0 .. 31, NEW raised \in BOOLEAN, NEW sp \in Rsps,
         Raise(vec, raised, pc, sp),
         pc \notin Stopped,
         \/ pc \in HandlerPcs /\ ("nmi" \in lines \/ exc_hook = NoHook)
         \/ pc = "prog"
         \/ pc \notin HandlerPcs /\ sp = rsp /\ ("nmi" \in lines \/ iflag),
         lines = {} => raised /\ (pc = "prog" \/ (pc = "hook" /\ Top.fn = ProgHook)),
         pc \in HandlerPcs => sp = rsp
  PROVE  ExcInv'
<1>1. PICK v \in {vec, 8}, r \in {raised, TRUE} : Push(v, r, pc, sp)
  BY DEF Raise, HasOwnStack
<1>2. /\ v \in 0 .. 31
      /\ r \in BOOLEAN
      /\ lines = {} => Aligned(v, r)
  <2>1. r \in BOOLEAN /\ (lines = {} => r)
    OBVIOUS
  <2>2. r => Aligned(v, r)
    BY DEF Aligned, CpuPushesError, StubExpectsError
  <2> QED
    BY <2>1, <2>2
<1> QED
  BY <1>1, <1>2, Push_Inv

(* A program that changes the hook word has tampered.                      *)
LEMMA ProgSetsHook_Inv ==
  ASSUME ExcInv, UNCHANGED lines, NEW hook \in {NoHook, ProgHook}, ProgSetsHook(hook)
  PROVE  ExcInv'
<1> USE DEF ExcInv, ProgSetsHook, ShellPcs, HandlerPcs, Stopped, NoHook, ShellHook, ProgHook
<1>1. tampered' \in BOOLEAN /\ tampered'
  OBVIOUS
<1>2. frames = <<>> /\ frames' = <<>>
  BY DEF FramesInv
<1>a. TypeOK'
  BY <1>1 DEF TypeOK, Hooks
<1>b. ShellInv'
  BY DEF ShellInv, AtShell
<1>c. FramesInv'
  BY <1>2 DEF FramesInv, Serves
<1>d. HookInv'
  BY DEF HookInv, ArmedPcs
<1>e. EngagedInv'
  BY DEF EngagedInv, Engaged, Leaving, Serves
<1>f. TruthInv'
  BY DEF TruthInv, Leaving, Untold
<1>g. NoNmiInv'
  BY DEF NoNmiInv, Engaged, Serves
<1>h. QuietInv'
  BY <1>1, <1>2 DEF QuietInv, ShellSurvives, Serves
<1> QED
  BY <1>a, <1>b, <1>c, <1>d, <1>e, <1>f, <1>g, <1>h

(* A program's hook leaves one frame, which goes to the program.           *)
LEMMA ProgHookRedirects_Inv ==
  ASSUME ExcInv, UNCHANGED lines, NEW sp \in ProgRsps \ {NoStack}, ProgHookRedirects(sp)
  PROVE  ExcInv'
<1> USE DEF ExcInv, ProgHookRedirects,
       Pcs, ShellPcs, HandlerPcs, Stopped, Hooks, NoHook, ShellHook, ProgHook,
       Owners, Rsps, PromptRsp, LoadRsp, ExecRsp, NoStack, IstRsp, Serves
<1>1. frames \in Seq(Frame) /\ frames # <<>> /\ Redirect("prog", sp)
  BY DEF TypeOK, FramesInv
<1>2. /\ frames' \in Seq(Frame)
      /\ frames' # <<>>
      /\ Len(frames') = 1
      /\ DOMAIN frames' = {1}
      /\ Top' = [Top EXCEPT !.rip = "prog", !.rsp = sp, !.iflag = TRUE]
      /\ frames'[1] = Top'
  BY <1>1, RedirectFacts
<1>3. /\ Top \in Frame
      /\ Top'.rip = "prog" /\ Top'.fn = ProgHook /\ Top'.aligned = Top.aligned
  BY <1>1, <1>2, TopFacts DEF Frame
<1> HIDE DEF Redirect
<1>4. \A i \in DOMAIN frames' : i = 1 /\ frames'[i].rip = "prog"
  BY <1>2, <1>3
<1>a. TypeOK'
  BY <1>2 DEF TypeOK
<1>b. ShellInv'
  BY <1>2, <1>3 DEF ShellInv, AtShell
<1>c. FramesInv'
  <2>1. pc' = "iret" /\ ~iflag'
    BY DEF FramesInv
  <2> QED
    BY <1>2, <1>3, <1>4, <2>1 DEF FramesInv
<1>d. HookInv'
  BY DEF HookInv, ArmedPcs
<1>e. EngagedInv'
  BY <1>2, <1>3, <1>4 DEF EngagedInv, Engaged, Leaving, Serving, HookInv, ArmedPcs
<1>f. TruthInv'
  BY <1>3 DEF TruthInv, Leaving, Untold
<1>g. NoNmiInv'
  BY <1>2, <1>4 DEF NoNmiInv, Engaged
<1>h. QuietInv'
  BY <1>1, <1>2, <1>3, <1>4, TopFacts DEF QuietInv, ShellSurvives, Top
<1> QED
  BY <1>a, <1>b, <1>c, <1>d, <1>e, <1>f, <1>g, <1>h

(* The exceptions the processor raises.                                    *)
LEMMA Faults_Inv ==
  ASSUME ExcInv, UNCHANGED lines,
         \/ \E vec \in Faults, sp \in ProgRsps : ProgFaults(vec, sp)
         \/ \E vec \in Faults : ProgHookFaults(vec)
         \/ IretFaults
  PROVE  ExcInv'
<1>1. Faults \subseteq 0 .. 31 /\ 13 \in 0 .. 31 /\ TRUE \in BOOLEAN
  BY ExcAssumption
<1>2. ProgRsps \subseteq Rsps /\ rsp \in Rsps /\ nmi_blocked \in BOOLEAN
  BY DEF Rsps, ExcInv, TypeOK
<1>3. pc \in {"hook", "iret"} => exc_hook = NoHook
  BY DEF ExcInv, HookInv, ArmedPcs, Stopped
<1>4. lines = {} /\ pc = "iret" => Top.aligned
  BY TopFacts DEF ExcInv, QuietInv, TypeOK, FramesInv, HandlerPcs, Top
<1>5. ASSUME NEW vec \in Faults, NEW sp \in ProgRsps, ProgFaults(vec, sp)
      PROVE  ExcInv'
  <2>1. /\ vec \in 0 .. 31 /\ sp \in Rsps
        /\ pc = "prog" /\ pc \notin Stopped /\ pc \notin HandlerPcs
        /\ Raise(vec, TRUE, pc, sp)
        /\ UNCHANGED Unshared
        /\ nmi_blocked' \in BOOLEAN
    BY <1>1, <1>2, <1>5 DEF ProgFaults, Unshared, Stopped, HandlerPcs
  <2> QED
    BY <1>1, <2>1, Raise_Inv
<1>6. ASSUME NEW vec \in Faults, ProgHookFaults(vec)
      PROVE  ExcInv'
  <2>1. /\ vec \in 0 .. 31
        /\ pc = "hook" /\ pc \notin Stopped /\ pc \in HandlerPcs /\ Top.fn = ProgHook
        /\ Raise(vec, TRUE, pc, rsp)
        /\ UNCHANGED Unshared
        /\ nmi_blocked' \in BOOLEAN
    BY <1>1, <1>2, <1>6 DEF ProgHookFaults, Unshared, Stopped, HandlerPcs
  <2> QED
    BY <1>1, <1>2, <1>3, <2>1, Raise_Inv
<1>7. CASE IretFaults
  <2>1. /\ pc = "iret" /\ pc \notin Stopped /\ pc \in HandlerPcs /\ ~Top.aligned
        /\ Raise(13, TRUE, pc, rsp)
        /\ UNCHANGED Unshared
        /\ nmi_blocked' \in BOOLEAN
    BY <1>2, <1>7 DEF IretFaults, Unshared, Stopped, HandlerPcs
  <2> QED
    BY <1>1, <1>2, <1>3, <1>4, <2>1, Raise_Inv
<1> QED
  BY <1>5, <1>6, <1>7

(* Those of the interrupt lines.                                           *)
LEMMA Lines_Inv ==
  ASSUME ExcInv, UNCHANGED lines, Nmi \/ TimerIrq
  PROVE  ExcInv'
<1>1. nmi_blocked \in BOOLEAN /\ rsp \in Rsps /\ ProgRsps \subseteq Rsps
  BY DEF ExcInv, TypeOK, Rsps
<1>2. 2 \in 0 .. 31 /\ 8 \in 0 .. 31 /\ FALSE \in BOOLEAN
  OBVIOUS
<1>3. ASSUME NEW sp \in Interrupted
      PROVE  /\ sp \in Rsps
             /\ pc = "prog" \/ sp = rsp
             /\ pc \in HandlerPcs => sp = rsp
  BY <1>1, <1>3 DEF Interrupted, HandlerPcs
<1>4. CASE Nmi
  <2>1. nmi_blocked' \in BOOLEAN
    BY <1>4, TRUE \in BOOLEAN DEF Nmi
  <2>2. PICK sp \in Interrupted : Raise(2, FALSE, pc, sp)
    BY <1>4 DEF Nmi
  <2>3. "nmi" \in lines /\ lines # {} /\ pc \notin Stopped /\ UNCHANGED Unshared
    BY <1>4 DEF Nmi, Unshared
  <2> QED
    BY <1>2, <1>3, <2>1, <2>2, <2>3, Raise_Inv
<1>5. CASE TimerIrq
  <2>1. PICK sp \in Interrupted : Raise(8, FALSE, pc, sp)
    BY <1>5 DEF TimerIrq
  <2>2. /\ lines # {} /\ iflag /\ pc \notin Stopped
        /\ UNCHANGED Unshared
        /\ nmi_blocked' \in BOOLEAN
    BY <1>1, <1>5 DEF TimerIrq, Unshared
  <2>3. pc \notin HandlerPcs
    BY <2>2 DEF ExcInv, FramesInv
  <2> QED
    BY <1>2, <1>3, <2>1, <2>2, <2>3, Raise_Inv
<1> QED
  BY <1>4, <1>5

----------------------------------------------------------------------------
(***************************************************************************)
(* The invariant is inductive.                                             *)
(***************************************************************************)
LEMMA StutterExcInv == ASSUME ExcInv, UNCHANGED vars PROVE ExcInv'
  BY DEF vars, ExcInv, TypeOK, ShellInv, AtShell, FramesInv, HookInv, EngagedInv, Engaged,
         Leaving, Serving, TruthInv, NoNmiInv, QuietInv, ShellSurvives, Top

LEMMA NextExcInv == ExcInv /\ [Next]_vars => ExcInv'
<1> SUFFICES ASSUME ExcInv, [Next]_vars PROVE ExcInv'
  OBVIOUS
<1>1. CASE UNCHANGED vars
  BY <1>1, StutterExcInv
<1>2. CASE Next
  <2>1. UNCHANGED lines
    BY <1>2 DEF Next
  <2>2. CASE CmdHalt \/ CmdLoad \/ LoadFails \/ ElfExec
    BY <2>1, <2>2, ShellSteps DEF ElfExec
  <2>3. CASE Program
    BY <2>1, <2>3, PlainSteps, ProgSetsHook_Inv, ProgHookRedirects_Inv, Faults_Inv DEF Program
  <2>4. CASE Kernel
    BY <2>1, <2>4, ShellSteps, PlainSteps, HandlerFindsHook_Inv, ShellHookRuns_Inv, Iret_Inv,
       Faults_Inv DEF Kernel, Handler
  <2>5. CASE Nmi \/ TimerIrq
    BY <2>1, <2>5, Lines_Inv
  <2> QED
    BY <1>2, <2>2, <2>3, <2>4, <2>5 DEF Next
<1> QED
  BY <1>1, <1>2

LEMMA ExcInvariant == Spec => []ExcInv
  BY InitExcInv, NextExcInv, PTL DEF Spec

----------------------------------------------------------------------------
(* The state keeps its shape: whatever faults, hooks and interrupt lines   *)
(* do, _exc_buf, exc_info and the frames hold what they may hold.          *)
THEOREM ExcTypeCorrect == Spec => []TypeOK
<1>1. ExcInv => TypeOK
  BY DEF ExcInv
<1> QED
  BY <1>1, ExcInvariant, PTL

(* The hook word is set only while elf_exec runs a program: a fault of the *)
(* shell never resumes a program that is gone (idt.c, main.c).             *)
THEOREM HookInScope == Spec => []HookScope
<1>1. ExcInv => HookScope
  BY DEF ExcInv, HookInv, HookScope, ArmedPcs, Stopped
<1> QED
  BY <1>1, ExcInvariant, PTL

(* However a program ended, cmd_load and the prompt go on with their own   *)
(* stack and registers.                                                    *)
THEOREM StateOfShellKept == Spec => []ShellStateKept
<1>1. ExcInv => ShellStateKept
  BY DEF ExcInv, ShellInv, AtShell, ShellRsp, ShellPcs, FramesInv, HandlerPcs, Stopped,
         ShellStateKept
<1> QED
  BY <1>1, ExcInvariant, PTL

(* cmd_load reports an exception exactly when the program did not return,  *)
(* and the last one raised.                                                *)
THEOREM TruthfulReport == Spec => []ReportTruthful
<1>1. ExcInv => ReportTruthful
  BY DEF ExcInv, TruthInv, Untold, ReportTruthful
<1> QED
  BY <1>1, ExcInvariant, PTL

(* Without NMI, exc_restore finds in _exc_buf the context of elf_exec.     *)
THEOREM ContextOfElfExec == Spec => []FrameIntactIfNoNmi
<1>1. ExcInv => FrameIntactIfNoNmi
  BY DEF ExcInv, NoNmiInv, ElfExecBuf, FrameIntactIfNoNmi, FrameIntact
<1> QED
  BY <1>1, ExcInvariant, PTL

(* Without NMI, a hook that faults is not entered again, at any depth of   *)
(* nesting.                                                                *)
THEOREM HooksDoNotNest == Spec => []NoReentry
<1>1. ExcInv => NoReentry
  <2>1. ASSUME ExcInv, "nmi" \notin lines, NEW i \in DOMAIN frames, frames[i].fn # NoHook
        PROVE  i = 1
    <3>1. frames # <<>>
      BY <2>1
    <3>2. i \in 1 .. Len(frames)
      BY <2>1, <3>1, TopFacts DEF ExcInv, TypeOK
    <3> QED
      BY <2>1, <3>2 DEF ExcInv, NoNmiInv
  <2> QED
    BY <2>1 DEF NoReentry
<1> QED
  BY <1>1, ExcInvariant, PTL

(* With every line closed, no fault of a program, on whatever stack, stops *)
(* or resets a machine whose hook the program left alone.                  *)
THEOREM FaultsDoNotStop == Spec => []FaultsSurvived
<1>1. ExcInv => FaultsSurvived
  BY DEF ExcInv, QuietInv, FaultsSurvived
<1> QED
  BY <1>1, ExcInvariant, PTL
============================================================================
