------------------------------ MODULE UserIsa ------------------------------
(***************************************************************************)
(* What a user-mode hart promises the Linux process it runs (spec 4.4,    *)
(* 4.6, 4.7): one instruction per step at pc; an ecall is a syscall that   *)
(* returns to the next instruction, except exit, which ends the process,   *)
(* and rt_sigreturn, which resumes at the pc the last signal frame saved;  *)
(* any other trap is fatal.  Between two instructions a host signal may    *)
(* be delivered: the pc of the next instruction is saved in a frame and    *)
(* execution continues at the handler.  The syscall number is carried by  *)
(* the ecall parcel (a7).                                                 *)
(***************************************************************************)
EXTENDS RiscvProgram, Sequences

CONSTANTS BootPc, SigHandler, SysExit, SysRtSigreturn

VARIABLES
  pc,          \* the next instruction
  frames,      \* return pcs saved by signal frames, innermost first
  halted       \* the process has ended (exit or a fatal trap)

uvars == <<pc, frames, halted, Mem>>

Init == Mem \in Programs /\ pc = BootPc /\ frames = <<>> /\ halted = FALSE

\* The effect of the instruction at pc, as the new [pc, frames, halted].
Effect ==
  LET p == Mem[pc]
      next == [pc |-> pc + InstLen(p), frames |-> frames, halted |-> FALSE]
      stop == [pc |-> pc, frames |-> frames, halted |-> TRUE]
  IN CASE ~InRam(pc) \/ ~InRam(pc + InstLen(p) - 2) \/ ~Decodes(p) -> stop
       [] p.op \in {"c.j", "jal"} -> [next EXCEPT !.pc = p.tgt]
       [] p.op = "ecall" /\ p.tgt = SysExit -> stop
       [] p.op = "ecall" /\ p.tgt = SysRtSigreturn /\ frames # <<>> ->
            [next EXCEPT !.pc = Head(frames), !.frames = Tail(frames)]
       [] p.op \in {"lw", "mret", "sret"} -> stop
       [] OTHER -> next

Set(r) == pc' = r.pc /\ frames' = r.frames /\ halted' = r.halted

Execute == ~halted /\ Set(Effect)

\* A signal delivered at an instruction boundary.
Deliver ==
  /\ ~halted
  /\ pc' = SigHandler /\ frames' = <<pc>> \o frames /\ halted' = FALSE

\* An instruction and a signal delivered right after it, in one step.
ExecuteThenDeliver ==
  /\ ~halted /\ ~Effect.halted
  /\ pc' = SigHandler /\ frames' = <<Effect.pc>> \o Effect.frames
  /\ halted' = FALSE

Next == (Execute \/ Deliver \/ ExecuteThenDeliver) /\ UNCHANGED Mem

Spec == Init /\ [][Next]_uvars
=============================================================================
