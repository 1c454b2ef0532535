------------------------------ MODULE RiscvHart ------------------------------
(***************************************************************************)
(* The interpreter core of src/emulation/src/riscv/interpreter/main.rs:    *)
(* RiscvInt::run and the two loops it drives (exec_cached_int with         *)
(* build_exec / check_block / exec_block_inner, and exec_one_by_one), the  *)
(* trap path into handle_trap, the user-mode syscall bridge and the        *)
(* SIGNAL_AVAIL poll.                                                      *)
(*                                                                         *)
(* A step is one iteration of one of those loops; `loc` is the loop the    *)
(* hart is in:                                                             *)
(*   "cached"   head of the loop in exec_cached_int                       *)
(*   "block"    inside exec_block_inner, before instruction bidx of blk   *)
(*   "uncached" head of the loop in exec_one_by_one                       *)
(*   "post"     run() after the loop returned                              *)
(*   "halt"     the emulator panicked or the guest exited (see fate)      *)
(* Register values are not modelled (register 0's reset is therefore not *)
(* either); is_compressed only feeds link-register values and is omitted. *)
(***************************************************************************)
EXTENDS RiscvProgram, RiscvTrap, Sequences, SequencesExt

CONSTANTS
  BootPc,        \* pc when run() is entered
  BootCsrs,      \* CSR files run() may be entered with
  CacheInit,     \* possible values of cache_enabled when run() is entered
  SigHandler,    \* guest address of the registered signal handler
  MaxSignals     \* bound on host signals raised

ASSUME CacheInit \subseteq BOOLEAN /\ MaxSignals \in Nat

VARIABLES
  pc, want_pc, prv, csr,     \* RiscvInt.pc, .want_pc, .prvmode, .csr
  trap, trap_pc,             \* RiscvInt.trap, .trap_pc
  stop_exec, cache_enabled,  \* RiscvInt.stop_exec, .cache_enabled
  instr,                     \* RiscvInt.instr: physical page -> blocks
  blk, bidx,                 \* block being run by exec_block_inner, index
  loc, via,                  \* loop of the hart; branch run() took
  fate,                      \* why the hart halted
  sig_avail, sigs_raised,    \* SIGNAL_AVAIL; signals the host raised
  sig_frames                 \* return pcs saved by setup_rt_frame

\* The RiscvInt struct as the model keeps it: regs, fregs, xlen, memsource,
\* current_block, user_struct, is_compressed, changed_pc, stop_translating,
\* wfi and the LR/SC reservation are abstracted away (see the header).
vars == <<pc, want_pc, prv, csr, trap, trap_pc, stop_exec, cache_enabled,
          instr, blk, bidx, loc, via, fate, sig_avail, sigs_raised,
          sig_frames, Mem>>

NoPc == -1                                   \* want_pc = None
NoBlock == [begin |-> 0, end |-> 0, instrs |-> <<>>]

Arch == [pc |-> pc, prv |-> prv, csr |-> csr]

\* The loop run() enters next: exec_cached_int or exec_one_by_one.
LoopOf(ce) == IF ce THEN "cached" ELSE "uncached"

(***************************************************************************)
(* Instruction handlers.  They are not under src/; what they do to the     *)
(* hart is taken from the spec (sections 4.4, 7, 9): a jump sets want_pc   *)
(* and stop_exec, ecall and a faulting load call set_trap, xRET takes its  *)
(* pc through want_pc.  The result is the set of fields the handler wrote. *)
(***************************************************************************)

\* Mutant: the trap recorded against the next instruction.
SetTrapNextPc(t) == [trap |-> t, trap_pc |-> pc + 4, stop_exec |-> TRUE, want_pc |-> want_pc,
                     prv |-> prv, csr |-> csr]

\* RiscvInt::set_trap: trap, trap_pc = current pc, stop_exec.
SetTrap(t) == [trap |-> t, trap_pc |-> pc, stop_exec |-> TRUE, want_pc |-> want_pc,
               prv |-> prv, csr |-> csr]

Handler(p) ==
  LET same == [trap |-> trap, trap_pc |-> trap_pc, stop_exec |-> stop_exec,
               want_pc |-> want_pc, prv |-> prv, csr |-> csr]
      ret(s) == [same EXCEPT !.want_pc = s.pc, !.prv = s.prv, !.csr = s.csr,
                             !.stop_exec = TRUE]
  IN CASE p.op \in {"c.j", "jal"} -> [same EXCEPT !.want_pc = p.tgt, !.stop_exec = TRUE]
       [] p.op = "ecall" -> SetTrap(MkTrap(EcallCause(prv), FALSE, 0))
       [] p.op = "lw"    -> SetTrap(MkTrap(LoadPageFault, FALSE, p.tgt))
       [] p.op = "mret"  -> ret(Mret(Arch))
       [] p.op = "sret"  -> ret(Sret(Arch))
       [] OTHER          -> same

\* Mutant: the loop leaves before pc += inc_by when the handler stopped it.
RunInstrStopFirst(p, inc) ==
  LET h == Handler(p)
  IN /\ trap' = h.trap /\ trap_pc' = h.trap_pc /\ stop_exec' = h.stop_exec
     /\ want_pc' = h.want_pc /\ prv' = h.prv /\ csr' = h.csr
     /\ pc' = IF h.stop_exec THEN pc ELSE pc + inc

\* Run one decoded instruction: (z.func)(self, &z.args); then pc += inc_by.
RunInstr(p, inc) ==
  LET h == Handler(p)
  IN /\ trap' = h.trap /\ trap_pc' = h.trap_pc /\ stop_exec' = h.stop_exec
     /\ want_pc' = h.want_pc /\ prv' = h.prv /\ csr' = h.csr
     /\ pc' = pc + inc

(***************************************************************************)
(* build_exec: decode from physical addr to the end of the page, stopping  *)
(* after an instruction that sets stop_translating or before a 32-bit      *)
(* instruction with fewer than 4 bytes left.  Result "fault" is a read16   *)
(* error (propagated by ?), "illegal" the panic in illegal_instr.          *)
(***************************************************************************)
\* Mutant: a 32-bit instruction decoded with fewer than 4 bytes left.
RECURSIVE BuildLoopNoWidthCheck(_, _, _, _, _)
BuildLoopNoWidthCheck(addr, iaddr, max_count, acc, inc_by) ==
  LET done == [res |-> "ok",
               blk |-> [begin |-> addr, end |-> iaddr - inc_by, instrs |-> acc]]
      step(p, n) == IF EndsBlock(p)
                    THEN [res |-> "ok", blk |-> [begin |-> addr, end |-> iaddr,
                                                 instrs |-> Append(acc, [p |-> p, inc_by |-> n])]]
                    ELSE BuildLoopNoWidthCheck(addr, iaddr + n, max_count - n,
                                   Append(acc, [p |-> p, inc_by |-> n]), n)
  IN IF max_count < 2 THEN done
     ELSE IF ~InRam(iaddr) THEN [res |-> "fault"]
     ELSE LET p == Mem[iaddr] IN
          IF IsCompressed(p)
          THEN IF Decodes(p) THEN step(p, 2) ELSE [res |-> "illegal"]
          ELSE IF ~InRam(iaddr + 2) THEN [res |-> "fault"]
          ELSE IF Decodes(p) THEN step(p, 4) ELSE [res |-> "illegal"]

RECURSIVE BuildLoop(_, _, _, _, _)
BuildLoop(addr, iaddr, max_count, acc, inc_by) ==
  LET done == [res |-> "ok",
               blk |-> [begin |-> addr, end |-> iaddr - inc_by, instrs |-> acc]]
      step(p, n) == IF EndsBlock(p)
                    THEN [res |-> "ok", blk |-> [begin |-> addr, end |-> iaddr,
                                                 instrs |-> Append(acc, [p |-> p, inc_by |-> n])]]
                    ELSE BuildLoop(addr, iaddr + n, max_count - n,
                                   Append(acc, [p |-> p, inc_by |-> n]), n)
  IN IF max_count < 2 THEN done
     ELSE IF ~InRam(iaddr) THEN [res |-> "fault"]
     ELSE LET p == Mem[iaddr] IN
          IF IsCompressed(p)
          THEN IF Decodes(p) THEN step(p, 2) ELSE [res |-> "illegal"]
          ELSE IF max_count < 4 THEN done
          ELSE IF ~InRam(iaddr + 2) THEN [res |-> "fault"]
          ELSE IF Decodes(p) THEN step(p, 4) ELSE [res |-> "illegal"]

BuildExec(addr) == BuildLoop(addr, addr, PageSize - (addr % PageSize), <<>>, 0)

\* check_block: the first block of the page's list that begins at addr.
CheckBlock(addr) ==
  LET pg == addr \div PageSize
      hits == IF pg \in DOMAIN instr
              THEN SelectSeq(instr[pg], LAMBDA b : b.begin = addr) ELSE <<>>
  IN IF hits = <<>> THEN NoBlock ELSE Head(hits)

SamePage(a, b) == a \div PageSize = b \div PageSize

-----------------------------------------------------------------------------
Init ==
  /\ Mem \in Programs
  /\ pc = BootPc /\ want_pc = NoPc /\ prv = "M" /\ csr \in BootCsrs
  /\ trap = NoTrap /\ trap_pc = 0 /\ stop_exec = FALSE
  /\ cache_enabled \in CacheInit
  /\ instr = [g \in 0 .. NumPages - 1 |-> <<>>]
  /\ blk = NoBlock /\ bidx = 0
  /\ loc = LoopOf(cache_enabled) /\ via = loc
  /\ fate = "running"
  /\ sig_avail = FALSE /\ sigs_raised = 0 /\ sig_frames = <<>>

Halt(why) == loc' = "halt" /\ fate' = why

\* Mutant: the loop head retried without stepping the instruction.
CrossPageFallbackNoStep ==
  /\ stop_exec' = TRUE /\ cache_enabled' = FALSE /\ loc' = "cached"
  /\ UNCHANGED <<instr, blk, bidx, trap, fate>>

\* The instruction may cross the page: stop after one instruction, disable
\* the cache and run exec_one_by_one (its errors propagate by `?`).
CrossPageFallback ==
  /\ stop_exec' = TRUE /\ cache_enabled' = FALSE /\ loc' = "uncached"
  /\ UNCHANGED <<instr, blk, bidx, trap, fate>>

\* exec_cached_int, one iteration of its loop up to exec_block_inner.
CachedIter ==
  LET max_count == PageSize - (pc % PageSize)
      physpc == Phys(pc, prv)
      found == CheckBlock(physpc)
      built == BuildExec(physpc)
      enter(b) == /\ blk' = b /\ bidx' = 1 /\ stop_exec' = FALSE
                  /\ loc' = IF b.instrs = <<>> THEN "cached" ELSE "block"
  IN /\ loc = "cached"
     /\ CASE max_count < 4 -> CrossPageFallback
          [] physpc = Unmapped ->
               \* Err(self.mem_trap(Execute, curpc)); run() stores it in trap
               /\ stop_exec' = TRUE
               /\ trap' = MkTrap(InstructionPageFault, FALSE, pc)
               /\ loc' = "post"
               /\ UNCHANGED <<cache_enabled, instr, blk, bidx, fate>>
          [] found # NoBlock /\ ~SamePage(found.begin, found.end) ->
               Halt("check_block") /\ UNCHANGED <<stop_exec, cache_enabled, instr, blk, bidx, trap>>
          [] found # NoBlock ->
               enter(found) /\ UNCHANGED <<cache_enabled, instr, trap, fate>>
          [] built.res = "ok" ->
               /\ instr' = [instr EXCEPT ![physpc \div PageSize] = Append(@, built.blk)]
               /\ enter(built.blk)
               /\ UNCHANGED <<cache_enabled, trap, fate>>
          [] built.res = "illegal" ->
               Halt("illegal_instr") /\ UNCHANGED <<stop_exec, cache_enabled, instr, blk, bidx, trap>>
          [] OTHER ->
               \* build_exec's Err is dropped; check_block(physpc).unwrap() panics
               Halt("build_unwrap") /\ UNCHANGED <<stop_exec, cache_enabled, instr, blk, bidx, trap>>
     /\ UNCHANGED <<pc, want_pc, prv, csr, trap_pc, via, sig_avail, sigs_raised,
                    sig_frames, Mem>>

\* Mutant: the end of the block tested one instruction late.
BlockStepOffByOne ==
  LET z == blk.instrs[bidx]
  IN /\ loc = "block"
     /\ RunInstr(z.p, z.inc_by)
     /\ loc' = IF stop_exec' THEN "post"
               ELSE IF bidx > Len(blk.instrs) THEN "cached" ELSE "block"
     /\ bidx' = bidx + 1
     /\ UNCHANGED <<cache_enabled, instr, blk, via, fate, sig_avail, sigs_raised, sig_frames>>

\* exec_block_inner, one instruction of the block.
BlockStep ==
  LET z == blk.instrs[bidx]
  IN /\ loc = "block"
     /\ RunInstr(z.p, z.inc_by)
     /\ loc' = IF stop_exec' THEN "post"
               ELSE IF bidx = Len(blk.instrs) THEN "cached" ELSE "block"
     /\ bidx' = bidx + 1
     /\ UNCHANGED <<cache_enabled, instr, blk, via, fate, sig_avail, sigs_raised, sig_frames>>

\* exec_one_by_one, one iteration: read32(self.pc, true, true) reads pc as
\* a physical address, whatever the privilege.
UncachedStep ==
  /\ loc = "uncached"
  /\ IF ~InRam(pc) \/ ~InRam(pc + 2)
     THEN \* read32 fails: ? returns the trap; run() stores it in trap
          /\ trap' = MkTrap(InstructionAccessFault, FALSE, pc)
          /\ loc' = "post"
          /\ UNCHANGED <<pc, want_pc, prv, csr, trap_pc, stop_exec, fate>>
     ELSE LET p == Mem[pc] IN
          IF ~Decodes(p)
          THEN Halt("illegal_instr")
               /\ UNCHANGED <<pc, want_pc, prv, csr, trap, trap_pc, stop_exec>>
          ELSE /\ RunInstr(p, InstLen(p))
               /\ loc' = IF stop_exec' THEN "post" ELSE "uncached"
               /\ UNCHANGED fate
  /\ UNCHANGED <<cache_enabled, instr, blk, bidx, via, sig_avail, sigs_raised, sig_frames>>

\* The syscall number the program put in a7 before the ecall at trap_pc,
\* cut to 16 bits (syscallnum as u16) before it is translated.
SyscallNum == Mem[trap_pc].tgt % 2^16
SysExit == 93
SysRtSigreturn == 139

IsSyscallTrap(t) == ~t.none /\ ~t.intr /\ t.code = EcallFromM

\* handle_syscall: a7 is translated, a0..a5 go to dispatch and its results
\* come back in a0/a1 (registers are not modelled).  What is kept is the
\* effect dispatch has on control: exit ends the process; rt_sigreturn
\* resumes at the pc the last signal frame saved and pops it.
HandleSyscall ==
  LET sysret == SyscallNum = SysRtSigreturn /\ sig_frames # <<>>
  IN [exit   |-> SyscallNum = SysExit,
      pc     |-> IF sysret THEN Head(sig_frames) ELSE pc,
      frames |-> IF sysret THEN Tail(sig_frames) ELSE sig_frames]

\* Mutant: SIGNAL_AVAIL never cleared.
SignalPollKeepFlag(p, frames) ==
  IF sig_avail THEN [pc |-> SigHandler, frames |-> <<p>> \o frames, avail |-> sig_avail]
               ELSE [pc |-> p, frames |-> frames, avail |-> sig_avail]

\* The SIGNAL_AVAIL poll in run(): setup_rt_frame saves the pc in the
\* frame and retargets pc to the handler; the flag is cleared.
SignalPoll(p, frames) ==
  IF sig_avail THEN [pc |-> SigHandler, frames |-> <<p>> \o frames, avail |-> FALSE]
               ELSE [pc |-> p, frames |-> frames, avail |-> FALSE]

(***************************************************************************)
(* run(), the statements after the loop returned: store the trap (done by  *)
(* the step that returned Err), re-enable the cache after exec_cached_int, *)
(* drain the trap (syscall, fatal, or handle_trap and continue), poll      *)
(* SIGNAL_AVAIL, commit want_pc, clear stop_exec, enter the next loop.     *)
(***************************************************************************)
Post ==
  LET ce == via = "cached" \/ cache_enabled
      next == LoopOf(ce)
      s == HandleTrap(Arch, trap, trap_pc)
      sys == IF IsSyscallTrap(trap) THEN HandleSyscall
             ELSE [exit |-> FALSE, pc |-> pc, frames |-> sig_frames]
      poll == SignalPoll(sys.pc, sys.frames)
  IN /\ loc = "post"
     /\ CASE ~trap.none /\ ~UserMode ->
               /\ pc' = s.pc /\ prv' = s.prv /\ csr' = s.csr
               /\ trap_pc' = 0 /\ trap' = NoTrap /\ want_pc' = NoPc /\ stop_exec' = FALSE
               /\ cache_enabled' = ce /\ loc' = next /\ via' = next
               /\ UNCHANGED <<fate, sig_avail, sig_frames>>
          [] ~trap.none /\ ~IsSyscallTrap(trap) ->
               /\ Halt("user_trap")
               /\ UNCHANGED <<pc, prv, csr, trap_pc, trap, want_pc, stop_exec,
                              cache_enabled, via, sig_avail, sig_frames>>
          [] sys.exit ->
               /\ Halt("exit")
               /\ UNCHANGED <<pc, prv, csr, trap_pc, trap, want_pc, stop_exec,
                              cache_enabled, via, sig_avail, sig_frames>>
          [] OTHER ->
               /\ pc' = IF want_pc # NoPc THEN want_pc ELSE poll.pc
               /\ want_pc' = NoPc /\ trap' = NoTrap /\ stop_exec' = FALSE
               /\ sig_avail' = poll.avail /\ sig_frames' = poll.frames
               /\ cache_enabled' = ce /\ loc' = next /\ via' = next
               /\ UNCHANGED <<prv, csr, trap_pc, fate>>
  /\ UNCHANGED <<instr, blk, bidx, sigs_raised>>

\* The host's signal handler sets the thread-local SIGNAL_AVAIL.
SignalArrive ==
  /\ UserMode /\ loc # "halt"
  /\ ~sig_avail /\ sigs_raised < MaxSignals
  /\ sig_avail' = TRUE /\ sigs_raised' = sigs_raised + 1
  /\ UNCHANGED <<pc, want_pc, prv, csr, trap, trap_pc, stop_exec, cache_enabled,
                 instr, blk, bidx, loc, via, fate, sig_frames, Mem>>

HartStep == (CachedIter \/ BlockStep \/ UncachedStep \/ Post) /\ UNCHANGED Mem

Next == HartStep \/ SignalArrive

\* The hart is one thread that never blocks (wfi is not reachable): it
\* always takes its next step.
Spec == Init /\ [][Next]_vars /\ WF_vars(HartStep)

-----------------------------------------------------------------------------
TypeOK ==
  /\ pc \in Nat /\ want_pc \in Nat \cup {NoPc} /\ prv \in Priv
  /\ DOMAIN csr = CsrNames
  /\ trap.code \in Nat /\ trap.intr \in BOOLEAN /\ trap.none \in BOOLEAN
  /\ trap_pc \in Nat
  /\ stop_exec \in BOOLEAN /\ cache_enabled \in BOOLEAN
  /\ DOMAIN instr = 0 .. NumPages - 1
  /\ loc \in {"cached", "block", "uncached", "post", "halt"}
  /\ via \in {"cached", "uncached"}
  /\ fate \in {"running", "exit", "user_trap", "illegal_instr", "build_unwrap", "check_block"}
  /\ sig_avail \in BOOLEAN /\ sigs_raised \in 0 .. MaxSignals
  /\ loc = "block" => bidx \in 1 .. Len(blk.instrs)

(* Every block in the cache lies inside the page it is filed under: its   *)
(* instructions are contiguous from begin, the last one starts at end,     *)
(* and all bytes of the last one are in the page.  This is stronger than  *)
(* the begin/end check in check_block: it is what lets exec_cached_int     *)
(* run a block without translating again, and it rests on build_exec's    *)
(* "max_count < 4" test for a 32-bit instruction at the end of the page.   *)
BlockWithinPage ==
  \A g \in DOMAIN instr : \A i \in 1 .. Len(instr[g]) :
    LET b == instr[g][i]
        n == Len(b.instrs)
        sizes == [k \in 1 .. n |-> b.instrs[k].inc_by]
    IN /\ n > 0
       /\ b.begin \div PageSize = g
       /\ b.begin + FoldLeft(+, 0, SubSeq(sizes, 1, n - 1)) = b.end
       /\ b.end + sizes[n] <= (g + 1) * PageSize

(* The pc of the instruction the hart is architecturally at: a pending    *)
(* trap belongs to the instruction at trap_pc; a pending want_pc is where *)
(* the last instruction sent control.                                     *)
ArchPc == IF ~trap.none THEN trap_pc ELSE IF want_pc # NoPc THEN want_pc ELSE pc

(* A fetch fault is recorded against the instruction that could not be    *)
(* fetched: trap_pc, which run() hands to handle_trap as xepc, is the      *)
(* faulting pc (the spec: "after a trap, xepc equals the PC at which the   *)
(* trap was raised").  The fault is returned as Err from exec_cached_int   *)
(* or exec_one_by_one and stored by run() without going through set_trap.  *)
FetchFaultEpc ==
  (~trap.none /\ trap.code \in {InstructionAccessFault, InstructionPageFault})
    => trap_pc = trap.val

(* A guest error in system mode is a trap delivered to the guest, never a *)
(* halt of the emulator (spec section 7: a trap is always recoverable).   *)
GuestErrorsAreTraps == UserMode \/ fate = "running"

(* A syscall returns to the instruction after its ecall: set_trap saved   *)
(* the ecall's pc in trap_pc, the loop then advanced pc by 4, and run()    *)
(* does not touch pc when it handles the syscall.  If a signal is polled  *)
(* in the same pass, that return address is the one setup_rt_frame saves *)
(* for rt_sigreturn.  (exit stops the guest; rt_sigreturn restores a     *)
(* saved pc instead.)                                                      *)
SyscallResumesAfterEcall ==
  [][ (/\ loc = "post" /\ loc' # "post"
       /\ IsSyscallTrap(trap) /\ SyscallNum \notin {SysExit, SysRtSigreturn})
      => (IF sig_avail THEN Head(sig_frames') ELSE pc') = trap_pc + 4 ]_vars

(* Every signal the host raises is eventually taken by the hart: run()    *)
(* regains control from the execution loops and clears SIGNAL_AVAIL, or    *)
(* the guest has stopped.                                                 *)
SignalEventuallyDelivered == sig_avail ~> (~sig_avail \/ loc = "halt")
=============================================================================
