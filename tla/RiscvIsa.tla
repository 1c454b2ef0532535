------------------------------ MODULE RiscvIsa ------------------------------
(***************************************************************************)
(* What a system-mode hart promises: the architectural machine of the      *)
(* RISC-V ISA, one instruction per step.  The instruction at pc is fetched *)
(* through the page table of the current privilege; a fetch that cannot   *)
(* be translated, or that leaves RAM, traps with epc = pc; everything else *)
(* executes the parcel found there.  No block cache, no deferred pc, no    *)
(* pending trap: RiscvHart is checked to implement this.                   *)
(***************************************************************************)
EXTENDS RiscvProgram, RiscvTrap

CONSTANTS BootPc, BootCsrs

VARIABLES pc, prv, csr

isaVars == <<pc, prv, csr, Mem>>

Arch == [pc |-> pc, prv |-> prv, csr |-> csr]

SetArch(s) == pc' = s.pc /\ prv' = s.prv /\ csr' = s.csr

Init == Mem \in Programs /\ pc = BootPc /\ prv = "M" /\ csr \in BootCsrs

\* Both translations of a fetch, and whether the instruction's bytes exist.
FirstHalf  == Phys(pc, prv)
SecondHalf == Phys(pc + 2, prv)
Fetchable ==
  /\ FirstHalf # Unmapped /\ InRam(FirstHalf)
  /\ IsCompressed(Mem[FirstHalf]) \/ (SecondHalf # Unmapped /\ InRam(SecondHalf))

FetchFault ==
  /\ ~Fetchable
  /\ LET cause == IF FirstHalf = Unmapped \/ SecondHalf = Unmapped
                  THEN InstructionPageFault ELSE InstructionAccessFault
     IN SetArch(HandleTrap(Arch, MkTrap(cause, FALSE, pc), pc))

Execute ==
  /\ Fetchable
  /\ LET p == Mem[FirstHalf]
     IN /\ Decodes(p)
        /\ CASE p.op \in {"c.j", "jal"}  -> pc' = p.tgt /\ UNCHANGED <<prv, csr>>
             [] p.op = "mret"            -> SetArch(Mret(Arch))
             [] p.op = "sret"            -> SetArch(Sret(Arch))
             [] p.op = "ecall"           ->
                  SetArch(HandleTrap(Arch, MkTrap(EcallCause(prv), FALSE, 0), pc))
             [] p.op = "lw"              ->
                  SetArch(HandleTrap(Arch, MkTrap(LoadPageFault, FALSE, p.tgt), pc))
             [] OTHER                    -> pc' = pc + InstLen(p) /\ UNCHANGED <<prv, csr>>

Next == (FetchFault \/ Execute) /\ UNCHANGED Mem

Spec == Init /\ [][Next]_isaVars
=============================================================================
