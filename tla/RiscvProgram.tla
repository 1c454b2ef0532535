---------------------------- MODULE RiscvProgram ----------------------------
(***************************************************************************)
(* What the interpreter fetches from: guest physical memory holding a      *)
(* program, the page size, and the page table that RiscVMem::virt2phys    *)
(* walks.  Instructions are abstracted to "parcels": the 16-bit unit at an *)
(* even physical address, named by the instruction that starts there (the  *)
(* upper half of a 32-bit instruction is the parcel "hi").  Register       *)
(* contents are not modelled; a jump's target and the syscall number a     *)
(* program put in a7 are carried by the parcel.                            *)
(***************************************************************************)
EXTENDS Integers

CONSTANTS
  PageSize,    \* RISCV_PAGE_SIZE, in bytes
  NumPages,    \* pages of guest RAM (physical pages 0 .. NumPages-1)
  Programs,    \* the programs guest RAM may hold
  Xlat,        \* page table: virtual page -> physical page, or Unmapped
  UserMode     \* RiscvInt.usermode (init_usermode rather than init_systemmode)

ASSUME PageSize \in {4, 8, 16} /\ NumPages \in Nat \ {0}
ASSUME UserMode \in BOOLEAN

\* Guest RAM: even physical address -> parcel.  It holds one of Programs
\* and never changes (stores are not modelled).
VARIABLE Mem

Unmapped == -1

RamSize == NumPages * PageSize
InRam(a) == a \in 0 .. RamSize - 1

CompressedOps == {"c.addi", "c.j", "c.unimp"}

\* Parcels whose low two bits are not 0b11 start a 16-bit instruction.
IsCompressed(p) == p.op \in CompressedOps
InstLen(p) == IF IsCompressed(p) THEN 2 ELSE 4

\* decoder::decode / decoder16::decode return false on these encodings.
Decodes(p) == p.op \notin {"c.unimp"}

\* Instructions whose decoder sets stop_translating (jumps, xRET, ecall).
EndsBlock(p) == p.op \in {"c.j", "jal", "ecall", "mret", "sret"}

(***************************************************************************)
(* RiscVMem::virt2phys for an instruction fetch: bare in machine mode and  *)
(* in user-mode emulation, through the page table otherwise.               *)
(***************************************************************************)
Phys(v, prv) ==
  IF prv = "M" \/ UserMode THEN v
  ELSE LET vp == v \div PageSize
       IN IF vp \in DOMAIN Xlat /\ Xlat[vp] # Unmapped
          THEN Xlat[vp] * PageSize + (v % PageSize)
          ELSE Unmapped
=============================================================================
