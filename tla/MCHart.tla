------------------------------- MODULE MCHart -------------------------------
(***************************************************************************)
(* Programs and page tables for RiscvHart.  Pages are 8 bytes (4 parcels) *)
(* so that blocks end at page ends and 32-bit instructions straddle pages *)
(* within a few instructions.                                              *)
(***************************************************************************)
EXTENDS RiscvHart

P(op)     == [op |-> op, tgt |-> 0]
PT(op, t) == [op |-> op, tgt |-> t]

Prog(list) == [a \in {2 * i : i \in 0 .. Len(list) - 1} |-> list[a \div 2 + 1]]

(***************************************************************************)
(* System mode.  Firmware has set mepc = 10 with MPP = U or S, mtvec = 0,       *)
(* stvec = 18 and may have delegated load page faults to S.  The machine-mode code  *)
(* at 0 drops to U through an MRET that straddles pages 0 and 1; U jumps  *)
(* to a load at 14 (straddling pages 1 and 2) that faults into S; the S   *)
(* handler jumps to page 3 and makes an ecall into M, whose handler is    *)
(* the code at 0 again and returns to the ecall.                          *)
(***************************************************************************)
SysProg == Prog(<< P("c.addi"), P("addi"), P("hi"), P("mret"),         \* 0..6
                   P("hi"), PT("c.j", 14), P("c.addi"), PT("lw", 100),  \* 8..14
                   P("hi"), PT("jal", 24), P("hi"), P("c.addi"),        \* 16..22
                   P("c.addi"), P("ecall"), P("hi"), PT("c.j", 24) >>)  \* 24..30

SysBootCsrs ==
  { [CsrZero EXCEPT !["mepc"] = 10, !["mtvec"] = 0, !["stvec"] = 18,
                    !["medeleg"] = d, !["mstatus"] = mpp + mie] :
      d \in {0, 2^LoadPageFault}, mpp \in {0, 2048}, mie \in {0, 8} }

IdentityXlat == [vp \in 0 .. 3 |-> vp]

\* Virtual pages 1 and 3 are backed by physical pages 3 and 1: the U code
\* at virtual 10..15 is kept in physical 26..31, the S code at virtual
\* 24..27 in physical 8..11.
SwapXlat == [vp \in 0 .. 3 |-> CASE vp = 1 -> 3 [] vp = 3 -> 1 [] OTHER -> vp]
SwapProg == Prog(<< P("c.addi"), P("addi"), P("hi"), P("mret"),
                    P("c.addi"), P("ecall"), P("hi"), P("c.addi"),
                    P("hi"), PT("jal", 24), P("hi"), P("c.addi"),
                    P("c.addi"), PT("c.j", 14), P("c.addi"), PT("lw", 100) >>)

\* The U code jumps to virtual page 3, which is not mapped.
HoleXlat == [vp \in 0 .. 3 |-> IF vp = 3 THEN Unmapped ELSE vp]
HoleProg == Prog(<< P("c.addi"), P("addi"), P("hi"), P("mret"),
                    P("hi"), PT("c.j", 24), P("c.addi"), P("c.addi"),
                    P("c.addi"), P("c.addi"), P("c.addi"), P("c.addi"),
                    P("c.addi"), P("c.addi"), P("c.addi"), P("c.addi") >>)

\* The U code jumps to virtual page 3, which the page table maps to
\* physical page 5, past the end of RAM.
OutsideXlat == [vp \in 0 .. 3 |-> IF vp = 3 THEN 5 ELSE vp]

\* Machine-mode code whose loop closes with a compressed jump in the last
\* two bytes of RAM.
EndProg == Prog(<< P("c.addi"), PT("c.j", 30), P("c.addi"), P("c.addi"),
                   P("c.addi"), P("c.addi"), P("c.addi"), P("c.addi"),
                   P("c.addi"), P("c.addi"), P("c.addi"), P("c.addi"),
                   P("c.addi"), P("c.addi"), P("c.addi"), PT("c.j", 4) >>)

\* Firmware ends with an illegal instruction (c.unimp, the all-zero parcel).
IllegalProg == Prog(<< P("c.addi"), P("addi"), P("hi"), P("c.unimp") >>)

(***************************************************************************)
(* User mode.  The program loops: write syscall, a 32-bit instruction     *)
(* straddling pages 0 and 1, jump back.  The signal handler at 12 returns *)
(* with rt_sigreturn.                                                      *)
(***************************************************************************)
UserProg == Prog(<< P("c.addi"), PT("ecall", 64), P("hi"), P("addi"),   \* 0..6
                    P("hi"), PT("c.j", 0), P("c.addi"), PT("ecall", 139), \* 8..14
                    P("hi"), P("c.addi"), P("c.addi"), P("c.addi") >>)   \* 16..22
\* Each of the fixed programs above, as a set for Programs.
SysProgs == {SysProg}
SwapProgs == {SwapProg}
EndProgs == {EndProg}
HoleProgs == {HoleProg}
IllegalProgs == {IllegalProg}
UserProgs == {UserProg}

(***************************************************************************)
(* System mode over a family of programs.  Pages 0 and 1 are a skeleton   *)
(* with five holes; pages 2 and 3 hold the S handler at stvec = 18, which *)
(* makes an ecall into M.  Each hole is filled in every way the sets      *)
(* below allow: entries into the middle of a block built before, a jump  *)
(* to the last parcel of page 0, a 32-bit instruction straddling pages 0  *)
(* and 1 or two compressed ones, traps (lw, ecall) at different points of *)
(* a block, and mret/sret.  Every target is the start of an instruction   *)
(* and the code never runs off the end of RAM, so the fetch, RAM-end and  *)
(* illegal-instruction paths of the violation runs stay out.              *)
(***************************************************************************)
W4(op, t) == << PT(op, t), P("hi") >>
Hole0  == { <<P("c.addi")>>, <<PT("c.j", 6)>>, <<PT("c.j", 10)>> }
Hole2  == { W4("addi", 0), W4("lw", 100), W4("ecall", 0), W4("jal", 10) }
Hole6  == { W4("addi", 0), <<P("c.addi"), PT("c.j", 0)>>, <<PT("c.j", 2), P("c.addi")>> }
Hole10 == { <<P("c.addi")>>, <<PT("c.j", 6)>>, <<PT("c.j", 2)>> }
Hole12 == { W4("jal", 0), W4("jal", 6), W4("ecall", 0), W4("mret", 0), W4("sret", 0) }
SHandler == << P("c.addi"), PT("jal", 24), P("hi"), P("c.addi"),      \* 16..22
               P("c.addi"), P("ecall"), P("hi"), PT("c.j", 24) >>     \* 24..30

FamilyProgs ==
  { Prog(h0 \o h2 \o h6 \o h10 \o h12 \o SHandler) :
      h0 \in Hole0, h2 \in Hole2, h6 \in Hole6, h10 \in Hole10, h12 \in Hole12 }

SysFamily == SysProgs \cup FamilyProgs

(***************************************************************************)
(* User mode over a family of programs (3 pages, handler at SigHandler =  *)
(* 12).  The main loop at 0..11 has four holes: a syscall (write, exit,   *)
(* rt_sigreturn with no frame to return to) or a jump at 2, a 32-bit      *)
(* instruction straddling pages 0 and 1, a loop back or a fatal load at   *)
(* 6, and the loop's closing jump at 10.  The handler either returns at   *)
(* once or makes a syscall first; compressed parcels fill RAM after it.   *)
(***************************************************************************)
UHole0  == { <<P("c.addi")>>, <<PT("c.j", 6)>> }
UHole2  == { W4("ecall", 64), W4("ecall", 93), W4("ecall", 139), W4("jal", 10) }
UHole6  == { W4("addi", 0), <<P("c.addi"), PT("c.j", 0)>>, W4("lw", 100) }
UHole10 == { <<PT("c.j", 0)>>, <<PT("c.j", 2)>>, <<PT("c.j", 6)>> }
UHandler == { <<P("c.addi")>> \o W4("ecall", 139) \o <<P("c.addi"), P("c.addi"), P("c.addi")>>,
               W4("ecall", 64) \o W4("ecall", 139) \o <<P("c.addi"), P("c.addi")>> }

UserFamily ==
  UserProgs \cup
  { Prog(h0 \o h2 \o h6 \o h10 \o hs) :
      h0 \in UHole0, h2 \in UHole2, h6 \in UHole6, h10 \in UHole10, hs \in UHandler }

-----------------------------------------------------------------------------
(* Refinement: the hart, seen through ArchPc, prv and csr, is a behaviour  *)
(* of the ISA machine: the block cache, the uncached loop, deferred        *)
(* want_pc and traps drained by run() are invisible to the guest.          *)
Isa == INSTANCE RiscvIsa WITH pc <- ArchPc, prv <- prv, csr <- csr
IsaSpec == Isa!Spec

-----------------------------------------------------------------------------
(* User mode: the hart, seen through ArchPc, the saved signal frames and  *)
(* whether it has stopped, is a Linux process of UserIsa: syscalls resume *)
(* at the next instruction, rt_sigreturn at the saved pc, and a signal is *)
(* delivered between two instructions, saving the pc the interrupted     *)
(* code continues at.                                                     *)
UIsa == INSTANCE UserIsa WITH pc <- ArchPc, frames <- sig_frames, halted <- (loc = "halt")
UserIsaSpec == UIsa!Spec

(* The interpreter never livelocks: however blocks are found, built, run  *)
(* or bypassed at a page end, and however run() drains syscalls and       *)
(* signals, the process either ends (exit or a fatal trap) or keeps       *)
(* executing instructions (UserIsa steps happen infinitely often).        *)
ProcessProgress ==
  \/ <>(loc = "halt")
  \/ []<><<UIsa!Next>>_<<ArchPc, sig_frames, loc = "halt", Mem>>
=============================================================================
