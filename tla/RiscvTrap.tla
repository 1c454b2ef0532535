----------------------------- MODULE RiscvTrap -----------------------------
(***************************************************************************)
(* The trap engine of the RISC-V interpreter: RiscvInt::handle_trap and    *)
(* the state it reads and writes (pc, privilege, the trap CSRs).           *)
(*                                                                         *)
(* A hart's trap-relevant state is a record                                *)
(*   [pc |-> Nat, prv |-> Priv, csr |-> CsrFile]                           *)
(* CSR words are naturals; bitwise operations come from Bitwise.  The      *)
(* encoded cause of get_trap_cause (interrupt bit at XLEN-1) is kept as    *)
(* the pair [intr, code] because TLC integers cannot hold bit 63: the      *)
(* mcause/scause CSRs are records of the same shape.                       *)
(***************************************************************************)
EXTENDS Integers, Bitwise

CONSTANT XLEN        \* Xlen::X32 or Xlen::X64, as the number of bits
ASSUME XLEN \in {32, 64}

Priv == {"U", "S", "M"}

\* get_privilege_encoding (riscv::common): User 0, Supervisor 1, Machine 3.
PrivEnc(p) == CASE p = "U" -> 0 [] p = "S" -> 1 [] p = "M" -> 3

\* The inverse used when an xRET reads MPP/SPP back.
PrivDec(e) == CASE e = 0 -> "U" [] e = 1 -> "S" [] OTHER -> "M"

Bit(x, n) == (x \div 2^n) % 2

\* x & !m for a mask m (Bitwise's Not only spans the bits of its argument).
ClearBits(x, m) == x - (x & m)

\* A trap as RiscvInt::set_trap stores it: cause code, interrupt flag, tval.
NoTrap == [code |-> 0, intr |-> FALSE, val |-> 0, none |-> TRUE]
MkTrap(c, i, v) == [code |-> c, intr |-> i, val |-> v, none |-> FALSE]

\* Exception codes used by the model (RISC-V privileged ISA, Exception).
InstructionAccessFault == 1
IllegalInstruction     == 2
EcallFromU             == 8
EcallFromS             == 9
EcallFromM             == 11
InstructionPageFault   == 12
LoadPageFault          == 13

EcallCause(p) == CASE p = "U" -> EcallFromU [] p = "S" -> EcallFromS
                   [] p = "M" -> EcallFromM

CsrNames == {"mstatus", "sstatus", "mepc", "sepc", "mcause", "scause",
             "mtval", "stval", "mtvec", "stvec", "medeleg", "mideleg"}

\* init_systemmode / init_usermode: csr: [0; 4096].
ZeroCause == [intr |-> FALSE, code |-> 0]
CsrZero == [n \in CsrNames |-> IF n \in {"mcause", "scause"} THEN ZeroCause
                                                           ELSE 0]

(***************************************************************************)
(* RiscvInt::handle_trap(trp, trapped_pc), with change_priv, in its three  *)
(* parts: the delegation decision, and the status update of each mode.    *)
(***************************************************************************)

\* Mutant: the privilege guard dropped (machine-mode traps delegated too).
DelegatesToSNoPriv(s, trp) ==
  LET hsdeleg == IF trp.intr THEN s.csr["mideleg"] ELSE s.csr["medeleg"]
  IN trp.code < XLEN /\ Bit(hsdeleg, trp.code) = 1

\* hsdeleg is read only below machine mode; the trap goes to S when the
\* code is below XLEN and its bit in mideleg/medeleg is set.
DelegatesToS(s, trp) ==
  LET lowpriv == PrivEnc(s.prv) <= PrivEnc("S")
      hsdeleg == IF ~lowpriv THEN 0
                 ELSE IF trp.intr THEN s.csr["mideleg"] ELSE s.csr["medeleg"]
  IN lowpriv /\ trp.code < XLEN /\ Bit(hsdeleg, trp.code) = 1

\* Mutant: SPIE copied from SPIE (bit 5) instead of SIE (bit 1).
SStatusOnTrapSpie(st, enc) == ClearBits(st, 290) | (Bit(st, 5) * 32) | ((enc % 2) * 256)

\* status = (status & !0x122) | (sie << 5) | ((enc & 1) << 8)
SStatusOnTrap(st, enc) == ClearBits(st, 290) | (Bit(st, 1) * 32) | ((enc % 2) * 256)

\* Mutant: the previous privilege shifted to bit 12 instead of 11.
MStatusOnTrapShift(mt, enc) == ClearBits(mt, 6280) | (Bit(mt, 3) * 128) | (enc * 4096)

\* status = (status & !0x1888) | (mie << 7) | (enc << 11)
MStatusOnTrap(mt, enc) == ClearBits(mt, 6280) | (Bit(mt, 3) * 128) | (enc * 2048)

HandleTrap(s, trp, trapped_pc) ==
  LET enc     == PrivEnc(s.prv)
      \* reason &= !(1 << (XLEN-1)): only the code is left
      reason  == trp.code
      toS     == DelegatesToS(s, trp)
      tvec    == IF toS THEN s.csr["stvec"] ELSE s.csr["mtvec"]
      vector  == IF Bit(tvec, 0) = 1 /\ trp.intr THEN 4 * reason ELSE 0
  IN IF toS
     THEN [pc  |-> ClearBits(tvec, 1) + vector,
           prv |-> "S",
           csr |-> [s.csr EXCEPT !["scause"]  = [intr |-> FALSE, code |-> reason],
                                 !["sepc"]    = trapped_pc,
                                 !["stval"]   = trp.val,
                                 !["sstatus"] = SStatusOnTrap(s.csr["sstatus"], enc)]]
     ELSE [pc  |-> ClearBits(tvec, 1) + vector,
           prv |-> "M",
           csr |-> [s.csr EXCEPT !["mcause"]  = [intr |-> FALSE, code |-> reason],
                                 !["mepc"]    = trapped_pc,
                                 !["mtval"]   = trp.val,
                                 !["mstatus"] = MStatusOnTrap(s.csr["mstatus"], enc)]]

(***************************************************************************)
(* MRET and SRET.  Their handlers are not under src/: they are modelled    *)
(* from the privileged ISA the spec refers to (privilege from MPP/SPP,     *)
(* xIE from xPIE, xPIE set, xPP cleared to U, pc from xepc).               *)
(***************************************************************************)
\* Mutant: MIE left as it is instead of taken from MPIE.
MretKeepsMie(s) ==
  LET mt == s.csr["mstatus"]
  IN [pc  |-> s.csr["mepc"],
      prv |-> PrivDec((mt \div 2048) % 4),
      csr |-> [s.csr EXCEPT !["mstatus"] =
                 ClearBits(mt, 6280 - 8) | 128]]

Mret(s) ==
  LET mt == s.csr["mstatus"]
  IN [pc  |-> s.csr["mepc"],
      prv |-> PrivDec((mt \div 2048) % 4),
      csr |-> [s.csr EXCEPT !["mstatus"] =
                 ClearBits(mt, 6280) | (Bit(mt, 7) * 8) | 128]]

Sret(s) ==
  LET st == s.csr["sstatus"]
  IN [pc  |-> s.csr["sepc"],
      prv |-> PrivDec(Bit(st, 8)),
      csr |-> [s.csr EXCEPT !["sstatus"] =
                 ClearBits(st, 290) | (Bit(st, 5) * 2) | 32]]
=============================================================================
