----------------------------- MODULE TrapEngine -----------------------------
(***************************************************************************)
(* The trap engine as a component: a hart that takes arbitrary traps       *)
(* through RiscvInt::handle_trap and leaves trap handlers through MRET and *)
(* SRET.  Checked against a reference definition of trap entry written     *)
(* from the privileged ISA (spec section 4.5), and for the round trip      *)
(* "trap, then the matching xRET".                                         *)
(***************************************************************************)
EXTENDS RiscvTrap, Naturals, Sequences

CONSTANTS
  Codes,      \* cause codes raised
  Intrs,      \* {FALSE} for exceptions only, BOOLEAN to include interrupts
  TrapPcs,    \* pcs at which traps are raised
  BootCsrs    \* CSR files firmware may have written before the first trap

VARIABLES
  hart,       \* [pc, prv, csr]: the RiscvInt fields handle_trap touches
  prev,       \* the hart before the last step (history, for the reference)
  last,       \* [trp, tpc] of the last trap delivered, or a NoTrap record
  frames      \* per target mode: what the last trap into it interrupted

vars == <<hart, prev, last, frames>>

NoFrame == [prv |-> "M", pc |-> 0, ie |-> 0, none |-> TRUE]
NoLast  == [trp |-> NoTrap, tpc |-> 0]

Traps == {MkTrap(c, i, 7) : c \in Codes, i \in Intrs}

\* The interrupt-enable bit of mode m in its status CSR.
IE(s, m) == IF m = "S" THEN Bit(s.csr["sstatus"], 1) ELSE Bit(s.csr["mstatus"], 3)

TypeOK ==
  /\ hart.prv \in Priv /\ hart.pc \in Nat
  /\ DOMAIN hart.csr = CsrNames
  \* the status fields modelled (SIE..SPP, MIE..MPP) lie in bits 0..12
  /\ \A n \in {"sstatus", "mstatus"} : hart.csr[n] \in 0 .. 2^13 - 1
  /\ last.tpc \in TrapPcs \cup {0}
  /\ frames \in [{"S", "M"} -> [prv : Priv, pc : Nat, ie : {0, 1}, none : BOOLEAN]]

Init ==
  /\ \E c \in BootCsrs : hart = [pc |-> 0, prv |-> "M", csr |-> c]
  /\ prev = hart
  /\ last = NoLast
  /\ frames = [m \in {"S", "M"} |-> NoFrame]

\* A trap is raised at tpc and delivered by handle_trap.
Deliver(trp, tpc) ==
  LET s2 == HandleTrap(hart, trp, tpc)
  IN /\ hart' = s2
     /\ prev' = hart
     /\ last' = [trp |-> trp, tpc |-> tpc]
     /\ frames' = [frames EXCEPT ![s2.prv] =
                     [prv |-> hart.prv, pc |-> tpc, ie |-> IE(hart, s2.prv),
                      none |-> FALSE]]

\* MRET, executed by a machine-mode handler.
MretStep ==
  /\ hart.prv = "M"
  /\ hart' = Mret(hart)
  /\ prev' = hart
  /\ last' = NoLast
  /\ frames' = [frames EXCEPT !["M"] = NoFrame]

\* SRET, executed by a supervisor-mode handler.
SretStep ==
  /\ hart.prv = "S"
  /\ hart' = Sret(hart)
  /\ prev' = hart
  /\ last' = NoLast
  /\ frames' = [frames EXCEPT !["S"] = NoFrame]

Next ==
  \/ \E trp \in Traps, tpc \in TrapPcs : Deliver(trp, tpc)
  \/ MretStep
  \/ SretStep

Spec == Init /\ [][Next]_vars

-----------------------------------------------------------------------------
(***************************************************************************)
(* Reference: trap entry as the privileged ISA states it, field by field.  *)
(* A trap taken in mode U or S whose cause bit is set in medeleg (mideleg  *)
(* for interrupts) goes to S, any other to M.  The target mode records the *)
(* cause with its interrupt flag, the trapping pc, tval, the previous      *)
(* privilege in xPP, the old xIE in xPIE, clears xIE and jumps to xtvec    *)
(* (BASE + 4*code when vectored and an interrupt).                         *)
(***************************************************************************)
SetBit(x, n, b) == x - Bit(x, n) * 2^n + b * 2^n

RefTrap(s, trp, tpc) ==
  LET deleg  == IF trp.intr THEN s.csr["mideleg"] ELSE s.csr["medeleg"]
      target == IF s.prv # "M" /\ trp.code < XLEN /\ Bit(deleg, trp.code) = 1
                THEN "S" ELSE "M"
      x      == IF target = "S" THEN "s" ELSE "m"
      base   == s.csr[x \o "tvec"] - Bit(s.csr[x \o "tvec"], 0)
      off    == IF Bit(s.csr[x \o "tvec"], 0) = 1 /\ trp.intr THEN 4 * trp.code ELSE 0
      old    == s.csr[x \o "status"]
      ieb    == IF target = "S" THEN 1 ELSE 3
      pieb   == IF target = "S" THEN 5 ELSE 7
      pp     == IF target = "S"
                THEN SetBit(old, 8, PrivEnc(s.prv))
                ELSE SetBit(SetBit(old, 11, PrivEnc(s.prv) % 2), 12, PrivEnc(s.prv) \div 2)
      status == SetBit(SetBit(pp, pieb, Bit(old, ieb)), ieb, 0)
  IN [pc  |-> base + off,
      prv |-> target,
      csr |-> [s.csr EXCEPT ![x \o "cause"]  = [intr |-> trp.intr, code |-> trp.code],
                            ![x \o "epc"]    = tpc,
                            ![x \o "tval"]   = trp.val,
                            ![x \o "status"] = status]]

(* handle_trap computes exactly the state the privileged ISA prescribes    *)
(* for trap entry: target mode, pc, xcause, xepc, xtval and xstatus.       *)
TrapMatchesReference ==
  last.trp.none \/ hart = RefTrap(prev, last.trp, last.tpc)

(* A trap followed by the matching MRET or SRET (with no trap into the     *)
(* same mode in between) resumes the interrupted code: same privilege,     *)
(* same pc, and the interrupt-enable bit it had before the trap.  This is  *)
(* the contract between handle_trap's writes of xPP/xPIE/xepc and the xRET *)
(* handlers that read them back.                                           *)
TrapReturnRestores ==
  [][ \A m \in {"S", "M"} :
        (/\ ~frames[m].none
         /\ hart.prv = m
         /\ (IF m = "M" THEN MretStep ELSE SretStep))
        => /\ hart'.prv = frames[m].prv
           /\ hart'.pc = frames[m].pc
           /\ IE(hart', m) = frames[m].ie
    ]_vars
=============================================================================
