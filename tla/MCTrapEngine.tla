---------------------------- MODULE MCTrapEngine ----------------------------
(* Model values for TrapEngine: every exception the interpreter raises,    *)
(* delegated or not, from firmware states with and without vectored trap  *)
(* vectors and with interrupts enabled or disabled.                        *)
EXTENDS TrapEngine

MCCodes == {IllegalInstruction, EcallFromU, EcallFromS, LoadPageFault}

\* S-mode timer (5) and software (1) interrupt codes.
MCIntrCodes == {1, 5}

MCTrapPcs == {4}

MCBootCsrs ==
  { [CsrZero EXCEPT !["medeleg"] = d, !["mideleg"] = i, !["stvec"] = sv,
                    !["mtvec"] = mv, !["mstatus"] = ms, !["sstatus"] = ss] :
      d \in {0, 2^LoadPageFault + 2^EcallFromU}, i \in {0, 2^5},
      sv \in {16, 17}, mv \in {33}, ms \in {0, 8}, ss \in {0, 2} }
=============================================================================
