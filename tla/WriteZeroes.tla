----------------------------- MODULE WriteZeroes -----------------------------
(***************************************************************************)
(* file_write_zeroes_at (src/system/base/src/sys/unix/write_zeroes.rs):   *)
(* zero `length` bytes of a file, by fallocate(ZeroRange) or, when that    *)
(* fails, by a loop of positional writes of a zero buffer.  The file is    *)
(* abstracted to the set of byte positions (relative to offset) that hold *)
(* zeroes written by this call.  write_at may write fewer bytes than asked *)
(* (short write) or fail; MinWrite is the least it writes when it succeeds.*)
(***************************************************************************)
EXTENDS Naturals

CONSTANTS
  Lengths,     \* values of `length` a caller passes
  BufMax,      \* the 0x10000 cap on the zero buffer
  MinWrite     \* fewest bytes a successful write_at writes (0 allows Ok(0))

ASSUME BufMax \in Nat \ {0} /\ MinWrite \in {0, 1}

VARIABLES
  length,      \* the argument
  at,          \* "fallocate", "loop", "ok" (returned Ok(length)), "err"
  buf_size,    \* min(length, 0x10000)
  nwritten,    \* bytes the loop has counted as written
  ret,         \* what the last write_at returned, before `+=` adds it
  zeroed       \* positions zeroed by this call

vars == <<length, at, buf_size, nwritten, ret, zeroed>>

MinOf(a, b) == IF a <= b THEN a ELSE b

\* The byte positions the call is asked to zero.
Range == 0 .. length - 1

Init ==
  /\ length \in Lengths
  /\ at = "fallocate" /\ buf_size = 0 /\ nwritten = 0 /\ ret = 0 /\ zeroed = {}

\* fallocate(ZeroRange) succeeds: the whole range is zero, return Ok(length).
FallocateOk ==
  /\ at = "fallocate"
  /\ zeroed' = Range /\ at' = "ok"
  /\ UNCHANGED <<length, buf_size, nwritten, ret>>

\* Mutant: the buffer not capped at 0x10000.
FallocateFailsNoCap ==
  /\ at = "fallocate"
  /\ buf_size' = length /\ at' = "loop"
  /\ UNCHANGED <<length, nwritten, ret, zeroed>>

\* fallocate fails: fall back to writing a buffer of zeroes.
FallocateFails ==
  /\ at = "fallocate"
  /\ buf_size' = MinOf(length, BufMax) /\ at' = "loop"
  /\ UNCHANGED <<length, nwritten, ret, zeroed>>

\* Mutant: the last write not clipped to the remaining bytes.
WriteAtNoClip(n) ==
  LET write_size == buf_size
  IN /\ at = "loop" /\ nwritten < length
     /\ n \in MinWrite .. write_size
     /\ zeroed' = zeroed \cup (nwritten .. nwritten + n - 1)
     /\ ret' = n /\ at' = "add"
     /\ UNCHANGED <<length, buf_size, nwritten>>

\* An iteration of `while nwritten < length`: write_at writes n of the
\* write_size bytes asked for at offset + nwritten and returns Ok(n) ...
WriteAt(n) ==
  LET write_size == MinOf(length - nwritten, buf_size)
  IN /\ at = "loop" /\ nwritten < length
     /\ n \in MinWrite .. write_size
     /\ zeroed' = zeroed \cup (nwritten .. nwritten + n - 1)
     /\ ret' = n /\ at' = "add"
     /\ UNCHANGED <<length, buf_size, nwritten>>

\* Mutant: the count of written bytes not advanced.
AddWrittenLost ==
  /\ at = "add"
  /\ nwritten' = nwritten /\ at' = "loop"
  /\ UNCHANGED <<length, buf_size, ret, zeroed>>

\* ... and nwritten += n.
AddWritten ==
  /\ at = "add"
  /\ nwritten' = nwritten + ret /\ at' = "loop"
  /\ UNCHANGED <<length, buf_size, ret, zeroed>>

\* write_at returns Err: `?` returns it; what was written stays written.
WriteAtFails ==
  /\ at = "loop" /\ nwritten < length
  /\ at' = "err"
  /\ UNCHANGED <<length, buf_size, nwritten, ret, zeroed>>

\* The loop condition fails: Ok(length).
LoopDone ==
  /\ at = "loop" /\ ~(nwritten < length)
  /\ at' = "ok"
  /\ UNCHANGED <<length, buf_size, nwritten, ret, zeroed>>

Returned == at \in {"ok", "err"}

Next ==
  \/ FallocateOk \/ FallocateFails
  \/ \E n \in 0 .. BufMax : WriteAt(n)
  \/ AddWritten
  \/ WriteAtFails \/ LoopDone

\* One thread runs the call to its end; the kernel's answers are chosen
\* freely, but the thread keeps taking steps while it has not returned.
Spec == Init /\ [][Next]_vars /\ WF_vars(Next)

-----------------------------------------------------------------------------
TypeOK ==
  /\ length \in Lengths /\ buf_size \in 0 .. BufMax
  /\ at \in {"fallocate", "loop", "add", "ok", "err"}
  /\ nwritten \in Nat /\ ret \in 0 .. BufMax /\ zeroed \subseteq Nat

(* The call never writes outside offset .. offset+length, and when it      *)
(* returns Ok(length) every byte of that range is zero: the loop's count  *)
(* of short writes (nwritten) is what was really written, and the last    *)
(* write is clipped to the remaining bytes.                               *)
ZeroesExactlyRange ==
  /\ zeroed \subseteq Range
  /\ at = "ok" => zeroed = Range

(* Every call returns, with Ok or an error.                              *)
Terminates == <>Returned
=============================================================================
