------------------------------ MODULE MmapRange ------------------------------
(***************************************************************************)
(* The range checks of src/system/base/src/sys/windows/mmap.rs at a usize  *)
(* of W bits: validate_includes_range (used by MappedRegion::msync) and    *)
(* MemoryMapping::range_end.  Each step is one call on a mapping of        *)
(* mmap_size bytes with arbitrary offset and length; the result is         *)
(* compared with the range check over unbounded integers.                  *)
(***************************************************************************)
EXTENDS Naturals

CONSTANTS
  W,           \* bits of usize
  Sizes        \* sizes of mappings

Usize == 0 .. 2^W - 1
None  == 2^W                 \* checked_add returned None

ASSUME Sizes \subseteq Usize

VARIABLES
  mmap_size,   \* self.size()
  op,          \* the last call: "none", "msync" or "range_end"
  offset, count,
  end_offset,  \* offset.checked_add(count), None on overflow
  result       \* "Ok", "InvalidAddress" or "SystemCallFailed"; range_end's
               \* Ok carries end_offset

vars == <<mmap_size, op, offset, count, end_offset, result>>

\* usize::checked_add
CheckedAddWrap(a, b) == (a + b) % 2^W
CheckedAddUnbounded(a, b) == a + b
CheckedAdd(a, b) == IF a + b < 2^W THEN a + b ELSE None

\* validate_includes_range: Ok iff the sum does not overflow and is within.
ValidateIncludesRange(size, off, n) ==
  LET e == CheckedAdd(off, n) IN e # None /\ e <= size

Init ==
  /\ mmap_size \in Sizes
  /\ op = "none" /\ offset = 0 /\ count = 0 /\ end_offset = 0 /\ result = "Ok"

\* msync: validate, then FlushViewOfFile, which may fail.
Msync(off, n, flush_ok) ==
  /\ op' = "msync" /\ offset' = off /\ count' = n
  /\ end_offset' = CheckedAdd(off, n)
  /\ result' = IF ~ValidateIncludesRange(mmap_size, off, n) THEN "InvalidAddress"
               ELSE IF flush_ok THEN "Ok" ELSE "SystemCallFailed"
  /\ UNCHANGED mmap_size

\* range_end: Err(InvalidAddress) on overflow or past the end, else Ok(mem_end).
RangeEnd(off, n) ==
  LET mem_end == CheckedAdd(off, n)
  IN /\ op' = "range_end" /\ offset' = off /\ count' = n
     /\ end_offset' = mem_end
     /\ result' = IF mem_end = None \/ mem_end > mmap_size THEN "InvalidAddress"
                  ELSE "Ok"
     /\ UNCHANGED mmap_size

Next ==
  \E off, n \in Usize :
    \/ \E ok \in BOOLEAN : Msync(off, n, ok)
    \/ RangeEnd(off, n)

Spec == Init /\ [][Next]_vars

-----------------------------------------------------------------------------
(* Both checks accept exactly the ranges offset .. offset+count that lie  *)
(* within the mapping, computed without overflow: a sum that wraps past    *)
(* usize::MAX is rejected, never taken as a small in-bounds end.  msync   *)
(* issues the flush only for such a range, and range_end returns the true *)
(* end.                                                                    *)
RangeChecksMatchReference ==
  LET inside == offset + count <= mmap_size
  IN /\ op = "msync" => ((result # "InvalidAddress") <=> inside)
     /\ op = "range_end" => ((result = "Ok") <=> inside)
     /\ (op = "range_end" /\ result = "Ok") => end_offset = offset + count

TypeOK ==
  /\ mmap_size \in Sizes /\ op \in {"none", "msync", "range_end"}
  /\ offset \in Usize /\ count \in Usize
  /\ end_offset \in Usize \cup {None}
  /\ result \in {"Ok", "InvalidAddress", "SystemCallFailed"}
=============================================================================
