------------------------------- MODULE WinMmap -------------------------------
(***************************************************************************)
(* MemoryMappingBuilder::build and ::wrap (src/system/base/src/sys/windows/*)
(* mmap.rs), composed with the range checks of the mapping they return.    *)
(*                                                                         *)
(* build takes three fallible steps: create_file_mapping (a section handle *)
(* for a file), the mapped view, and, in wrap, duplicate_handle of the     *)
(* file.  Each acquires a kernel object that an owner (SafeDescriptor,     *)
(* MemoryMapping) releases when it is dropped; an early `?` drops what was *)
(* acquired so far, and leaving build drops the section handle.  `live`    *)
(* is the set of kernel objects the call has open.  Once a mapping is      *)
(* built, msync and range_end are called on it (module MmapRange).         *)
(***************************************************************************)
EXTENDS FiniteSets

CONSTANTS W, Sizes

VARIABLES
  desc,        \* the builder's descriptor (BuilderDescs), or "direct" when a
               \* MemoryMapping constructor is called without the builder
  stage,       \* "construct", "create" (create_file_mapping next), "map",
               \* "wrap", "built", "err"
  live,        \* kernel objects open: "section", "view", "dup"
  mmap_size, op, offset, count, end_offset, result    \* MmapRange

rangeVars == <<op, offset, count, end_offset, result>>
vars == <<desc, stage, live, mmap_size, rangeVars>>

Range == INSTANCE MmapRange

\* What build finds in self.descriptor: nothing (the builder's default), a
\* mapping handle (MemoryMappingBuilderWindows::from_descriptor, which
\* requires one), or a file (from_file, with is_file_descriptor set).
BuilderDescs == {"none", "section", "file"}

Init ==
  /\ desc \in BuilderDescs \cup {"direct"}
  /\ stage = CASE desc = "file"   -> "create"
               [] desc = "direct" -> "construct"
               [] OTHER           -> "map"
  /\ live = {}
  /\ mmap_size \in Sizes          \* self.size
  /\ op = "none" /\ offset = 0 /\ count = 0 /\ end_offset = 0 /\ result = "Ok"

\* MemoryMapping::new, from_descriptor, from_raw_descriptor and
\* from_descriptor_offset: each delegates to new_protection or
\* from_descriptor_offset_protection (offset 0, read/write), whose view is
\* the only object the returned MemoryMapping owns.
Construct(ok) ==
  /\ stage = "construct"
  /\ IF ok THEN live' = live \cup {"view"} /\ stage' = "built"
           ELSE stage' = "err" /\ UNCHANGED live
  /\ UNCHANGED <<desc, mmap_size, rangeVars>>

\* is_file_descriptor: create_file_mapping(file, size, PAGE_READWRITE);
\* on failure `?` returns StdSyscallFailed.
CreateFileMapping(ok) ==
  /\ stage = "create"
  /\ IF ok THEN live' = live \cup {"section"} /\ stage' = "map"
           ELSE stage' = "err" /\ UNCHANGED live
  /\ UNCHANGED <<desc, mmap_size, rangeVars>>

\* MemoryMapping::from_descriptor_offset_protection on the section (or the
\* given mapping handle), or new_protection without a descriptor.  On
\* failure `?` leaves build and drops the section handle.
MapView(ok) ==
  /\ stage = "map"
  /\ IF ok THEN live' = live \cup {"view"} /\ stage' = "wrap"
           ELSE live' = live \ {"section"} /\ stage' = "err"
  /\ UNCHANGED <<desc, mmap_size, rangeVars>>

\* Mutant: the section handle kept open when build returns.
WrapKeepsSection(ok) ==
  /\ stage = "wrap"
  /\ IF desc # "file" \/ ok
     THEN /\ live' = live \cup (IF desc = "file" THEN {"dup"} ELSE {})
          /\ stage' = "built"
     ELSE /\ live' = live \ {"view", "section"}
          /\ stage' = "err"
  /\ UNCHANGED <<desc, mmap_size, rangeVars>>

\* wrap(mapping, file): for a file, duplicate_handle(file) is kept by the
\* result; its failure drops the mapping (the view).  Leaving build drops
\* the section handle in either case.
Wrap(ok) ==
  /\ stage = "wrap"
  /\ IF desc # "file" \/ ok
     THEN /\ live' = (live \ {"section"}) \cup (IF desc = "file" THEN {"dup"} ELSE {})
          /\ stage' = "built"
     ELSE /\ live' = live \ {"view", "section"}
          /\ stage' = "err"
  /\ UNCHANGED <<desc, mmap_size, rangeVars>>

\* msync or range_end on the built mapping.
UseMapping ==
  /\ stage = "built"
  /\ Range!Next
  /\ UNCHANGED <<desc, stage, live>>

Next ==
  \/ \E ok \in BOOLEAN : Construct(ok) \/ CreateFileMapping(ok) \/ MapView(ok) \/ Wrap(ok)
  \/ UseMapping

Spec == Init /\ [][Next]_vars

-----------------------------------------------------------------------------
TypeOK ==
  /\ desc \in BuilderDescs \cup {"direct"}
  /\ stage \in {"construct", "create", "map", "wrap", "built", "err"}
  /\ live \subseteq {"section", "view", "dup"}
  /\ Range!TypeOK

(* Whatever step of build fails, no kernel object it opened stays open,   *)
(* and a built mapping holds exactly its view and, for a file, the        *)
(* duplicated file handle: the temporary section handle is always closed. *)
NoLeakedHandles ==
  /\ stage = "err" => live = {}
  /\ stage = "built" => live = {"view"} \cup (IF desc = "file" THEN {"dup"} ELSE {})

(* The range checks of the built mapping (see MmapRange).                 *)
RangeChecksMatchReference == Range!RangeChecksMatchReference
=============================================================================
