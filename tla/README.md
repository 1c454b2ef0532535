# TLA+ models of the turbo-emulator RISC-V interpreter

This directory holds TLA+ models of the RISC-V interpreter core in
`src/emulation/src/riscv/interpreter/main.rs`. They are checked with TLC. The
remaining files under `src/` are host-side helpers. Two of them are modelled:
the zero-fill write and the Windows mmap range checks. The others are listed at
the end.

## The system

`RiscvInt` is one hart. `run()` loops forever and hands control to one of two
execution loops:

- **Block cache** (`exec_cached_int`). It translates the pc
  (`virt2phys`) and looks for a block that begins at that physical address
  (`check_block`: a list per physical page). If none exists it decodes one
  (`build_exec`: from the address to the end of the page, stopping after a
  jump, xRET or ecall), then runs the block's instructions (`exec_block_inner`)
  until one sets `stop_exec`. A 32-bit instruction that may cross the page
  (`max_count < 4`) is executed once through the uncached loop, with the cache
  disabled.
- **Uncached loop** (`exec_one_by_one`). It fetches with `read32(self.pc)`
  and runs one instruction at a time until `stop_exec`.

Instruction handlers communicate with `run()` through fields:

- a jump or xRET writes `want_pc` and sets `stop_exec`;
- an exception calls `set_trap`, which records `trap`, `trap_pc = pc` and
  `stop_exec`;
- a fetch fault is returned as `Err` and stored into `trap` by `run()`.

After a loop returns, `run()` does the following, in order:

1. drains the trap. In system mode it calls `handle_trap`, which delegates
   through medeleg/mideleg and writes xepc, xcause, xtval and xstatus. In user
   mode an `ecall` becomes a host syscall (`handle_syscall`) and any other trap
   panics;
2. polls the thread-local `SIGNAL_AVAIL`, which the host's signal handler sets
   at any time, and calls `setup_rt_frame`;
3. commits `want_pc`;
4. clears `stop_exec`.

The interaction that matters is that state written by one step is consumed
several steps later by another: `trap_pc`, `want_pc`, `SIGNAL_AVAIL`, the
cached blocks and `cache_enabled`.

## Modules

| Module | Models | Source |
|---|---|---|
| `RiscvTrap` | trap state (pc, privilege, the 12 trap CSRs); `HandleTrap` = `handle_trap` + `change_priv`, split into `DelegatesToS`, `SStatusOnTrap`, `MStatusOnTrap`; `Mret`/`Sret` | main.rs 150-212; xRET from the ISA |
| `TrapEngine` | the trap engine as a component: arbitrary traps delivered at arbitrary privilege (`Deliver`), `MretStep`, `SretStep`; a reference `RefTrap` written from the privileged ISA | main.rs 477-484 |
| `RiscvProgram` | guest RAM (`Mem`, a variable fixed in `Init` to one of the constant set `Programs` and never changed, since stores are not modelled) as a map from even physical address to a *parcel* (the instruction starting there, or `"hi"` for the upper half of a 32-bit one), page size, page table, `Phys` (= `virt2phys` for fetch) | spec (memory/decoder are not under src/) |
| `RiscvIsa` | the **abstract specification**: one architectural instruction per step, fetch through the page table, fetch fault, trap, xRET | spec |
| `UserIsa` | the **abstract specification** of user mode: a Linux process. One instruction per step; an ecall is a syscall that returns to the next instruction (exit ends the process; rt_sigreturn resumes at the last saved frame); any other trap is fatal; a signal is delivered between two instructions (`Deliver`), or right after one (`ExecuteThenDeliver`), saving the pc to resume at | spec 4.4, 4.6, 4.7 |
| `RiscvHart` | the interpreter: `CachedIter` (one iteration of `exec_cached_int` up to running a block), `BlockStep` (one instruction in `exec_block_inner`), `UncachedStep` (one iteration of `exec_one_by_one`), `Post` (the rest of `run()`, with `HandleSyscall` for the control effect of `handle_syscall`), `SignalArrive` (the host signal handler) | main.rs 23-128, 270-542 |
| `WriteZeroes` | `file_write_zeroes_at`. The file is reduced to the set of zeroed positions. Actions: `FallocateOk`/`FallocateFails`, `WriteAt(n)` (the call), `AddWritten` (`nwritten += n`), `WriteAtFails`, `LoopDone`. | write_zeroes.rs 14-32 |
| `MmapRange` | `CheckedAdd` at W bits, `ValidateIncludesRange`, `Msync` (flush may fail), `RangeEnd` | mmap.rs 74-109, 166-172 |
| `WinMmap` | `MemoryMappingBuilder::build`/`wrap` composed with `MmapRange`. `desc` is the builder's descriptor (none, a mapping handle, a file). `live` is the set of kernel objects the call holds open (section handle, view, duplicated file handle). Actions: `Construct(ok)` (the direct `MemoryMapping` constructors), `CreateFileMapping(ok)`, `MapView(ok)`, `Wrap(ok)`, each able to fail, and `UseMapping` (one `MmapRange` step on the built mapping). | mmap.rs 127-165, 214-303 |
| `MCHart`, `MCTrapEngine` | the model programs, page tables and CSR setups; `MCHart` also instantiates `RiscvIsa` with the refinement mapping | — |

### How the state of `RiscvHart` maps to the code

- `pc`, `want_pc` (`NoPc` = `None`), `prv`, `csr`, `trap` (`NoTrap` = `None`),
  `trap_pc`, `stop_exec`, `cache_enabled` and `instr` (physical page → list of
  blocks) are the `RiscvInt` fields with those names.
- `blk`/`bidx` are the block and the instruction `exec_block_inner` is at.
- `loc` is the loop the hart is in, and `via` is the loop `run()` called.
- `fate` records why the process stopped: a panic or the guest's exit.
- `sig_avail` is `SIGNAL_AVAIL`, and `sig_frames` holds the return pcs that
  `setup_rt_frame` saved.
- `sigs_raised` counts host signals, bounded by `MaxSignals`.

Registers are not modelled. A jump's target and a syscall number (a7) are
carried by the parcel. No property depends on register values.

Instruction handlers and the decoder are not under `src/`. `Handler` models
them from the spec, covering only what they write to the hart (`want_pc`,
`stop_exec`, `set_trap`, the xRET CSR updates).

### Refinement

`MCHart` defines `Isa == INSTANCE RiscvIsa WITH pc <- ArchPc`.

`ArchPc` is the pc the hart is at architecturally:

- `trap_pc` while a trap is pending;
- otherwise `want_pc` while a jump is pending;
- otherwise `pc`.

Every interpreter step is then either one ISA step or a stutter: building a
block, `run()` committing `want_pc`, or leaving the loop.

In user mode, `MCHart` also defines
`UIsa == INSTANCE UserIsa WITH pc <- ArchPc, frames <- sig_frames, halted <- (loc = "halt")`.
A syscall pending in `trap` is architecturally at its ecall. `Post` then
performs it in one step. When a signal is polled in the same pass, that one
step is an instruction followed by a delivery (`ExecuteThenDeliver`).

`hart_signal` finds this refinement broken by the signal/`want_pc` ordering.
As a check on the mapping, moving the poll after the `want_pc` commit makes
`UserIsaSpec` hold on the `hart_user` configuration (2688 states). No run is
kept for that modified model.

## Runs

| Run | cfg | Expect | What it shows |
|---|---|---|---|
| trap_engine | MCTrapEngine.cfg | pass | For every exception code in the set, from U/S/M and with every firmware CSR setup in the set, `handle_trap` computes exactly the ISA's trap entry (`TrapMatchesReference`). xRET after a trap restores privilege, pc and xIE (`TrapReturnRestores`). |
| trap_intr | MCTrapEngineIntr.cfg | violation | Interrupts: xcause loses the interrupt bit. |
| hart_sys | MCHartSys.cfg | pass | System mode, identity translation, cache on or off at entry, over `SysFamily`: the hand-written `SysProg` (M→U via mret, a page-straddling 32-bit instruction, a load fault delegated to S, jal, ecall back to M, mret) and 540 generated programs. The interpreter refines `RiscvIsa` (`IsaSpec`) on every one of them, and every cached block lies within its page (`BlockWithinPage`). |
| hart_user | MCHartUser.cfg | pass | User mode over `UserFamily` (145 programs, see Bounds), with up to 2 host signals arriving at any time. Each signal is eventually taken (`SignalEventuallyDelivered`). A syscall other than exit and rt_sigreturn resumes at the instruction after its ecall, or saves that address in the signal frame when a signal is polled in the same pass (`SyscallResumesAfterEcall`). The interpreter never livelocks: the process either ends or `UserIsa` steps happen infinitely often (`ProcessProgress`). The family puts a 32-bit instruction across a page end, so this rests on the page-crossing fallback stepping that instruction before it returns. Deadlock is not checked: exit and a fatal user trap end the process. |
| hart_signal | MCHartSignal.cfg | violation | The hart does not implement `UserIsa` (`UserIsaSpec`). A signal polled while `want_pc` is pending saves the pc after the jump in its frame, and the `want_pc` commit then overrides the handler pc. |
| hart_fetch_fault | MCHartFetchFault.cfg | violation | An instruction page fault is delivered with a stale `trap_pc` as xepc. |
| hart_illegal | MCHartIllegal.cfg | violation | An illegal instruction panics the emulator instead of trapping. |
| hart_paged | MCHartPaged.cfg | violation | With a non-identity page table (`SwapProg`, cache off), U code at virtual page 1 runs the instruction of physical page 1 instead of page 3: `exec_one_by_one` fetches the virtual pc as a physical address (main.rs 515), breaking `IsaSpec`. |
| hart_build_fault | MCHartBuildFault.cfg | violation | A fetch from a page mapped outside RAM panics at `check_block(..).unwrap()`: the `build_exec` error is dropped. |
| write_zeroes | MCWriteZeroes.cfg | pass | `file_write_zeroes_at`: fallocate succeeding or failing, and `write_at` making short progress or failing. Nothing outside the range is written, the whole range is zero when `Ok` is returned (`ZeroesExactlyRange`), and the call returns (`Terminates`). |
| write_zeroes_stall | MCWriteZeroesStall.cfg | violation | A `write_at` that returns `Ok(0)` makes the loop spin forever. |
| win_mmap | MCWinMmap.cfg | pass | `build`, or a direct `MemoryMapping` constructor, with any of its Win32 calls failing: an error leaves no kernel object open, and a built mapping holds exactly its view and, for a file, the duplicated handle, so the temporary section handle is always closed (`NoLeakedHandles`). Then, for a 4-bit usize and every offset and length on mappings of size 0, 5 and 15, `msync` and `range_end` accept exactly the in-bounds ranges, overflowing sums included (`RangeChecksMatchReference`). |

Each violation is recorded as a finding in `PROJECT.json`, with the line it
comes from.

### Bounds and why they suffice

Pages are 8 bytes, and RAM is 3–4 pages. That is enough to place:

- a compressed instruction and a 32-bit instruction in one page;
- a 32-bit instruction in the last 2 bytes of a page, which exercises both the
  `max_count < 4` fallback and `build_exec`'s own break;
- blocks that end in a jump, and blocks that end at the page end.

The CSR setups in each set vary the bits that handle_trap reads:

- medeleg with and without the delegated causes;
- MPP U and M;
- MIE, SIE and the tvec mode bit.

Cause codes stay below 31 because TLC integers are 32-bit. Every code that
handle_trap treats differently still occurs: delegated, not delegated, and an
ecall from each privilege.

The program family of `hart_sys` (`FamilyProgs` in `MCHart`) fills the first
16 bytes slot by slot. Each slot holds one of the few instructions that matter
there:

- byte 0: a compressed instruction, or a compressed jump to 6 or 10;
- byte 2: a 32-bit addi, lw, ecall or jal;
- byte 6: a 32-bit addi straddling the page boundary at 8, or a compressed
  pair with a jump back to 0 or 2;
- byte 10: a compressed instruction, or a jump back across the page to 2 or 6;
- byte 12: jal, ecall, mret or sret, the last instruction of the second page.

A fixed S-mode handler follows at 16–30. So every block shape occurs, from
every entry the jumps produce: blocks of 1 to 4 instructions, ending at a jump, at a
trap-raising instruction or at the page end, with 32-bit instructions both
inside a page and straddling one. Each shape is combined with each CSR setup
and with the cache on and off. The family leaves out what the violation runs
show failing (an undecodable parcel, a fetch at the end of RAM), so that the
run checks the rest.

The user-mode family (`UserFamily`) is `UserProg` plus a 3-page skeleton
with holes:

- byte 0: a compressed instruction, or a jump to 6;
- byte 2: a write, exit or rt_sigreturn ecall (the last with no frame to
  return to when no signal is pending), or a jal to 10;
- byte 6: a 32-bit addi straddling pages 0 and 1, a compressed loop back to
  0, or a fatal load;
- byte 10: the closing jump, to 0, 2 or 6.

The signal handler at 12 calls rt_sigreturn at once, or calls write first.
Compressed parcels fill the rest of RAM.

So a signal can arrive:

- before a syscall, a jump, a straddling instruction or a fatal trap;
- inside the handler;
- just before the process exits.

An rt_sigreturn can also come from the main loop while a frame is pending.

`MaxSignals` = 2 lets a second signal arrive while the first one's handler runs.

### Fairness

`Spec` has weak fairness on `HartStep`. The hart is one thread. It never blocks,
because `wfi` is not reachable: no modelled instruction sets it, and `run()`
would hit `unimplemented!()` on it. So it always takes its next step.

`SignalArrive` has no fairness: the host need not raise signals.

`WriteZeroes` assumes weak fairness on `Next`: one thread runs the call until
it returns. The kernel's answers are free choices. `MinWrite` = 1 in the
passing run says that a successful `write_at` makes progress. `MinWrite` = 0
(the stall run) allows `Ok(0)`. `write_at` and the `+=` are separate steps, so a
loop that keeps receiving `Ok(0)` is a real cycle rather than stuttering.

`ProcessProgress` uses the same weak fairness on `HartStep`. Any program the hart runs forever must show infinitely many `UserIsa` steps. Building a block, committing `want_pc` and leaving a loop are stutters of `UserIsa`, and none of them may repeat forever. The property is checked in user mode and not on the system-mode family. Checking it needs TLC to evaluate `ENABLED HartStep` in every state, and `Post` and the bitwise CSR updates of `HandleTrap` make that cost about 60 times the state count on the 87,000 states of `hart_sys`.

`WinMmap` has no fairness and no deadlock check. `build` returns: its `err` state is final, and so is a built mapping on which nobody calls `msync` or `range_end`.

In `MmapRange`, a 4-bit usize is enough to reach every case of the check:
overflow, a sum exactly at the size, one past it, and an empty mapping.

## What is not modelled, and why

- General registers, floating point, LR/SC reservation, `is_compressed` (it
  only feeds link-register values), and `regs[0] = 0`. No property depends on
  register values.
- `mstatus_fixup` and `flush_mstatus`. `flush_mstatus` is empty. `mstatus_fixup`
  is private to `interpreter::main` and nothing there calls it, so no write
  of `mstatus` under `src/` applies the fixup that spec §4.5 asks for. The
  upper half of `mstatus` (SXL/UXL, SBE/MBE) is never written and stays zero.
  The model keeps the lower 31 bits only.
- Unknown syscall numbers. `riscv_translate_syscall` is not in the
  repository, so whether its `unwrap()` (main.rs 431) can panic is not known
  (hazard without a property). The truncation `a7 as u16` before the lookup
  is modelled in `SyscallNum`.
- The `UsermodeCpu` struct marshalling (`write_stat_t`, `write_sysinfo_t`,
  `get_sigaction`). This is data conversion with no control state.
- Stores, and therefore self-modifying code and cache invalidation. There is no
  `fence.i` flush under `src/`, and `check_block` returns a block decoded
  earlier (listed as a hazard without a property).
- The LR/SC reservation. `run()` does not clear `is_reservation` when it
  delivers a trap, but the LR/SC handlers are not under `src/` (hazard without a
  property).
- User-mode traps other than ecall. `run()` panics on them, and the spec makes
  that fatal by design. The model halts with fate `user_trap`.
- The Win32 calls themselves, and `read_to_memory`/`write_from_memory`. These
  are I/O. Only whether each call succeeds is modelled.
- `get_filesystem_type`, syslog, timer resolution, `blocking.rs` and
  `guest_memory/sys.rs`. These are I/O wrappers and re-exports.

What the map leaves out of `src/` is not state-changing control:

- imports, the `Error` and `ExitReason` enums, and the `Protection`
  conversions;
- the stubs that only `panic!()`, `todo!()` or `unimplemented!()`
  (`extension_verify`, `set_csr_raw`, most of `UsermodeCpu`);
- the XLEN helpers nothing under `src/` calls (`sign_ext`, `cull_reg`,
  `most_negative`, `mstatus_fixup`);
- delegations to `mmap_platform` (`read_to_memory`, `write_from_memory`,
  `from_raw_ptr`);
- the mmap tests, which exercise `data_model` slices that are not under
  `src/`;
- the I/O wrappers listed above.

Modelling any of these would add no state or control that a property could
tell apart.

## Plan for further work

0. A compressed instruction in the last two bytes of RAM is fetched by the
   uncached loop with `read32` (4 bytes) and faults (main.rs 515). `IsaSpec`
   is violated with `Programs <- EndProgs`, identity translation and the cache
   off. It is a separate defect from the `hart_paged` one on the same line and
   is not kept as a run of its own.
1. Interrupt delivery into the hart, once a source of interrupts is modelled
   (`wfi` and the external interrupt are outside `src/`).
2. Stores and `fence.i`, to check block invalidation against self-modifying
   code. This needs the store and `fence.i` handlers, which are not under
   `src/`.
