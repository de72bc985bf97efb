# Formal models of Trex's native layer

This directory holds TLA+ models of the C++ side of Trex. The sources are in `src/trex/android/src/main/cpp/`:

- `elf_img.cpp`: the ELF image loader and symbol resolver.
- `trex.cpp`: `JNI_OnLoad` and the JNI natives.
- `trex.h`: the page-protection macros and the global state.
- `log.h`: the logging macros.

Alongside the models are TLC configurations that check them on small instances, and TLAPS proofs of the main invariants for every value of the constants.

## The system

Trex removes synthetic frames from Java stack traces. It does this by hooking ART's internal `Throwable_nativeGetStackTrace`. The native side is a chain of parts:

1. **Runtime-layout dispatcher** (`JNI_OnLoad`, trex.cpp 129-289).
   - It reads the SDK level.
   - On 32-bit builds below L, it probes for `java/lang/reflect/ArtMethod` to tell ART from Dalvik.
   - It opens libart from one of three paths (R: `/apex/com.android.art`, Q: `/apex/com.android.runtime`, otherwise `/system`).
   - It searches the caller's frames for the class that declares `nHookNativeFunc`.
   - It registers three natives, or five on Dalvik.
   - It then resolves either the Dalvik helpers (with `dlsym`) or the ART internals (with `ElfImg`), the hook target, the global class reference and the proxy method ID.
2. **Binary image loader and symbol table resolver** (`ElfImg::Open`, elf_img.cpp 28-111).
   - It maps the whole file.
   - It walks the section headers once.
   - It fills the dynsym, string-table, symtab and `.strtab` slots.
   - It computes the load bias from the first `SHT_PROGBITS` section that follows both a dynsym and a string table. The value -4396 stands for "unset".
3. **Address resolver** (elf_img.cpp 125-204).
   - `GetSymbolOffset` searches `.dynsym` first, then `.symtab`; in `.symtab` it only accepts sized functions.
   - `GetSymbolAddress` returns `base + offset - bias`.
   - `GetModuleBase` scans `/proc/self/maps` for the first line that names the library and has mode `r-xp` or `r--p`.
4. **Protection manager** (`_make_rwx`, trex.h 44-57). It makes the target page(s) RWX before patching. It adds an extra page when the aligned end differs from the aligned start.
5. **Interception installer** (`Hook`, trex.cpp 27-31, and `nHookNativeFunc`, 57-62).
   - A Java thread calls `nHookNativeFunc`.
   - If the target pointer is non-null, the native hooks it with DobbyHook and then clears the pointer.

6. **Replacement and query natives.**
   - `ReplaceNativeGetStackTrace` (trex.cpp 40-48) is the detour. Once it is installed, every `Throwable.getStackTrace` on every thread calls the origin trampoline and then the Java proxy, through `trex_android_class` and `get_proxy_stack_trace_mid`.
   - `nDumpThrowable` (50-55) and `nGetSourceFile` (64-69) call ART functions that `ElfImg` resolved, after a null check.
   - `nGetDvmDescriptor` (75-111) and `nGetDvmMethod` (113-116) are registered on Dalvik only.

How the parts interact:
- `JNI_OnLoad` uses `ElfImg` to resolve the ART symbols and the hook target.
- `RegisterNatives` makes the natives callable from Java.
- `nHookNativeFunc` calls `Hook`, which runs `_make_rwx` and then DobbyHook.
- From then on the detour runs on every thread.

## Modules

| module | models | state ↔ code |
|---|---|---|
| `ElfImg` | `ElfImg::Open`, `~ElfImg`, `GetSymbolOffset`, `GetSymbolAddress`, `GetModuleBase` | see below |
| `MCElfImg` | model-checking instance | sections built from a few kinds |
| `ElfImgProofs` | TLAPS proofs for `ElfImg`: type, bias | |
| `ElfLookupProofs` | TLAPS proofs for `ElfImg`: the lookups and addresses | |
| `TrexInit` | `JNI_OnLoad`, `nHookNativeFunc`, `Hook`, the detour and the query natives | see below |
| `MCTrexInit` | model-checking instance | SDK levels on both sides of every threshold |
| `TrexInitProofs` | TLAPS proofs for `TrexInit` | |
| `Protect` | `_make_rwx` and its helper macros | see below |
| `MCProtect` | model-checking instance | a 20-bit address space |
| `ProtectProofs` | TLAPS proofs for `Protect` | |

### ElfImg

**Data abstraction.**
- An image is a sequence of section headers in file order, leaving out the `SHT_NULL` header.
- Each header records:
  - its type (`DYNSYM`, `SYMTAB`, `STRTAB`, `PROGBITS`, other);
  - its name, as `strcmp` against `.symtab` / `.strtab` sees it;
  - its delta `sh_addr - sh_offset`;
  - its symbols (name index, value, function type, non-zero size);
  - for string tables, the name at each index.
- Pointers into the mapping become section indices; 0 stands for `nullptr`.

**State.** The variables `dynsym`, `strtab`, `symtab`, `symstr`, `bias` and `base` are the fields of the same names. `i` is the loop index of `Open`, and `line` is the `fgets` loop of `GetModuleBase`.

**Actions.**
- `OpenMissing`: `open` fails.
- `OpenMapFailed`: `mmap` returns `MAP_FAILED`, which is dereferenced unchecked; the model goes to `pc = "crashed"`.
- `OpenMapped`.
- `MapsOpenFailed`: `fopen("/proc/self/maps")` returns NULL (elf_img.cpp 185-186). `fgets` is called on it unchecked, so the model goes to `pc = "crashed"`. The constant `MapsFail` enables this step.
- `ScanSection`: one loop iteration, with the whole `switch`, through `ScanDynsym`, `ScanSymtab`, `ScanStrtab` and `ScanProgbits`.
- `ScanEnd`: the call of `GetModuleBase` at the end of `Open`.
- `ModuleBaseFound`, `ModuleBaseSkip`, `ModuleBaseNotFound`: one step per `fgets`.
- `Destroy`: the destructor.

**Lookups.** The lookups are `const` methods, so they are operators over the state (`GetSymbolOffset(n)`, `GetSymbolAddress(n)`).

**What the file means.** A second set of operators states this independently of the scan:
- `RefOffset`: `.dynsym` names are read through `.dynstr` (its `sh_link`), and `.symtab` names through `.strtab`.
- `LoadAddr`: the first mapping of the library.
- `LoadBias`: the delta of the first allocated section.
- `RefBias`: the rule of spec §4.2 stated over the whole file.
- `RefDynHits` / `RefSymHits`: the entries with a given name in each table.

### TrexInit

**JNI_OnLoad.** One action per phase, and one per iteration of the frame loop:
- `GetEnvFailed` (131-132)
- `ProbeAndOpen` (135-158)
- `SearchStart` (160-181 on 64-bit: `JNI_ERR` when `Throwable_nativeFillInStackTrace` does not resolve; 199-211 on 32-bit)
- `FrameMatch`, `FrameNext`, `FramesExhausted`: the loop over the frames (184-195 / 212-231).
  - The class that declares the natives sits at index `classAt`, or nowhere (`-1`).
  - Init lets `classAt` be any slot a frame can occupy.
  - `TraceLen` is the array length: on 64-bit it is `Depth` frames plus the method/dex-pc array.
  - `FirstFrame` and `FrameLimit` are the loop's start and bound. On Lollipop the array is last, and `len--` drops it. From M on it is first, and the loop starts at 1.
- `RegisterNatives` (237-247)
- `DvmSetup` (249-269)
- `ResolveArt` (271-278)
- `SetProxy` (280-288)

Each resolved pointer is abstracted to "non-null or not", chosen nondeterministically. `ElfImg` is verified on its own.

**Java threads.** Each action is a step of thread `t`. `calls[t]` bounds the calls a thread makes (`MaxCalls`).
- `HookCall`: read the pointer (57-58).
- `HookInstall`: `Hook` (27-31, line 59). DobbyHook either installs the detour and writes the origin slot, or fails and changes nothing. `INLINE_HOOK` discards the result.
- `HookClear`: clear the pointer (60).
- `DumpThrowable`, `GetSourceFileCall`, `GetDvmDescriptor`: the query natives, each with its null checks.
- `StackTrace`: `Throwable.getStackTrace` on any thread. Once hooked, it runs the detour.
- `CallThrough(fs)`: a call through the functions `fs`. It sets the fault flag `nullCall` if any of them is null.

`NativesCallable` says when Java can call the natives: after `RegisterNatives` and after `JNI_OnLoad` returned. The second half is the environment's calling discipline, not Trex code: spec §5 makes initialisation single-threaded, and `System.loadLibrary` returns only after `JNI_OnLoad` has.

`SetProxy` sets the proxy method ID unconditionally. `GetStaticMethodID` at lines 282-285 is not checked, and the Java class that declares `proxy` is not in this repository, so the model takes it to exist.

### Protect

**Definitions.** `Wrap`, `PageAlign`, `PtrAlign` and `ProtLen` are the macros of trex.h, computed in `uintptr_t` arithmetic modulo `Size`.

**Action.** `MakeRwx` is the call in `Hook`.

## Runs

| run | cfg | expect | what it shows |
|---|---|---|---|
| `elf_resolve` | `MCElfImg.cfg` | pass | See below. |
| `elf_no_rodata` | `MCElfImg_NoRodata.cfg` | violation | With `.text` as the first `PROGBITS` after the tables, the bias is the executable segment's. Every address is then off by the gap between segments (elf_img.cpp:100). |
| `elf_no_prog_after` | `MCElfImg_NoProgAfter.cfg` | violation | With no `PROGBITS` section after the tables, the -4396 sentinel is subtracted. Spec §4.2 says "treated as zero". |
| `elf_early_strtab` | `MCElfImg_EarlyStrtab.cfg` | violation | The string-table slot is not "first encounter": `.dynstr` after `.shstrtab` overwrites it (elf_img.cpp:87). |
| `elf_map_failed` | `MCElfImg_MapFailed.cfg` | violation | `MAP_FAILED` is dereferenced. Spec §4.1 says the image is left empty. |
| `trex_lp32` | `MCTrexInit32.cfg` | pass | See below. |
| `trex_lp64` | `MCTrexInit64.cfg` | pass | The same checks, except `DalvikNeverTouchesArt`, on 64-bit builds. Covers the Lollipop and M+ backtrace layouts and the `JNI_ERR` path. |
| `elf_maps_unreadable` | `MCElfImg_MapsUnreadable.cfg` | violation | A failed `fopen` of `/proc/self/maps` is passed to `fgets` (elf_img.cpp:185). |
| `protect_range` | `MCProtect.cfg` | pass | The `_make_rwx` range covers the span for targets at and around page boundaries, including the last page, where the aligned end wraps to 0. |

`elf_resolve` checks every linker layout whose first segment has a `PROGBITS` section after the dynamic tables. Over those layouts it shows:
- `BiasFromFirstQualifying`: the bias is the first qualifying delta.
- `LookupCorrect`: every lookup returns the file's symbol value. The lookups include names that exist only in `.symtab`, behind an object entry, a zero-size entry and a hidden entry with the same name, and names that do not exist.
- `AddressCorrect`: every address equals `LoadAddr + value - LoadBias`.

The layouts of `elf_resolve` satisfy the layout predicates of `ElfImg` (`WellLinked`, `BiasInFirstSegment`, `LibListed`); `MCElfImg` states this as `MCLayoutAssumption`, which TLC evaluates on every run. The violation runs use layouts that break one of them: `elf_early_strtab` breaks `WellLinked`, and `elf_no_rodata` and `elf_no_prog_after` break `BiasInFirstSegment`. These are the hypotheses of the theorems in `ElfLookupProofs`.

The run sets `MapsFail = TRUE`, so the `fopen` failure is also reachable. The properties hold in that state too: they speak only of a `ready` image.

`trex_lp32` covers 32-bit builds at SDK 18, 19, 21, 23, 29 and 30, with and without `ArtMethod`, and with the class at every index of a 3-frame trace or absent. It shows:
- `SearchFindsClass`: the frame loop finds the class exactly when a frame holds it.
- `DalvikNeverTouchesArt`: on Dalvik, no libart is opened, no ART symbol is resolved, nothing is hooked, and five natives are registered.
- `NoNullCall`: whatever ElfImg resolves, no native and no detour calls through a null pointer or an unset class or method ID.
- `HookAtMostOnce`: a single caller hooks at most once.
- `OnLoadReturns`: under the fairness below, `JNI_OnLoad` always returns.

Every property of a passing run has a mutant: a plausible bug in the definition it is about, under which TLC finds the property violated. The mutants are listed in `PROJECT.json`. For example:
- `ScanProgbitsLast` lets a later `PROGBITS` section overwrite the bias;
- `ScanStrtabUnguarded` keeps overwriting the string-table slot after the bias is set;
- `ProtLenNoExtra` drops the boundary page;
- `HookClearKeep` does not clear the pointer;
- `FrameLimitShort` stops the frame loop one element early;
- `FrameNextStuck` does not advance the loop index, so `OnLoadReturns` fails;

### Bounds and why they suffice

**ElfImg.**
- Images have 5-10 sections. They are built from `.note`, `.dynsym`/`.dynstr` in both orders, an optional `.rodata`, `.text` and an optional `.data`. Then comes every ordering of every subset of {`.symtab`, `.strtab`, `.shstrtab`}.
- Each of those three tables maps the symbol name indices to different names than `.dynstr` does, so reading a name through the wrong table changes a lookup's result.
- There are two load biases (0 and 4 pages).
- Three maps listings are used: another library first, then r--p/r-xp/rw-p lines of the library; the library starting at r-xp; and no line for the library.
- These bounds cover every order in which the `switch` can meet the tables, and every branch of the lookups.

**TrexInit.**
- Every SDK threshold that `JNI_OnLoad` compares against has a value on each side of it.
- One caller. Spec §5 says the installer must not be invoked from several threads; with two callers `HookAtMostOnce` fails, as the code takes no lock by design.
- Each thread makes at most 2 calls (`MaxCalls`). A third call changes nothing once the pointer is cleared.
- The trace depth is 3 (`Depth`). The class can then be in the first slot, the last slot, a middle slot or none. On 64-bit it can also sit next to the method/dex-pc array at either end, which is where an off-by-one in the start or the bound shows.

**Protect.**
- TLC's integers are 32-bit signed, so the address space is 2^20 rather than 2^32. The carry out of the top is the same.
- The targets sit at offsets 0, 1, 2048, 4080 and 4095 within the first two and the last two pages.
- The lengths are 1, 16, 4095, 4096, 4097 and 8192.

### Fairness

`FairSpec` adds two fairness conditions:
- `WF_vars(LoadStep)`: `JNI_OnLoad` runs on the thread that called `System.loadLibrary`. It takes no lock and, in the model, makes no blocking call, so it keeps taking steps.
- `WF_vars(HookInstall(t) \/ HookClear(t))` for each thread: a thread inside `nHookNativeFunc` finishes the call.

Java threads need not call at all, so `HookCall` and the query natives have no fairness.

The ElfImg and Protect runs set `CHECK_DEADLOCK FALSE`, because their sequences end: the section loop and the maps scan end. The TrexInit pass runs set it too, because the bounded calls run out.

## Proofs (TLAPS)

**`ElfImgProofs`**
- `TypeCorrect`: `Spec => []TypeOK`. Type correctness is proved rather than checked by the runs: no plausible bug in `elf_img.cpp` leaves the model's types.
- `BiasFromFirstQualifyingHolds`: `Spec => []BiasFromFirstQualifying`, for all images.
- The inductive invariant `IInv` adds to `TypeOK`:
  - the loop index is `Len(img) + 1` once the loop is over;
  - the state before `Open` is the initial one;
  - `BiasInv(i-1)`: after `i-1` sections, the bias is unset exactly when no qualifying section was seen, and otherwise it is the delta of the least one;
  - `SeenInv(i-1)`: the dynsym/strtab slots are non-null exactly when such a section was seen.
- `SeenInv` is needed because the `PROGBITS` guard reads the slots, not the prefix.
- `IInv` was model-checked as an invariant before it was proved.
- The step case `ScanSectionInv` rests on `QualifyingStep`: the qualifying set grows by at most the new index.

**`ElfLookupProofs`** (for all images, listings and names that satisfy the layout hypotheses)
- The hypotheses are stated on the constants:
  - `Linked`: every image is `WellLinked`. It has one `.dynsym`, one `.dynstr`, at most one `.symtab` and one `.strtab`, and no string table other than `.dynstr` before the first qualifying `PROGBITS` section. This is how linkers lay out a shared object: the non-allocated `.shstrtab`, `.symtab` and `.strtab` come last.
  - `BiasFirst`: every image satisfies `BiasInFirstSegment`. The first qualifying `PROGBITS` section (a `.rodata` or `.eh_frame` after `.dynstr`) lies in the first loadable segment, so its delta is that of `img[1]`.
  - `Listed`: every listing satisfies `LibListed`. No other mapping's path contains the library's path, and the library's first mapping is `r--p` or `r-xp`.
- `LookupCorrectHolds`: `Linked` implies `Spec => []LookupCorrect`.
- `AddressCorrectHolds`: `Linked`, `BiasFirst` and `Listed` together imply `Spec => []AddressCorrect`.
- The inductive invariant `LInv` adds `SlotInv(i-1)` to `IInv`. `SlotInv` says each slot that is set points at a section of its kind; `strtab_start` points at `.dynstr`; and the static slots are set exactly when such a section was among the first `i-1`.
- The `STRTAB` step is the heart of the proof. `strtab_start` is written only while the bias is unset. By `BiasInv`, no qualifying section has been seen yet (`UnsetBiasNoQualifying`), so `WellLinked` makes the section `.dynstr`.
- After the loop, `DynsymSet` and `SymtabSet` identify each slot with the one section of its kind. `DynRef` and `SymRef` then turn the reference hits into the hits of those tables.
- `FirstHitOneTable` shows that the least pair of one table is the least entry index. It rests on `NatHasLeast`, which obtains the least element of a non-empty set of naturals from `WFMin` of `WellFoundedInduction`, with `<` on `Nat` as the well-founded relation. No induction with an operator parameter is needed.
- `BaseInv` describes the `fgets` loop: the lines before the current one were rejected. Once the loop returns, `base` is the start of the first accepted line, or null. `BaseIsLoadAddr` uses `LibListed` to make that line the library's first mapping.
- `BiasIsLoadBias` uses `BiasInFirstSegment` to make the bias the load bias.
- `LInv /\ BaseInv` was model-checked on `elf_resolve` before it was proved.

**`ProtectProofs`**
- `CoversHolds`: `Spec => []Covers` for every `Size` that is a multiple of 4096 and every target and length of the assumption `ProtectAssumption`.
- The argument is `RangeCovers`. It splits on whether the aligned end differs from the aligned start:
  - If it differs, the extra page absorbs the at most 4095 bytes before the target.
  - If it does not, the span ends in the target's page. In the last page, the end wraps to 0, and that case is handled separately.
- The lemmas `WrapOnce`, `PageAlignSmall` and `PageAlignType` bound the modular arithmetic.

**`TrexInitProofs`** (for every build, SDK set, trace depth, thread set and call bound; `ConstAssumption`)
- `TypeCorrect`: `Spec => []TypeOK`, proved rather than checked by the runs. The step lemma has one case for each of `LoadStep` and `ThreadStep(t)`, split per action.
- `NoNullCallHolds`: `Spec => []NoNullCall`, for any thread set.
  - The inductive invariant `NullInv` adds three facts:
    - a hook implies the origin slot and the proxy are set;
    - a thread inside `nHookNativeFunc` implies the proxy is set and loading is done;
    - a non-null target pointer implies `JNI_OnLoad` has reached the proxy step, and implies the proxy once loading is done.
  - It is needed because `NoNullCall` alone says nothing about the state in which the detour is installed.
- `DalvikNeverTouchesArtHolds`: `Spec => []DalvikNeverTouchesArt`. It uses `DalvikInv`: before the probe the state is clean, and after a Dalvik probe it stays clean with 0 or 5 natives.
- `HookAtMostOnceHolds`: `Spec => []HookAtMostOnce` for a single calling thread (`Threads = {t0}`). `OnceInv` ties the hook count to the thread's position and to the pointer: once hooked and idle, the pointer is null.
- `SearchFindsClassHolds`: `Spec => []SearchFindsClass`. The lemma `SlotsAreLoopRange` shows that the loop's bounds `FirstFrame .. FrameLimit - 1` are exactly the frame slots `ClassSlots` of every layout: 32-bit, 64-bit Lollipop and 64-bit Marshmallow and later. `SearchInv` adds that the class is not found while the search runs, and that the loop has not passed the class's slot.

Each inductive invariant was model-checked with TLC before it was proved.

**What the proofs do not cover.**
- `LookupCorrect` and `AddressCorrect` are proved only under the layout hypotheses. Without them they are false, as the violation runs show, so they are not weakened further.
- `OnLoadReturns` is only model-checked. Liveness and `ENABLED` are outside TLAPS's reach.
- `HookAtMostOnce` is proved for one calling thread only, the use spec §5 allows. With two threads it is false.

## Not modelled

- **String contents and lengths**, including the 1024-byte `sprintf` buffer in `nGetDvmDescriptor` (trex.cpp:105).
- **Memory-safety details of malformed ELF files**, for example `sh_entsize` = 0, and a delta equal to the -4396 sentinel, which `ImagesAssumption` excludes.
- **mprotect's effect** on the mappings, and its ignored result (trex.cpp:28).
- **`nGetDvmMethod`**: it converts a pointer and changes no state.
- **The Dalvik struct layouts**: byte offsets, not behaviour.
- **A look-alike library path** (elf_img.cpp:187): `strstr` also matches a mapping such as `/data/local/tmp/system/lib64/libart.so`. Spec 4.3 asks for substring matching, so the runs give it a single matching path, and `AddressCorrectHolds` assumes it through `LibListed`.
- **Logging**: pure output.
