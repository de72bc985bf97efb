------------------------------- MODULE Protect -------------------------------
(***************************************************************************)
(* The Protection Manager: the _make_rwx macro of trex.h (lines 52-57)    *)
(* and the mprotect range it computes, as Hook() (trex.cpp lines 27-31)   *)
(* invokes it before DobbyHook patches the target.  Arithmetic is done in *)
(* uintptr_t, so every sum is taken modulo the size of the address space. *)
(* The page size is the literal 4096 of _page_size; the masks             *)
(* (x + 4095) & ~4095 and x & -4096 are x rounded up / down to a multiple *)
(* of 4096, written with %.                                                *)
(***************************************************************************)
EXTENDS Integers

CONSTANTS
    Size,       \* 2^(bits of uintptr_t)
    Targets,    \* addresses Hook() may be given
    Lengths     \* byte counts _make_rwx may be given (Hook passes _page_size)

\* _page_size (trex.h line 48).
Page == 4096

ASSUME ProtectAssumption ==
    /\ Size \in Nat /\ Size >= 2 * Page /\ Size % Page = 0
    /\ Targets \subseteq 0 .. (Size - 1)
    /\ Lengths \subseteq 1 .. (Size - 2 * Page)

\* Conversion to uintptr_t: arithmetic wraps at Size.
Wrap(x) == x % Size

\* _align_up(x, _page_size) on a uintptr_t (trex.h lines 46, 49).
PageAlign(x) == Wrap(x + (Page - 1)) - (Wrap(x + (Page - 1)) % Page)

\* _ptr_align(p): _align_down(p, _page_size) (trex.h lines 47, 50-51).
PtrAlign(p) == p - (p % Page)

\* Mutant of ProtLen: the boundary page is never added.
ProtLenNoExtra(p, n) == PageAlign(n)

\* The length argument of mprotect in _make_rwx (trex.h lines 53-56).
ProtLen(p, n) ==
    IF PageAlign(Wrap(p + n)) # PageAlign(p)
    THEN Wrap(PageAlign(n) + Page)
    ELSE PageAlign(n)

VARIABLES
    addr,       \* the address passed to Hook
    span,       \* the byte count passed to _make_rwx
    prot,       \* the range mprotect is asked for: [start, len]
    pc          \* "call" before _make_rwx runs, "patch" after

vars == <<addr, span, prot, pc>>

Init ==
    /\ addr \in Targets
    /\ span \in Lengths
    /\ prot = [start |-> 0, len |-> 0]
    /\ pc = "call"

\* _make_rwx(address, n): the range handed to mprotect.
MakeRwx ==
    /\ pc = "call"
    /\ prot' = [start |-> PtrAlign(addr), len |-> ProtLen(addr, span)]
    /\ pc' = "patch"
    /\ UNCHANGED <<addr, span>>

Next == MakeRwx

Spec == Init /\ [][Next]_vars

-----------------------------------------------------------------------------
TypeOK ==
    /\ addr \in Targets /\ span \in Lengths
    /\ prot \in [start : 0 .. (Size - 1), len : 0 .. (Size - 1)]
    /\ pc \in {"call", "patch"}

\* Spec 4.4: the range made writable covers every byte of
\* [address, address + length) whenever that span lies in the address
\* space, including a span that straddles a page boundary (the extra page
\* _make_rwx adds when the aligned end differs from the aligned start).
Covers ==
    pc = "patch" /\ addr + span <= Size =>
        /\ prot.start <= addr
        /\ addr + span <= prot.start + prot.len

=============================================================================
