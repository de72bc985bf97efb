---------------------------- MODULE ProtectProofs ----------------------------
(***************************************************************************)
(* Proofs about the Protection Manager, for every address-space size that *)
(* is a multiple of the page, every target and every length Protect       *)
(* allows: the range _make_rwx hands to mprotect has a type, and covers   *)
(* the span that is to be patched.                                         *)
(***************************************************************************)
EXTENDS Protect, TLAPS

USE ProtectAssumption DEF Page

\* A sum of two values below Size wraps at most once.
LEMMA WrapOnce ==
    ASSUME NEW x \in 0 .. (2 * Size - 1)
    PROVE  Wrap(x) = IF x < Size THEN x ELSE x - Size
<1>1. CASE x < Size
  BY <1>1 DEF Wrap
<1>2. CASE x >= Size
  <2>1. x - Size \in 0 .. (Size - 1)
    BY <1>2
  <2>2. x = (x - Size) + 1 * Size
    OBVIOUS
  <2>. QED
    BY <1>2, <2>1, <2>2 DEF Wrap
<1>. QED
  BY <1>1, <1>2

\* _align_up of a value below Size - Page does not wrap.
LEMMA PageAlignSmall ==
    ASSUME NEW x \in 0 .. (Size - Page)
    PROVE  /\ PageAlign(x) = (x + 4095) - ((x + 4095) % 4096)
           /\ x <= PageAlign(x)
           /\ PageAlign(x) < x + 4096
           /\ PageAlign(x) % 4096 = 0
<1>1. Wrap(x + 4095) = x + 4095
  BY WrapOnce
<1>. QED
  BY <1>1 DEF PageAlign

\* Every value _align_up returns lies in the address space.
LEMMA PageAlignType ==
    ASSUME NEW x \in 0 .. (2 * Size - Page)
    PROVE  PageAlign(x) \in 0 .. (Size - 1)
<1>1. Wrap(x + 4095) \in 0 .. (Size - 1)
  BY WrapOnce
<1>. QED
  BY <1>1 DEF PageAlign

\* The mprotect length is a uintptr_t value.
LEMMA ProtLenType ==
    ASSUME NEW p \in 0 .. (Size - 1), NEW n \in Lengths
    PROVE  ProtLen(p, n) \in 0 .. (Size - 1)
<1>1. n \in 0 .. (Size - Page)
  OBVIOUS
<1>2. PageAlign(n) \in 0 .. (Size - 1)
  BY <1>1, PageAlignType
<1>3. Wrap(PageAlign(n) + 4096) \in 0 .. (Size - 1)
  BY <1>2, WrapOnce
<1>4. CASE PageAlign(Wrap(p + n)) # PageAlign(p)
  BY <1>3, <1>4 DEF ProtLen
<1>5. CASE PageAlign(Wrap(p + n)) = PageAlign(p)
  BY <1>2, <1>5 DEF ProtLen
<1>. QED
  BY <1>4, <1>5

\* The heart of the matter: when [p, p + n) lies in the address space,
\* [PtrAlign(p), PtrAlign(p) + ProtLen(p, n)) contains it.
LEMMA RangeCovers ==
    ASSUME NEW p \in 0 .. (Size - 1), NEW n \in Lengths, p + n <= Size
    PROVE  /\ PtrAlign(p) <= p
           /\ p + n <= PtrAlign(p) + ProtLen(p, n)
<1>1. n \in 1 .. (Size - 2 * Page)
  OBVIOUS
<1>2. n <= PageAlign(n) /\ PageAlign(n) \in Int
  BY <1>1, PageAlignSmall
<1>3. PageAlign(n) + 4096 <= Size - 1
  BY <1>1, PageAlignSmall
<1>4. Wrap(PageAlign(n) + 4096) = PageAlign(n) + 4096
  BY <1>3, <1>2, WrapOnce
<1>5. PtrAlign(p) <= p /\ p - PtrAlign(p) <= 4095 /\ PtrAlign(p) \in Int
  BY DEF PtrAlign
<1>6. CASE PageAlign(Wrap(p + n)) # PageAlign(p)
  \* the extra page: at most 4095 bytes before p, plus the rounded span
  <2>1. ProtLen(p, n) = PageAlign(n) + 4096
    BY <1>6, <1>4 DEF ProtLen
  <2>. QED
    BY <2>1, <1>1, <1>2, <1>5
<1>7. CASE PageAlign(Wrap(p + n)) = PageAlign(p)
  \* p + n rounds up to the same boundary as p: the span ends in p's page
  <2>1. ProtLen(p, n) = PageAlign(n)
    BY <1>7 DEF ProtLen
  <2>2. p + n <= PtrAlign(p) + 4096
    <3>1. CASE p + n <= Size - Page
      <4>1. PageAlign(p + n) = (p + n + 4095) - ((p + n + 4095) % 4096)
        BY <3>1, PageAlignSmall
      <4>2. PageAlign(p) = (p + 4095) - ((p + 4095) % 4096)
        BY <3>1, PageAlignSmall
      <4>3. Wrap(p + n) = p + n
        BY <3>1, WrapOnce
      <4>. QED
        BY <1>7, <4>1, <4>2, <4>3 DEF PtrAlign
    <3>2. CASE p + n > Size - Page
      \* the last page: p + n rounds up to Size, which wraps to 0
      <4>1. PageAlign(Wrap(p + n)) = 0
        <5>1. CASE p + n = Size
          <6>1. Wrap(p + n) = 0
            BY <5>1, WrapOnce
          <6>. QED
            BY <6>1, PageAlignSmall
        <5>2. CASE p + n < Size
          <6>1. Wrap(p + n) = p + n
            BY <5>2, WrapOnce
          <6>2. Wrap(p + n + 4095) = p + n + 4095 - Size
            BY <3>2, <5>2, WrapOnce
          <6>. QED
            BY <3>2, <5>2, <6>1, <6>2 DEF PageAlign
        <5>. QED
          BY <5>1, <5>2
      <4>2. CASE p <= Size - Page
        \* then PageAlign(p) >= p forces p = 0, and n alone is too short
        <5>1. PageAlign(p) >= p
          BY <4>2, PageAlignSmall
        <5>. QED
          BY <5>1, <1>7, <4>1, <3>2, <1>1
      <4>3. CASE p > Size - Page
        \* both p and p + n lie in the last page
        <5>1. (Size - Page) % 4096 = 0
          OBVIOUS
        <5>2. PtrAlign(p) = Size - Page
          <6>1. p = (Size - Page) + (p - (Size - Page))
            OBVIOUS
          <6>2. p - (Size - Page) \in 0 .. 4095
            BY <4>3
          <6>. QED
            BY <5>1, <6>1, <6>2 DEF PtrAlign
        <5>. QED
          BY <5>2
      <4>. QED
        BY <4>2, <4>3
    <3>. QED
      BY <3>1, <3>2
  <2>5. PageAlign(n) >= 4096
    BY <1>1, PageAlignSmall
  <2>. QED
    BY <2>1, <2>2, <2>5, <1>1, <1>2, <1>5
<1>. QED
  BY <1>5, <1>6, <1>7

-----------------------------------------------------------------------------
\* The range is recorded by MakeRwx from the current target.
IInv ==
    /\ TypeOK
    /\ pc = "patch" => prot = [start |-> PtrAlign(addr), len |-> ProtLen(addr, span)]

LEMMA IInvInit == Init => IInv
BY DEF Init, IInv, TypeOK

LEMMA IInvStep == IInv /\ [Next]_vars => IInv'
<1>. SUFFICES ASSUME IInv, [Next]_vars PROVE IInv'
  OBVIOUS
<1>1. CASE MakeRwx
  <2>1. addr \in 0 .. (Size - 1) /\ span \in Lengths
    BY DEF IInv, TypeOK
  <2>2. PtrAlign(addr) \in 0 .. (Size - 1)
    BY <2>1 DEF PtrAlign
  <2>3. ProtLen(addr, span) \in 0 .. (Size - 1)
    BY <2>1, ProtLenType
  <2>4. prot' \in [start : 0 .. (Size - 1), len : 0 .. (Size - 1)]
    BY <1>1, <2>2, <2>3 DEF MakeRwx
  <2>. QED
    BY <1>1, <2>4 DEF MakeRwx, IInv, TypeOK
<1>2. CASE UNCHANGED vars
  BY <1>2 DEF vars, IInv, TypeOK
<1>. QED
  BY <1>1, <1>2 DEF Next

\* Spec 4.4 for every size of the address space: once _make_rwx has run,
\* the range it protects contains every byte of the span Hook will patch.
THEOREM CoversHolds == Spec => []Covers
<1>1. IInv => Covers
  BY RangeCovers DEF IInv, TypeOK, Covers
<1>. QED
  BY <1>1, IInvInit, IInvStep, PTL DEF Spec
=============================================================================
