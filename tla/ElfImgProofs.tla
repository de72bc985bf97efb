---------------------------- MODULE ElfImgProofs ----------------------------
(***************************************************************************)
(* Proofs about ElfImg for every set of images, listings and names: the   *)
(* type invariant, and that the bias Open computes is that of the first   *)
(* qualifying PROGBITS section (BiasFromFirstQualifying).                  *)
(***************************************************************************)
EXTENDS ElfImg, TLAPS

\* The scan state after the first m section headers: the bias is the delta
\* of a least qualifying section among them, or unset if there is none.
BiasInv(m) ==
    IF QualifyingUpTo(m) = {} THEN bias = BiasUnset
    ELSE \E k \in QualifyingUpTo(m) :
            /\ \A j \in QualifyingUpTo(m) : k <= j
            /\ bias = img[k].delta

\* dynsym_start / strtab_start are non-null exactly when a section of that
\* type has been seen.
SeenInv(m) ==
    /\ dynsym # 0 <=> \E b \in 1..m : img[b].type = "DYNSYM"
    /\ strtab # 0 <=> \E a \in 1..m : img[a].type = "STRTAB"

\* The inductive invariant: the scanned prefix ends at i - 1, and after the
\* loop (pc "maps" or "ready" with the file mapped) it is the whole file.
IInv ==
    /\ TypeOK
    /\ pc = "init" => header = "null" /\ bias = BiasUnset /\ dynsym = 0 /\ strtab = 0
    /\ pc \in {"scan", "maps"} => header = "mapped"
    /\ pc \in {"maps", "ready"} /\ header = "mapped" => i = Len(img) + 1
    /\ pc \in {"scan", "maps", "ready"} /\ header = "mapped" =>
          BiasInv(i - 1) /\ SeenInv(i - 1)

USE ImagesAssumption, ListingsAssumption, FileStatesAssumption

-----------------------------------------------------------------------------
(***************************************************************************)
(* Type correctness.                                                       *)
(***************************************************************************)
LEMMA TypeInit == Init => TypeOK
<1> SUFFICES ASSUME Init PROVE TypeOK
  OBVIOUS
<1>1. img \in Seq(Section) /\ maps \in Seq(Line)
  BY DEF Init
<1>2. Len(img) \in Nat /\ Len(maps) \in Nat
  BY <1>1
<1>3. QED
  BY <1>2 DEF Init, TypeOK, BiasUnset

LEMMA TypeStep == TypeOK /\ [Next]_vars => TypeOK'
<1> SUFFICES ASSUME TypeOK, [Next]_vars PROVE TypeOK'
  OBVIOUS
<1>1. /\ img \in Seq(Section) /\ maps \in Seq(Line)
      /\ Len(img) \in Nat /\ Len(maps) \in Nat
  BY DEF TypeOK
<1>2. CASE ScanSection
  <2>1. i \in 1..Len(img) /\ img[i] \in Section
    BY <1>1, <1>2 DEF ScanSection, TypeOK
  <2>2. bias' \in Int
    BY <1>2, <2>1 DEF ScanSection, ScanDynsym, ScanSymtab, ScanStrtab,
                       ScanProgbits, TypeOK, Section
  <2>3. QED
    BY <1>2, <2>1, <2>2 DEF ScanSection, ScanDynsym, ScanSymtab, ScanStrtab,
                             ScanProgbits, TypeOK
<1>3. CASE ModuleBaseFound
  <2>1. maps[line] \in Line
    BY <1>1, <1>3 DEF ModuleBaseFound, TypeOK
  <2>2. QED
    BY <1>3, <2>1 DEF ModuleBaseFound, TypeOK, Line
<1>4. CASE ModuleBaseSkip
  BY <1>1, <1>4 DEF ModuleBaseSkip, TypeOK
<1>5. CASE OpenMissing
  BY <1>5 DEF OpenMissing, TypeOK
<1>6. CASE OpenMapFailed
  BY <1>6 DEF OpenMapFailed, TypeOK
<1>7. CASE OpenMapped
  BY <1>1, <1>7 DEF OpenMapped, TypeOK
<1>8. CASE ScanEnd
  BY <1>1, <1>8 DEF ScanEnd, TypeOK
<1>9. CASE ModuleBaseNotFound
  BY <1>9 DEF ModuleBaseNotFound, TypeOK
<1>10. CASE Destroy
  BY <1>10 DEF Destroy, TypeOK
<1>11. CASE UNCHANGED vars
  BY <1>11 DEF vars, TypeOK
<1>12. CASE MapsOpenFailed
  BY <1>12 DEF MapsOpenFailed, TypeOK
<1>13. QED
  BY <1>2, <1>3, <1>4, <1>5, <1>6, <1>7, <1>8, <1>9, <1>10, <1>11, <1>12
  DEF Next
\* The type invariant of ElfImg holds in every reachable state.
THEOREM TypeCorrect == Spec => []TypeOK
BY TypeInit, TypeStep, PTL DEF Spec

-----------------------------------------------------------------------------
(***************************************************************************)
(* The bias of the first qualifying section.                               *)
(***************************************************************************)

\* The scanned prefix grows by one section per step of the loop.
LEMMA QualifyingStep ==
    ASSUME TypeOK, NEW k \in 1..Len(img)
    PROVE  QualifyingUpTo(k) =
             QualifyingUpTo(k - 1) \cup (IF Qualifying(k) THEN {k} ELSE {})
BY DEF QualifyingUpTo, TypeOK

\* A qualifying section is preceded by a DYNSYM and a STRTAB section.
LEMMA QualifyingSeen ==
    ASSUME TypeOK, NEW m \in Nat, NEW k \in QualifyingUpTo(m)
    PROVE  /\ \E b \in 1..m : img[b].type = "DYNSYM"
           /\ \E a \in 1..m : img[a].type = "STRTAB"
BY DEF QualifyingUpTo, Qualifying, QualifyingIn

\* A least element named by BiasInv is the one FirstOf chooses.
LEMMA BiasInvRefBias ==
    ASSUME NEW m \in Nat, BiasInv(m)
    PROVE  bias = RefBias(m)
<1>1. CASE QualifyingUpTo(m) = {}
  BY <1>1 DEF BiasInv, RefBias
<1>2. CASE QualifyingUpTo(m) # {}
  <2>1. PICK k \in QualifyingUpTo(m) :
            /\ \A j \in QualifyingUpTo(m) : k <= j
            /\ bias = img[k].delta
    BY <1>2 DEF BiasInv
  <2>2. FirstOf(QualifyingUpTo(m)) = k
    <3>1. QualifyingUpTo(m) \subseteq Int
      BY DEF QualifyingUpTo
    <3>2. QED
      BY <2>1, <3>1 DEF FirstOf
  <2>3. QED
    BY <1>2, <2>1, <2>2 DEF RefBias
<1>3. QED
  BY <1>1, <1>2

LEMMA IInvInit == Init => IInv
<1> SUFFICES ASSUME Init PROVE IInv
  OBVIOUS
<1>1. TypeOK
  BY TypeInit
<1>2. QED
  BY <1>1 DEF Init, IInv

\* One iteration of the section loop preserves BiasInv and SeenInv.
LEMMA ScanSectionInv ==
    ASSUME IInv, ScanSection
    PROVE  (BiasInv(i - 1) /\ SeenInv(i - 1))'
<1> DEFINE m == i - 1
<1>1. /\ TypeOK /\ pc = "scan" /\ header = "mapped"
      /\ i \in 1..Len(img) /\ i' = i + 1 /\ img' = img
      /\ img[i] \in Section
  BY DEF IInv, ScanSection, TypeOK
<1>2. BiasInv(m) /\ SeenInv(m)
  BY <1>1 DEF IInv
<1>3. m \in Nat /\ i' - 1 = i
  BY <1>1
<1>13. QualifyingUpTo(i - 1)' = QualifyingUpTo(i)
  BY <1>1, <1>3 DEF QualifyingUpTo, Qualifying, QualifyingIn
\* The primed goal, restated over the unprimed image.
<1>12. SUFFICES
         /\ IF QualifyingUpTo(i) = {} THEN bias' = BiasUnset
            ELSE \E k \in QualifyingUpTo(i) :
                    /\ \A j \in QualifyingUpTo(i) : k <= j
                    /\ bias' = img[k].delta
         /\ dynsym' # 0 <=> \E b \in 1..i : img[b].type = "DYNSYM"
         /\ strtab' # 0 <=> \E a \in 1..i : img[a].type = "STRTAB"
  BY <1>1, <1>3, <1>13 DEF BiasInv, SeenInv
<1>4. QualifyingUpTo(i) = QualifyingUpTo(m) \cup (IF Qualifying(i) THEN {i} ELSE {})
  BY <1>1, QualifyingStep
<1>5. Qualifying(i) <=> (img[i].type = "PROGBITS" /\ strtab # 0 /\ dynsym # 0)
  BY <1>1, <1>2 DEF Qualifying, QualifyingIn, SeenInv
<1>6. img[i].delta # BiasUnset
  BY <1>1, ImagesAssumption DEF TypeOK
\* Once the bias is set, both tables have been seen.
<1>7. bias # BiasUnset => dynsym # 0 /\ strtab # 0
  <2> SUFFICES ASSUME bias # BiasUnset PROVE dynsym # 0 /\ strtab # 0
    OBVIOUS
  <2>1. PICK k \in QualifyingUpTo(m) : TRUE
    BY <1>2 DEF BiasInv
  <2>2. QED
    BY <1>1, <1>2, <1>3, <2>1, QualifyingSeen DEF SeenInv
<1>8. \A q \in QualifyingUpTo(m) : q < i
  BY <1>1 DEF QualifyingUpTo
<1>9. CASE img[i].type = "PROGBITS"
  <2>1. ScanProgbits(img[i])
    BY <1>9 DEF ScanSection
  <2>2. /\ dynsym' # 0 <=> \E b \in 1..i : img[b].type = "DYNSYM"
        /\ strtab' # 0 <=> \E a \in 1..i : img[a].type = "STRTAB"
    <3>1. dynsym' = dynsym /\ strtab' = strtab
      BY <2>1 DEF ScanProgbits
    <3>2. /\ (\E b \in 1..i : img[b].type = "DYNSYM") <=> (\E b \in 1..m : img[b].type = "DYNSYM")
          /\ (\E a \in 1..i : img[a].type = "STRTAB") <=> (\E a \in 1..m : img[a].type = "STRTAB")
      BY <1>1, <1>9
    <3>3. QED
      BY <1>2, <3>1, <3>2 DEF SeenInv
  <2>3. CASE QualifyingUpTo(m) = {}
    <3>1. bias = BiasUnset
      BY <1>2, <2>3 DEF BiasInv
    <3>2. CASE Qualifying(i)
      <4>1. QualifyingUpTo(i) = {i} /\ bias' = img[i].delta
        BY <1>4, <1>5, <2>1, <2>3, <3>1, <3>2 DEF ScanProgbits
      <4>2. QED
        BY <1>1, <2>2, <4>1
    <3>3. CASE ~Qualifying(i)
      <4>1. QualifyingUpTo(i) = {} /\ bias' = BiasUnset
        BY <1>4, <1>5, <1>9, <2>1, <2>3, <3>1, <3>3 DEF ScanProgbits
      <4>2. QED
        BY <1>1, <2>2, <4>1
    <3>4. QED
      BY <2>2, <3>2, <3>3
  <2>4. CASE QualifyingUpTo(m) # {}
    <3>1. PICK k \in QualifyingUpTo(m) :
              /\ \A j \in QualifyingUpTo(m) : k <= j
              /\ bias = img[k].delta
      BY <1>2, <2>4 DEF BiasInv
    <3>2. k \in 1..Len(img) /\ img[k].delta # BiasUnset
      BY <1>1, ImagesAssumption DEF QualifyingUpTo, TypeOK
    <3>3. bias' = bias
      BY <2>1, <3>1, <3>2 DEF ScanProgbits
    <3>4. /\ k \in QualifyingUpTo(i)
          /\ \A j \in QualifyingUpTo(i) : k <= j
      <4>1. k \in 1..m /\ i \in Nat
        BY <1>1 DEF QualifyingUpTo
      <4>2. \A j \in QualifyingUpTo(i) : j \in QualifyingUpTo(m) \/ j = i
        BY <1>4
      <4>3. QED
        BY <1>4, <3>1, <4>1, <4>2
    <3>5. QED
      BY <2>2, <3>1, <3>3, <3>4
  <2>5. QED
    BY <2>3, <2>4
\* Any other section leaves the set of qualifying sections and the bias alone.
<1>10. CASE img[i].type # "PROGBITS"
  <2>1. QualifyingUpTo(i) = QualifyingUpTo(m) /\ bias' = bias
    <3>1. ~Qualifying(i)
      BY <1>10 DEF Qualifying, QualifyingIn
    <3>2. bias' = bias
      BY <1>10 DEF ScanSection, ScanDynsym, ScanSymtab, ScanStrtab
    <3>3. QED
      BY <1>4, <3>1, <3>2
  <2>2. IF QualifyingUpTo(i) = {} THEN bias' = BiasUnset
        ELSE \E k \in QualifyingUpTo(i) :
                /\ \A j \in QualifyingUpTo(i) : k <= j
                /\ bias' = img[k].delta
    BY <1>2, <2>1 DEF BiasInv
  <2>3. (dynsym' # 0 <=> \E b \in 1..i : img[b].type = "DYNSYM")
    <3>1. CASE img[i].type = "DYNSYM"
      BY <1>1, <1>7, <3>1 DEF ScanSection, ScanDynsym
    <3>2. CASE img[i].type # "DYNSYM"
      <4>1. dynsym' = dynsym
        BY <1>10, <3>2 DEF ScanSection, ScanSymtab, ScanStrtab
      <4>2. (\E b \in 1..i : img[b].type = "DYNSYM") <=> (\E b \in 1..m : img[b].type = "DYNSYM")
        BY <1>1, <3>2
      <4>3. QED
        BY <1>2, <4>1, <4>2 DEF SeenInv
    <3>3. QED
      BY <3>1, <3>2
  <2>4. (strtab' # 0 <=> \E a \in 1..i : img[a].type = "STRTAB")
    <3>1. CASE img[i].type = "STRTAB"
      BY <1>1, <1>7, <3>1 DEF ScanSection, ScanStrtab
    <3>2. CASE img[i].type # "STRTAB"
      <4>1. strtab' = strtab
        BY <1>10, <3>2 DEF ScanSection, ScanSymtab, ScanDynsym
      <4>2. (\E a \in 1..i : img[a].type = "STRTAB") <=> (\E a \in 1..m : img[a].type = "STRTAB")
        BY <1>1, <3>2
      <4>3. QED
        BY <1>2, <4>1, <4>2 DEF SeenInv
    <3>3. QED
      BY <3>1, <3>2
  <2>5. QED
    BY <2>2, <2>3, <2>4
<1>11. QED
  BY <1>3, <1>9, <1>10


\* BiasInv and SeenInv read only img, i, dynsym, strtab and bias.
LEMMA ScanInvUnchanged ==
    ASSUME UNCHANGED <<img, i, dynsym, strtab, bias>>
    PROVE  (BiasInv(i - 1) /\ SeenInv(i - 1))' <=> (BiasInv(i - 1) /\ SeenInv(i - 1))
<1>1. QualifyingUpTo(i - 1)' = QualifyingUpTo(i - 1)
  BY DEF QualifyingUpTo, Qualifying, QualifyingIn
<1>2. QED
  BY <1>1 DEF BiasInv, SeenInv

LEMMA IInvStep == IInv /\ [Next]_vars => IInv'
<1> SUFFICES ASSUME IInv, [Next]_vars PROVE IInv'
  OBVIOUS
<1>1. TypeOK'
  BY TypeStep DEF IInv
<1>2. TypeOK /\ Len(img) \in Nat
  BY DEF IInv, TypeOK
<1>3. CASE ScanSection
  <2>1. pc' = "scan" /\ header' = "mapped" /\ pc = "scan"
    BY <1>3 DEF ScanSection, IInv
  <2>2. (BiasInv(i - 1) /\ SeenInv(i - 1))'
    BY <1>3, ScanSectionInv
  <2>3. QED
    BY <1>1, <2>1, <2>2 DEF IInv
<1>4. CASE OpenMapped
  <2>1. pc = "init" /\ bias = BiasUnset /\ dynsym = 0 /\ strtab = 0
    BY <1>4 DEF OpenMapped, IInv
  <2>2. QualifyingUpTo(i - 1)' = {}
    BY <1>4 DEF OpenMapped, QualifyingUpTo
  <2>3. (BiasInv(i - 1) /\ SeenInv(i - 1))'
    BY <1>4, <2>1, <2>2 DEF OpenMapped, BiasInv, SeenInv
  <2>4. QED
    BY <1>1, <1>4, <2>3 DEF OpenMapped, IInv
<1>5. CASE ScanEnd
  <2>1. i' = Len(img) + 1
    BY <1>2, <1>5 DEF ScanEnd, TypeOK
  <2>2. (BiasInv(i - 1) /\ SeenInv(i - 1))' <=> (BiasInv(i - 1) /\ SeenInv(i - 1))
    BY <1>5, ScanInvUnchanged DEF ScanEnd
  <2>3. QED
    BY <1>1, <1>5, <2>1, <2>2 DEF ScanEnd, IInv
<1>6. CASE ModuleBaseFound \/ ModuleBaseSkip \/ ModuleBaseNotFound
  <2>1. UNCHANGED <<img, header, i, dynsym, strtab, bias>> /\ pc \in {"maps"}
        /\ pc' \in {"maps", "ready"}
    BY <1>6 DEF ModuleBaseFound, ModuleBaseSkip, ModuleBaseNotFound
  <2>2. (BiasInv(i - 1) /\ SeenInv(i - 1))' <=> (BiasInv(i - 1) /\ SeenInv(i - 1))
    BY <2>1, ScanInvUnchanged
  <2>3. QED
    BY <1>1, <2>1, <2>2 DEF IInv
<1>7. CASE OpenMissing \/ OpenMapFailed \/ Destroy
  <2>1. header' # "mapped" /\ pc' \in {"ready", "crashed", "destroyed"}
    BY <1>7 DEF OpenMissing, OpenMapFailed, Destroy, IInv
  <2>2. QED
    BY <1>1, <2>1 DEF IInv
<1>10. CASE MapsOpenFailed
  BY <1>1, <1>10 DEF MapsOpenFailed, IInv
<1>8. CASE UNCHANGED vars
  <2>1. (BiasInv(i - 1) /\ SeenInv(i - 1))' <=> (BiasInv(i - 1) /\ SeenInv(i - 1))
    BY <1>8, ScanInvUnchanged DEF vars
  <2>2. QED
    BY <1>1, <1>8, <2>1 DEF vars, IInv
<1>9. QED
  BY <1>3, <1>4, <1>5, <1>6, <1>7, <1>8, <1>10 DEF Next

\* Open's section loop leaves in bias the delta of the first PROGBITS
\* section that follows a STRTAB and a DYNSYM section; no later section
\* overwrites it (elf_img.cpp, the SHT_PROGBITS case and the -4396 guards).
THEOREM BiasFromFirstQualifyingHolds == Spec => []BiasFromFirstQualifying
<1>1. IInv => BiasFromFirstQualifying
  <2> SUFFICES ASSUME IInv, pc \in {"scan", "maps", "ready"}, header = "mapped"
               PROVE  bias = RefBias(IF pc = "scan" THEN i - 1 ELSE Len(img))
    BY DEF BiasFromFirstQualifying
  <2>1. i \in Nat /\ i - 1 \in Nat /\ BiasInv(i - 1)
    BY DEF IInv, TypeOK
  <2>2. pc # "scan" => i - 1 = Len(img)
    BY DEF IInv, TypeOK
  <2>3. QED
    BY <2>1, <2>2, BiasInvRefBias
<1>2. QED
  BY IInvInit, IInvStep, <1>1, PTL DEF Spec

=============================================================================
