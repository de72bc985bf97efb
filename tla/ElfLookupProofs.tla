--------------------------- MODULE ElfLookupProofs ---------------------------
(***************************************************************************)
(* Proofs that ElfImg's lookups are right for every well-linked image:     *)
(* GetSymbolOffset returns what the file's own tables say (LookupCorrect) *)
(* and GetSymbolAddress the run-time address (AddressCorrect).  The       *)
(* hypotheses are the layout predicates of ElfImg; the violation runs     *)
(* elf_early_strtab, elf_no_rodata and elf_no_prog_after show images that *)
(* break them, and the lookups with them.                                 *)
(***************************************************************************)
EXTENDS ElfImgProofs, WellFoundedInduction

\* The slots the section loop has filled after m headers: each points at a
\* section of the kind the lookup expects, and the static ones are set
\* exactly when such a section was among the m.
SlotInv(m) ==
    /\ dynsym # 0 => img[dynsym].type = "DYNSYM"
    /\ strtab # 0 => img[strtab].type = "STRTAB" /\ img[strtab].name = ".dynstr"
    /\ symtab # 0 <=> \E k \in 1..m : img[k].type = "SYMTAB" /\ img[k].name = ".symtab"
    /\ symtab # 0 => img[symtab].type = "SYMTAB" /\ img[symtab].name = ".symtab"
    /\ symstr # 0 <=> \E k \in 1..m : img[k].type = "STRTAB" /\ img[k].name = ".strtab"
    /\ symstr # 0 => img[symstr].type = "STRTAB" /\ img[symstr].name = ".strtab"

\* A line GetModuleBase accepts (strstr on the path, then the mode).
Accepted(k) ==
    maps[k].path \in LibMatches /\ maps[k].perms \in {"r-xp", "r--p"}

\* What the fgets loop knows: the lines before the current one were
\* rejected; once it returns, base is the first accepted line's address,
\* or null if none was accepted.
BaseInv ==
    /\ pc \in {"init", "scan", "maps"} => base = 0
    /\ pc = "maps" => \A j \in 1..(line - 1) : ~Accepted(j)
    /\ pc = "ready" /\ header = "mapped" =>
          \/ base = 0 /\ \A j \in DOMAIN maps : ~Accepted(j)
          \/ \E k \in DOMAIN maps :
                /\ Accepted(k) /\ base = maps[k].start
                /\ \A j \in 1..(k - 1) : ~Accepted(j)
    /\ pc = "ready" /\ header # "mapped" => base = 0

\* The layout hypotheses, for every file and listing the process may see.
Linked == \A im \in Images : WellLinked(im)
BiasFirst == \A im \in Images : BiasInFirstSegment(im)
Listed == \A ls \in Listings : LibListed(ls)

LInv ==
    /\ IInv
    /\ pc = "init" => symtab = 0 /\ symstr = 0
    /\ pc \in {"scan", "maps", "ready"} /\ header = "mapped" => SlotInv(i - 1)

AInv ==
    /\ LInv
    /\ BaseInv

USE ImagesAssumption, ListingsAssumption, LibAssumption, NamesAssumption

-----------------------------------------------------------------------------
(***************************************************************************)
(* Least elements.  FirstOf and FirstHit are CHOOSEs of a least element;  *)
(* a non-empty set of naturals has one (< is well founded on Nat).        *)
(***************************************************************************)
LEMMA NatHasLeast ==
    ASSUME NEW T \in SUBSET Nat, T # {}
    PROVE  \E x \in T : \A y \in T : x <= y
<1>1. \E x \in T : \A y \in T : ~(<<y, x>> \in OpToRel(<, Nat))
  BY NatLessThanWellFounded, WFMin
<1>2. PICK x \in T : \A y \in T : ~(<<y, x>> \in OpToRel(<, Nat))
  BY <1>1
<1>3. \A y \in T : x <= y
  <2> SUFFICES ASSUME NEW y \in T PROVE x <= y
    OBVIOUS
  <2>1. y \in Nat /\ x \in Nat
    OBVIOUS
  <2>2. y < x => <<y, x>> \in OpToRel(<, Nat)
    BY <2>1 DEF OpToRel
  <2>3. ~(y < x)
    BY <1>2, <2>2, Zenon
  <2>. QED
    BY <2>1, <2>3
<1>. QED
  BY <1>3

\* FirstOf picks the least element when there is one.
LEMMA FirstOfLeast ==
    ASSUME NEW T \in SUBSET Int, NEW x \in T, \A y \in T : x <= y
    PROVE  FirstOf(T) = x
<1>1. FirstOf(T) \in T /\ \A j \in T : FirstOf(T) <= j
  BY DEF FirstOf
<1>2. FirstOf(T) \in Int /\ FirstOf(T) <= x /\ x <= FirstOf(T)
  BY <1>1
<1>. QED
  BY <1>2

\* Hits in one table: FirstHit on the pairs picks the least entry index.
LEMMA FirstHitOneTable ==
    ASSUME NEW d \in Nat, NEW S \in SUBSET Nat, S # {}
    PROVE  FirstHit({<<d, k>> : k \in S}) = <<d, FirstOf(S)>>
<1>1. PICK x \in S : \A y \in S : x <= y
  BY NatHasLeast
<1>2. FirstOf(S) = x
  BY <1>1, FirstOfLeast
<1> DEFINE H == {<<d, k>> : k \in S}
           Least(h) == \A g \in H : h[1] < g[1] \/ (h[1] = g[1] /\ h[2] <= g[2])
<1>3. Least(<<d, x>>) /\ <<d, x>> \in H
  BY <1>1
<1>4. \A h \in H : Least(h) => h = <<d, x>>
  <2> SUFFICES ASSUME NEW k \in S, Least(<<d, k>>) PROVE k = x
    OBVIOUS
  <2>1. d < d \/ (d = d /\ k <= x)
    BY <1>3 DEF Least
  <2>. QED
    BY <1>1, <2>1
<1>5. FirstHit(H) \in H /\ Least(FirstHit(H))
  BY <1>3 DEF FirstHit
<1>6. FirstHit(H) = <<d, x>>
  BY <1>4, <1>5
<1>. QED
  BY <1>2, <1>6

-----------------------------------------------------------------------------
(***************************************************************************)
(* The table slots.                                                        *)
(***************************************************************************)
LEMMA LInvInit == Init => LInv
<1> SUFFICES ASSUME Init PROVE LInv
  OBVIOUS
<1>1. IInv
  BY IInvInit
<1>. QED
  BY <1>1 DEF Init, LInv

\* SlotInv reads only img, i and the four slots.
LEMMA SlotInvUnchanged ==
    ASSUME UNCHANGED <<img, i, dynsym, strtab, symtab, symstr>>
    PROVE  SlotInv(i - 1)' <=> SlotInv(i - 1)
BY DEF SlotInv

\* The string table the loop keeps while the bias is unset is .dynstr.
LEMMA UnsetBiasNoQualifying ==
    ASSUME IInv, pc = "scan", bias = BiasUnset
    PROVE  \A j \in 1..(i - 1) : ~QualifyingIn(img, j)
<1>1. header = "mapped" /\ BiasInv(i - 1) /\ i \in Nat
  BY DEF IInv, TypeOK
<1>2. CASE QualifyingUpTo(i - 1) # {}
  <2>1. PICK k \in QualifyingUpTo(i - 1) : bias = img[k].delta
    BY <1>1, <1>2 DEF BiasInv
  <2>2. k \in DOMAIN img /\ img \in Images
    BY DEF QualifyingUpTo, IInv, TypeOK
  <2>. QED
    BY <2>1, <2>2, ImagesAssumption
<1>. QED
  BY <1>2 DEF QualifyingUpTo, Qualifying

\* One iteration of the loop keeps every slot on a section of its kind.
LEMMA ScanSectionSlots ==
    ASSUME Linked, IInv, SlotInv(i - 1), ScanSection
    PROVE  SlotInv(i - 1)'
<1>1. /\ TypeOK /\ pc = "scan" /\ i \in 1..Len(img) /\ i' = i + 1
      /\ img' = img /\ img[i] \in Section /\ WellLinked(img)
  BY DEF IInv, ScanSection, TypeOK, Linked
<1>2. SUFFICES
        /\ dynsym' # 0 => img[dynsym'].type = "DYNSYM"
        /\ strtab' # 0 => img[strtab'].type = "STRTAB" /\ img[strtab'].name = ".dynstr"
        /\ symtab' # 0 <=> \E k \in 1..i : img[k].type = "SYMTAB" /\ img[k].name = ".symtab"
        /\ symtab' # 0 => img[symtab'].type = "SYMTAB" /\ img[symtab'].name = ".symtab"
        /\ symstr' # 0 <=> \E k \in 1..i : img[k].type = "STRTAB" /\ img[k].name = ".strtab"
        /\ symstr' # 0 => img[symstr'].type = "STRTAB" /\ img[symstr'].name = ".strtab"
  BY <1>1 DEF SlotInv
<1>3. /\ (\E k \in 1..i : img[k].type = "SYMTAB" /\ img[k].name = ".symtab")
           <=> (\E k \in 1..(i - 1) : img[k].type = "SYMTAB" /\ img[k].name = ".symtab")
               \/ (img[i].type = "SYMTAB" /\ img[i].name = ".symtab")
      /\ (\E k \in 1..i : img[k].type = "STRTAB" /\ img[k].name = ".strtab")
           <=> (\E k \in 1..(i - 1) : img[k].type = "STRTAB" /\ img[k].name = ".strtab")
               \/ (img[i].type = "STRTAB" /\ img[i].name = ".strtab")
  BY <1>1
<1>4. CASE img[i].type = "DYNSYM"
  <2>1. ScanDynsym(img[i])
    BY <1>4 DEF ScanSection
  <2>. QED
    BY <1>3, <1>4, <2>1 DEF ScanDynsym, SlotInv
<1>5. CASE img[i].type = "SYMTAB"
  <2>1. ScanSymtab(img[i])
    BY <1>5 DEF ScanSection
  <2>. QED
    BY <1>3, <1>5, <2>1 DEF ScanSymtab, SlotInv
<1>6. CASE img[i].type = "STRTAB"
  <2>1. ScanStrtab(img[i])
    BY <1>6 DEF ScanSection
  <2>2. bias = BiasUnset => img[i].name = ".dynstr"
    <3> SUFFICES ASSUME bias = BiasUnset PROVE img[i].name = ".dynstr"
      OBVIOUS
    <3>1. \A j \in 1..(i - 1) : ~QualifyingIn(img, j)
      BY <1>1, UnsetBiasNoQualifying
    <3>. QED
      BY <1>1, <1>6, <3>1 DEF WellLinked
  <2>. QED
    BY <1>3, <1>6, <2>1, <2>2 DEF ScanStrtab, SlotInv
<1>7. CASE img[i].type \in {"PROGBITS", "OTHER"}
  <2>1. UNCHANGED <<dynsym, strtab, symtab, symstr>>
    BY <1>7 DEF ScanSection, ScanProgbits
  <2>. QED
    BY <1>3, <1>7, <2>1 DEF SlotInv
<1>. QED
  BY <1>1, <1>4, <1>5, <1>6, <1>7 DEF Section, SecTypes

LEMMA LInvStep == Linked /\ LInv /\ [Next]_vars => LInv'
<1> SUFFICES ASSUME Linked, LInv, [Next]_vars PROVE LInv'
  OBVIOUS
<1>1. IInv'
  BY IInvStep DEF LInv
<1>2. IInv
  BY DEF LInv
<1>3. CASE ScanSection
  <2>1. pc = "scan" /\ pc' = "scan" /\ header = "mapped" /\ header' = "mapped"
    BY <1>2, <1>3 DEF ScanSection, IInv
  <2>2. SlotInv(i - 1)
    BY <2>1 DEF LInv
  <2>. QED
    BY <1>1, <1>2, <1>3, <2>1, <2>2, ScanSectionSlots DEF LInv
<1>4. CASE OpenMapped
  <2>1. dynsym = 0 /\ strtab = 0 /\ symtab = 0 /\ symstr = 0 /\ pc = "init"
    BY <1>2, <1>4 DEF OpenMapped, IInv, LInv
  <2>2. SlotInv(i - 1)'
    BY <1>4, <2>1 DEF OpenMapped, SlotInv
  <2>. QED
    BY <1>1, <1>4, <2>2 DEF OpenMapped, LInv
<1>5. CASE ScanEnd \/ MapsOpenFailed \/ ModuleBaseFound \/ ModuleBaseSkip
             \/ ModuleBaseNotFound \/ UNCHANGED vars
  <2>1. /\ UNCHANGED <<img, header, i, dynsym, strtab, symtab, symstr>>
        /\ pc' = "init" => pc = "init"
        /\ pc' \in {"scan", "maps", "ready"} => pc \in {"scan", "maps", "ready"}
    BY <1>5 DEF ScanEnd, MapsOpenFailed, ModuleBaseFound, ModuleBaseSkip,
                 ModuleBaseNotFound, vars
  <2>2. SlotInv(i - 1)' <=> SlotInv(i - 1)
    BY <2>1, SlotInvUnchanged
  <2>. QED
    BY <1>1, <2>1, <2>2 DEF LInv
<1>6. CASE OpenMissing \/ OpenMapFailed \/ Destroy
  <2>1. header' # "mapped" /\ pc' # "init"
    BY <1>2, <1>6 DEF OpenMissing, OpenMapFailed, Destroy, IInv
  <2>. QED
    BY <1>1, <2>1 DEF LInv
<1>. QED
  BY <1>3, <1>4, <1>5, <1>6 DEF Next

-----------------------------------------------------------------------------
(***************************************************************************)
(* After the loop each slot names the one section of its kind.             *)
(***************************************************************************)
\* The facts the loop leaves once Open has returned with the file mapped.
LEMMA Opened ==
    ASSUME Linked, LInv, pc = "ready", header = "mapped"
    PROVE  /\ TypeOK /\ WellLinked(img) /\ img \in Seq(Section)
           /\ SeenInv(Len(img)) /\ SlotInv(Len(img)) /\ BiasInv(Len(img))
<1>1. TypeOK /\ i = Len(img) + 1 /\ BiasInv(i - 1) /\ SeenInv(i - 1) /\ SlotInv(i - 1)
  BY DEF LInv, IInv
<1>2. img \in Seq(Section) /\ i - 1 = Len(img)
  BY <1>1, ImagesAssumption DEF TypeOK
<1>. QED
  BY <1>1, <1>2 DEF Linked, TypeOK

\* A slot that is set names the only section of its kind; an unset one
\* means the file has none.
LEMMA OnlySection ==
    ASSUME NEW t, NEW nm, NEW slot \in 0..Len(img), img \in Seq(Section),
           OneSection(img, t, nm),
           slot # 0 => img[slot].type = t /\ img[slot].name = nm,
           slot = 0 => \A k \in 1..Len(img) : ~(img[k].type = t /\ img[k].name = nm)
    PROVE  SecIdx(t, nm) = IF slot # 0 THEN {slot} ELSE {}
BY DEF SecIdx, OneSection

LEMMA DynsymSet ==
    ASSUME Linked, LInv, pc = "ready", header = "mapped"
    PROVE  /\ {d \in DOMAIN img : img[d].type = "DYNSYM"} = IF dynsym # 0 THEN {dynsym} ELSE {}
           /\ SecIdx("STRTAB", ".dynstr") = IF strtab # 0 THEN {strtab} ELSE {}
<1>1. /\ TypeOK /\ WellLinked(img) /\ img \in Seq(Section)
      /\ SeenInv(Len(img)) /\ SlotInv(Len(img))
  BY Opened
<1>2. {d \in DOMAIN img : img[d].type = "DYNSYM"} = IF dynsym # 0 THEN {dynsym} ELSE {}
  BY <1>1 DEF TypeOK, WellLinked, SeenInv, SlotInv
<1>3. SecIdx("STRTAB", ".dynstr") = IF strtab # 0 THEN {strtab} ELSE {}
  <2>1. strtab = 0 => \A k \in 1..Len(img) : ~(img[k].type = "STRTAB" /\ img[k].name = ".dynstr")
    BY <1>1 DEF SeenInv
  <2>. QED
    BY <1>1, <2>1, OnlySection DEF TypeOK, WellLinked, SlotInv
<1>. QED
  BY <1>2, <1>3

LEMMA SymtabSet ==
    ASSUME Linked, LInv, pc = "ready", header = "mapped"
    PROVE  /\ SecIdx("SYMTAB", ".symtab") = IF symtab # 0 THEN {symtab} ELSE {}
           /\ SecIdx("STRTAB", ".strtab") = IF symstr # 0 THEN {symstr} ELSE {}
<1>1. /\ TypeOK /\ WellLinked(img) /\ img \in Seq(Section) /\ SlotInv(Len(img))
  BY Opened
<1>. QED
  BY <1>1, OnlySection DEF TypeOK, WellLinked, SlotInv

\* The reference hits are those of the tables the slots name.
LEMMA DynRef ==
    ASSUME Linked, LInv, pc = "ready", header = "mapped", NEW n
    PROVE  RefDynHits(n) =
             IF dynsym # 0 /\ strtab # 0 THEN {<<dynsym, k>> : k \in DynHits(n)} ELSE {}
<1>1. /\ {d \in DOMAIN img : img[d].type = "DYNSYM"} = IF dynsym # 0 THEN {dynsym} ELSE {}
      /\ SecIdx("STRTAB", ".dynstr") = IF strtab # 0 THEN {strtab} ELSE {}
  BY DynsymSet
<1>2. CASE dynsym # 0 /\ strtab # 0
  <2>1. {d \in DOMAIN img : img[d].type = "DYNSYM"} = {dynsym}
    BY <1>1, <1>2
  <2>2. SecIdx("STRTAB", ".dynstr") = {strtab}
    BY <1>1, <1>2
  <2> DEFINE P(d, k) == \E s \in SecIdx("STRTAB", ".dynstr") :
                           img[s].strs[img[d].syms[k].nm] = n
             F(d) == {<<d, k>> : k \in {k \in DOMAIN img[d].syms : P(d, k)}}
  <2>3. RefDynHits(n) = UNION {F(d) : d \in {d \in DOMAIN img : img[d].type = "DYNSYM"}}
    BY DEF RefDynHits
  <2>4. UNION {F(d) : d \in {d \in DOMAIN img : img[d].type = "DYNSYM"}} = F(dynsym)
    BY <2>1
  <2>5. \A k : P(dynsym, k) <=> img[strtab].strs[img[dynsym].syms[k].nm] = n
    BY <2>2
  <2>6. {k \in DOMAIN img[dynsym].syms : P(dynsym, k)} = DynHits(n)
    BY <2>5 DEF DynHits
  <2>7. F(dynsym) = {<<dynsym, k>> : k \in DynHits(n)}
    BY <2>6
  <2>. QED
    BY <1>2, <2>3, <2>4, <2>7
<1>3. CASE dynsym = 0
  BY <1>1, <1>3 DEF RefDynHits
<1>4. CASE strtab = 0
  BY <1>1, <1>4 DEF RefDynHits
<1>. QED
  BY <1>2, <1>3, <1>4

LEMMA SymRef ==
    ASSUME Linked, LInv, pc = "ready", header = "mapped", NEW n
    PROVE  RefSymHits(n) =
             IF symtab # 0 /\ symstr # 0 THEN {<<symtab, k>> : k \in SymHits(n)} ELSE {}
<1>1. /\ SecIdx("SYMTAB", ".symtab") = IF symtab # 0 THEN {symtab} ELSE {}
      /\ SecIdx("STRTAB", ".strtab") = IF symstr # 0 THEN {symstr} ELSE {}
  BY SymtabSet
<1>2. CASE symtab # 0 /\ symstr # 0
  <2>1. SecIdx("SYMTAB", ".symtab") = {symtab}
    BY <1>1, <1>2
  <2>2. SecIdx("STRTAB", ".strtab") = {symstr}
    BY <1>1, <1>2
  <2> DEFINE P(d, k) == LET e == img[d].syms[k] IN
                          e.func /\ e.sized /\
                          \E s \in SecIdx("STRTAB", ".strtab") : img[s].strs[e.nm] = n
             F(d) == {<<d, k>> : k \in {k \in DOMAIN img[d].syms : P(d, k)}}
  <2>3. RefSymHits(n) = UNION {F(d) : d \in SecIdx("SYMTAB", ".symtab")}
    BY DEF RefSymHits
  <2>4. UNION {F(d) : d \in SecIdx("SYMTAB", ".symtab")} = F(symtab)
    BY <2>1
  <2>5. \A k : P(symtab, k) <=> LET e == img[symtab].syms[k] IN
                                  e.func /\ e.sized /\ img[symstr].strs[e.nm] = n
    BY <2>2
  <2>6. {k \in DOMAIN img[symtab].syms : P(symtab, k)} = SymHits(n)
    BY <2>5 DEF SymHits
  <2>7. F(symtab) = {<<symtab, k>> : k \in SymHits(n)}
    BY <2>6
  <2>. QED
    BY <1>2, <2>3, <2>4, <2>7
<1>3. CASE symtab = 0
  BY <1>1, <1>3 DEF RefSymHits
<1>4. CASE symstr = 0
  BY <1>1, <1>4 DEF RefSymHits
<1>. QED
  BY <1>2, <1>3, <1>4

-----------------------------------------------------------------------------
(***************************************************************************)
(* GetSymbolOffset.                                                        *)
(***************************************************************************)
\* Entry indices of a symbol table are naturals.
LEMMA EntryIndices ==
    ASSUME img \in Seq(Section), NEW d \in 1..Len(img)
    PROVE  DOMAIN img[d].syms \subseteq Nat
<1>1. img[d] \in Section
  OBVIOUS
<1>2. img[d].syms \in Seq(Entry)
  BY <1>1 DEF Section
<1>. QED
  BY <1>2

LEMMA LookupAtReady ==
    ASSUME Linked, LInv, pc = "ready", header = "mapped", NEW n
    PROVE  GetSymbolOffset(n) = RefOffset(n)
<1>1. TypeOK /\ img \in Seq(Section)
  BY Opened
<1>2. RefDynHits(n) =
        IF dynsym # 0 /\ strtab # 0 THEN {<<dynsym, k>> : k \in DynHits(n)} ELSE {}
  BY DynRef
<1>3. RefSymHits(n) =
        IF symtab # 0 /\ symstr # 0 THEN {<<symtab, k>> : k \in SymHits(n)} ELSE {}
  BY SymRef
<1>4. CASE dynsym # 0 /\ strtab # 0 /\ DynHits(n) # {}
  <2>1. dynsym \in Nat /\ dynsym \in 1..Len(img)
    BY <1>1, <1>4 DEF TypeOK
  <2>2. DynHits(n) \subseteq Nat
    BY <1>1, <2>1, EntryIndices DEF DynHits
  <2>3. FirstHit(RefDynHits(n)) = <<dynsym, FirstOf(DynHits(n))>>
    BY <1>2, <1>4, <2>1, <2>2, FirstHitOneTable
  <2>4. RefDynHits(n) # {}
    BY <1>2, <1>4
  <2>. QED
    BY <1>4, <2>3, <2>4 DEF GetSymbolOffset, RefOffset
<1>5. CASE ~(dynsym # 0 /\ strtab # 0 /\ DynHits(n) # {})
  <2>1. RefDynHits(n) = {}
    BY <1>2, <1>5
  <2>2. CASE symtab # 0 /\ symstr # 0 /\ SymHits(n) # {}
    <3>1. symtab \in Nat /\ symtab \in 1..Len(img)
      BY <1>1, <2>2 DEF TypeOK
    <3>2. SymHits(n) \subseteq Nat
      BY <1>1, <3>1, EntryIndices DEF SymHits
    <3>3. FirstHit(RefSymHits(n)) = <<symtab, FirstOf(SymHits(n))>>
      BY <1>3, <2>2, <3>1, <3>2, FirstHitOneTable
    <3>4. RefSymHits(n) # {}
      BY <1>3, <2>2
    <3>. QED
      BY <1>5, <2>1, <2>2, <3>3, <3>4 DEF GetSymbolOffset, RefOffset
  <2>3. CASE ~(symtab # 0 /\ symstr # 0 /\ SymHits(n) # {})
    <3>1. RefSymHits(n) = {}
      BY <1>3, <2>3
    <3>. QED
      BY <1>5, <2>1, <2>3, <3>1 DEF GetSymbolOffset, RefOffset
  <2>. QED
    BY <2>2, <2>3
<1>. QED
  BY <1>4, <1>5

\* For every file laid out as a linker lays out a shared object, once Open
\* has returned GetSymbolOffset gives for every name what the file's own
\* tables say: the loop's guards leave .dynstr, not a later .strtab, in
\* strtab_start (elf_img.cpp, the SHT_STRTAB case of Open).
THEOREM LookupCorrectHolds ==
    ASSUME Linked
    PROVE  Spec => []LookupCorrect
<1>1. LInv => LookupCorrect
  BY LookupAtReady DEF LookupCorrect
<1>. QED
  BY <1>1, LInvInit, LInvStep, PTL DEF Spec

-----------------------------------------------------------------------------
(***************************************************************************)
(* The module base.                                                        *)
(***************************************************************************)
LEMMA BaseInit == Init => BaseInv
BY DEF Init, BaseInv

LEMMA BaseStep == IInv /\ BaseInv /\ [Next]_vars => BaseInv'
<1> SUFFICES ASSUME IInv, BaseInv, [Next]_vars PROVE BaseInv'
  OBVIOUS
<1>1. TypeOK /\ Len(maps) \in Nat /\ maps \in Seq(Line)
  BY ListingsAssumption DEF IInv, TypeOK
<1>2. CASE ModuleBaseFound
  <2>1. /\ pc = "maps" /\ header = "mapped" /\ line \in 1..Len(maps)
        /\ Accepted(line) /\ \A j \in 1..(line - 1) : ~Accepted(j)
    BY <1>1, <1>2 DEF ModuleBaseFound, IInv, BaseInv, TypeOK, Accepted
  <2>2. /\ pc' = "ready" /\ header' = "mapped" /\ base' = maps[line].start
        /\ maps' = maps
    BY <1>2, <2>1 DEF ModuleBaseFound
  <2>3. \A k : Accepted(k)' <=> Accepted(k)
    BY <2>2 DEF Accepted
  <2>4. \E k \in DOMAIN maps :
           /\ Accepted(k) /\ base' = maps[k].start
           /\ \A j \in 1..(k - 1) : ~Accepted(j)
    BY <1>1, <2>1, <2>2
  <2>. QED
    BY <2>2, <2>3, <2>4 DEF BaseInv
<1>3. CASE ModuleBaseSkip
  <2>1. /\ pc = "maps" /\ line \in 1..Len(maps) /\ ~Accepted(line)
        /\ \A j \in 1..(line - 1) : ~Accepted(j)
    BY <1>1, <1>3 DEF ModuleBaseSkip, BaseInv, TypeOK, Accepted
  <2>2. pc' = "maps" /\ line' = line + 1 /\ UNCHANGED <<maps, base>>
    BY <1>3 DEF ModuleBaseSkip
  <2>. QED
    BY <2>1, <2>2 DEF BaseInv, Accepted
<1>4. CASE ModuleBaseNotFound
  <2>1. /\ pc = "maps" /\ line \in 1..(Len(maps) + 1) /\ line > Len(maps)
        /\ base = 0 /\ \A j \in 1..(line - 1) : ~Accepted(j)
    BY <1>1, <1>4 DEF ModuleBaseNotFound, BaseInv, TypeOK
  <2>2. DOMAIN maps = 1..(line - 1)
    BY <1>1, <2>1
  <2>3. pc' = "ready" /\ UNCHANGED <<maps, base>>
    BY <1>4 DEF ModuleBaseNotFound
  <2>. QED
    BY <2>1, <2>2, <2>3 DEF BaseInv, Accepted
<1>5. CASE OpenMissing
  <2>1. header = "null" /\ base = 0 /\ UNCHANGED <<header, base>>
    BY <1>5 DEF OpenMissing, IInv, BaseInv
  <2>. QED
    BY <1>5, <2>1 DEF OpenMissing, BaseInv
<1>6. CASE ScanEnd
  BY <1>6 DEF ScanEnd, BaseInv
<1>7. CASE OpenMapFailed \/ OpenMapped \/ ScanSection \/ MapsOpenFailed \/ Destroy
  <2>1. /\ pc' \in {"crashed", "scan", "destroyed"} /\ UNCHANGED base
        /\ pc' = "scan" => pc \in {"init", "scan"}
    BY <1>7 DEF OpenMapFailed, OpenMapped, ScanSection, MapsOpenFailed, Destroy
  <2>. QED
    BY <2>1 DEF BaseInv
<1>8. CASE UNCHANGED vars
  BY <1>8 DEF vars, BaseInv, Accepted
<1>. QED
  BY <1>2, <1>3, <1>4, <1>5, <1>6, <1>7, <1>8 DEF Next

\* With no look-alike path in the listing, the first accepted line is the
\* library's first mapping, and base is the load address.
LEMMA BaseIsLoadAddr ==
    ASSUME Listed, IInv, BaseInv, pc = "ready"
    PROVE  base = IF header = "mapped" THEN LoadAddr ELSE 0
<1>1. maps \in Seq(Line) /\ LibListed(maps)
  BY ListingsAssumption DEF IInv, TypeOK, Listed
<1>2. CASE header # "mapped"
  BY <1>2 DEF BaseInv
<1>3. CASE header = "mapped"
  <2> DEFINE L == {k \in DOMAIN maps : maps[k].path = Lib}
  <2>1. \A k \in DOMAIN maps : Accepted(k) => k \in L
    BY <1>1 DEF Accepted, LibListed
  <2>2. CASE L = {}
    <3>1. \A k \in DOMAIN maps : ~Accepted(k)
      BY <2>1, <2>2
    <3>2. base = 0
      BY <1>3, <3>1 DEF BaseInv
    <3>. QED
      BY <1>3, <2>2, <3>2 DEF LoadAddr
  <2>3. CASE L # {}
    <3>1. L \subseteq Nat
      BY <1>1
    <3>2. PICK l \in L : \A y \in L : l <= y
      BY <2>3, <3>1, NatHasLeast
    <3>3. FirstOf(L) = l
      BY <3>1, <3>2, FirstOfLeast
    <3>4. \A j \in 1..(l - 1) : maps[j].path # Lib
      BY <1>1, <3>1, <3>2
    <3>5. Accepted(l)
      BY <1>1, <3>4, LibAssumption DEF Accepted, LibListed
    <3>6. \E k \in DOMAIN maps :
             /\ Accepted(k) /\ base = maps[k].start
             /\ \A j \in 1..(k - 1) : ~Accepted(j)
      BY <1>3, <3>5 DEF BaseInv
    <3>7. PICK k \in DOMAIN maps :
             /\ Accepted(k) /\ base = maps[k].start
             /\ \A j \in 1..(k - 1) : ~Accepted(j)
      BY <3>6
    <3>8. k = l
      <4>1. k \in L /\ k \in Nat /\ l \in Nat
        BY <2>1, <3>1, <3>7
      <4>2. l <= k
        BY <3>2, <4>1
      <4>3. ~(l < k)
        <5> SUFFICES ASSUME l < k PROVE FALSE
          OBVIOUS
        <5>1. l \in 1..(k - 1)
          BY <1>1, <4>1
        <5>. QED
          BY <3>5, <3>7, <5>1
      <4>. QED
        BY <4>1, <4>2, <4>3
    <3>. QED
      BY <1>3, <2>3, <3>3, <3>7, <3>8 DEF LoadAddr
  <2>. QED
    BY <2>2, <2>3
<1>. QED
  BY <1>2, <1>3

-----------------------------------------------------------------------------
(***************************************************************************)
(* GetSymbolAddress.                                                       *)
(***************************************************************************)
\* When the first qualifying section lies in the first segment, the bias
\* Open keeps is the load bias.
LEMMA BiasIsLoadBias ==
    ASSUME Linked, BiasFirst, LInv, pc = "ready", header = "mapped"
    PROVE  bias = LoadBias
<1>1. TypeOK /\ img \in Seq(Section) /\ BiasInv(Len(img))
  BY Opened
<1>2. PICK q \in DOMAIN img :
         /\ QualifyingIn(img, q)
         /\ \A j \in 1..(q - 1) : ~QualifyingIn(img, j)
         /\ img[q].delta = img[1].delta
  BY <1>1 DEF BiasFirst, BiasInFirstSegment, TypeOK
<1>3. q \in QualifyingUpTo(Len(img)) /\ q \in Nat
  BY <1>1, <1>2 DEF QualifyingUpTo, Qualifying
<1>4. PICK k \in QualifyingUpTo(Len(img)) :
         /\ \A j \in QualifyingUpTo(Len(img)) : k <= j
         /\ bias = img[k].delta
  BY <1>1, <1>3 DEF BiasInv
<1>5. k = q
  <2>1. k \in 1..Len(img) /\ QualifyingIn(img, k) /\ k <= q
    BY <1>3, <1>4 DEF QualifyingUpTo, Qualifying
  <2>2. ~(k < q)
    <3> SUFFICES ASSUME k < q PROVE FALSE
      OBVIOUS
    <3>1. k \in 1..(q - 1)
      BY <1>3, <2>1
    <3>. QED
      BY <1>2, <2>1, <3>1
  <2>. QED
    BY <1>3, <2>1, <2>2
<1>. QED
  BY <1>2, <1>4, <1>5 DEF LoadBias

\* For every file laid out as a linker lays out a shared object and every
\* listing without a look-alike path, GetSymbolAddress returns the
\* run-time address of each symbol the file defines, and nullptr when the
\* library was not mapped: the base read from /proc/self/maps and the bias
\* kept by the section loop cancel the file's address shift (elf_img.cpp,
\* GetModuleBase and the SHT_PROGBITS case of Open).
THEOREM AddressCorrectHolds ==
    ASSUME Linked, BiasFirst, Listed
    PROVE  Spec => []AddressCorrect
<1>1. AInv => AddressCorrect
  <2> SUFFICES ASSUME AInv, pc = "ready", NEW n \in Names
               PROVE  GetSymbolAddress(n) =
                        IF header = "mapped" /\ RefOffset(n) > 0 /\ LoadAddr # 0
                        THEN LoadAddr + RefOffset(n) - LoadBias
                        ELSE 0
    BY DEF AddressCorrect
  <2>1. IInv /\ LInv /\ BaseInv
    BY DEF AInv, LInv
  <2>2. base = IF header = "mapped" THEN LoadAddr ELSE 0
    BY <2>1, BaseIsLoadAddr
  <2>3. CASE header = "mapped"
    <3>1. GetSymbolOffset(n) = RefOffset(n) /\ bias = LoadBias
      BY <2>1, <2>3, LookupAtReady, BiasIsLoadBias
    <3>. QED
      BY <2>2, <2>3, <3>1 DEF GetSymbolAddress
  <2>4. CASE header # "mapped"
    BY <2>2, <2>4 DEF GetSymbolAddress
  <2>. QED
    BY <2>3, <2>4
<1>2. Init => AInv
  BY LInvInit, BaseInit DEF AInv
<1>3. AInv /\ [Next]_vars => AInv'
  BY LInvStep, BaseStep DEF AInv, LInv
<1>. QED
  BY <1>1, <1>2, <1>3, PTL DEF Spec

=============================================================================
