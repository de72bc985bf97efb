------------------------------- MODULE ElfImg -------------------------------
(***************************************************************************)
(* pine::ElfImg (src/trex/android/src/main/cpp/elf_img.cpp): Open maps a  *)
(* shared object, scans its section headers once in file order and keeps *)
(* the dynamic symbol table, the string table used with it, the static    *)
(* symbol table, the .strtab offset and the load bias; it then reads the  *)
(* module base from /proc/self/maps.  GetSymbolOffset / GetSymbolAddress  *)
(* resolve a name against those tables.                                    *)
(*                                                                         *)
(* Data abstraction.  An image is a sequence of section records.  A       *)
(* section's name string (read through .shstrtab) is the field name; its  *)
(* sh_addr - sh_offset is the field delta; a symbol table's entries are    *)
(* the sequence syms of [nm, value, func, sized] (st_name, st_value,       *)
(* ELF_ST_TYPE = STT_FUNC, st_size # 0); a string table maps each st_name  *)
(* index to the symbol name found there (strs).  Reading a name through   *)
(* the wrong string table therefore yields a different name, as it does   *)
(* in the code.  A line of /proc/self/maps is [start, perms, path].        *)
(***************************************************************************)
EXTENDS Integers, Sequences, FiniteSets

CONSTANTS
    Names,       \* symbol names a caller may look up
    NoName,      \* what a string table holds at an index naming no symbol
    NameIdx,     \* st_name indices
    Images,      \* the section-header tables a file may have
    Listings,    \* the /proc/self/maps listings the process may have
    Lib,         \* the path passed to Open
    LibMatches,  \* the paths of which Lib is a substring (strstr)
    FileStates,  \* "missing": open fails; "empty": mmap fails; "present"
    MapsFail     \* whether fopen("/proc/self/maps") can fail (EMFILE, ENFILE)

SecTypes == {"DYNSYM", "SYMTAB", "STRTAB", "PROGBITS", "OTHER"}
Perms == {"r--p", "r-xp", "rw-p", "---p"}

Entry == [nm : NameIdx, value : Nat, func : BOOLEAN, sized : BOOLEAN]
Section == [type : SecTypes, name : STRING, delta : Int,
            syms : Seq(Entry), strs : [NameIdx -> Names \cup {NoName}]]
Line == [start : Nat \ {0}, perms : Perms, path : STRING]

\* elf_img.h initialises bias to -4396 and reads that value as "unset".
BiasUnset == -4396

ASSUME ImagesAssumption ==
    /\ Images \subseteq Seq(Section)
    /\ \A s \in Images : \A k \in DOMAIN s : s[k].delta # BiasUnset
ASSUME ListingsAssumption == Listings \subseteq Seq(Line)
ASSUME LibAssumption == Lib \in LibMatches /\ LibMatches \subseteq STRING
ASSUME FileStatesAssumption ==
    FileStates \subseteq {"missing", "empty", "present"}
ASSUME NamesAssumption == NoName \notin Names
ASSUME MapsFailAssumption == MapsFail \in BOOLEAN

VARIABLES
    img,      \* the sections of the file being opened
    maps,     \* the process's /proc/self/maps
    file,     \* whether open / mmap of the path succeed
    pc,       \* "init", "scan", "maps", "ready", "crashed", "destroyed"
    header,   \* "null", "mapped", or "failed" (MAP_FAILED)
    i,        \* the section header the loop of Open is at (1-based)
    dynsym,   \* index of the section dynsym_start points into, 0 = nullptr
    strtab,   \* index of the section strtab_start points into, 0 = nullptr
    symtab,   \* index of the section symtab_start points into, 0 = nullptr
    symstr,   \* index of the section at symstr_offset_for_symtab, 0 = 0
    bias,     \* ElfImg::bias
    base,     \* ElfImg::base, 0 = nullptr
    line      \* the /proc/self/maps line GetModuleBase's fgets loop is at

vars == <<img, maps, file, pc, header, i, dynsym, strtab, symtab, symstr,
          bias, base, line>>

-----------------------------------------------------------------------------
Init ==
    /\ img \in Images
    /\ maps \in Listings
    /\ file \in FileStates
    /\ pc = "init"
    /\ header = "null"
    /\ i = 1
    /\ dynsym = 0 /\ strtab = 0 /\ symtab = 0 /\ symstr = 0
    /\ bias = BiasUnset
    /\ base = 0
    /\ line = 1

\* open() returns -1: Open returns at once and leaves the image empty.
OpenMissing ==
    /\ pc = "init" /\ file = "missing"
    /\ pc' = "ready"
    /\ UNCHANGED <<img, maps, file, header, i, dynsym, strtab, symtab, symstr,
                   bias, base, line>>

\* mmap fails (a zero-length file, ENOMEM): header is MAP_FAILED, which is
\* not checked; the next statement reads header->e_shoff through it.
OpenMapFailed ==
    /\ pc = "init" /\ file = "empty"
    /\ header' = "failed"
    /\ pc' = "crashed"
    /\ UNCHANGED <<img, maps, file, i, dynsym, strtab, symtab, symstr, bias, base, line>>

\* The file is mapped; the loop over the section headers starts.
OpenMapped ==
    /\ pc = "init" /\ file = "present"
    /\ header' = "mapped"
    /\ pc' = "scan"
    /\ i' = 1
    /\ UNCHANGED <<img, maps, file, dynsym, strtab, symtab, symstr, bias, base, line>>

(***************************************************************************)
(* One iteration of the loop of Open: the switch on sh_type.               *)
(***************************************************************************)
ScanDynsym(s) ==
    /\ dynsym' = IF bias = BiasUnset THEN i ELSE dynsym
    /\ UNCHANGED <<strtab, symtab, symstr, bias>>

ScanSymtab(s) ==
    /\ symtab' = IF s.name = ".symtab" THEN i ELSE symtab
    /\ UNCHANGED <<dynsym, strtab, symstr, bias>>

\* Mutant of ScanStrtab: the bias == -4396 guard is dropped.
ScanStrtabUnguarded(s) ==
    /\ strtab' = i
    /\ symstr' = IF s.name = ".strtab" THEN i ELSE symstr
    /\ UNCHANGED <<dynsym, symtab, bias>>

ScanStrtab(s) ==
    /\ strtab' = IF bias = BiasUnset THEN i ELSE strtab
    /\ symstr' = IF s.name = ".strtab" THEN i ELSE symstr
    /\ UNCHANGED <<dynsym, symtab, bias>>

\* Mutant of ScanProgbits: every qualifying section overwrites the bias.
ScanProgbitsLast(s) ==
    /\ bias' = IF strtab # 0 /\ dynsym # 0 THEN s.delta ELSE bias
    /\ UNCHANGED <<dynsym, strtab, symtab, symstr>>

ScanProgbits(s) ==
    /\ bias' = IF strtab # 0 /\ dynsym # 0 /\ bias = BiasUnset
               THEN s.delta ELSE bias
    /\ UNCHANGED <<dynsym, strtab, symtab, symstr>>

ScanSection ==
    /\ pc = "scan"
    /\ i <= Len(img)
    /\ LET s == img[i] IN
         \/ s.type = "DYNSYM"   /\ ScanDynsym(s)
         \/ s.type = "SYMTAB"   /\ ScanSymtab(s)
         \/ s.type = "STRTAB"   /\ ScanStrtab(s)
         \/ s.type = "PROGBITS" /\ ScanProgbits(s)
         \/ s.type = "OTHER"    /\ UNCHANGED <<dynsym, strtab, symtab, symstr, bias>>
    /\ i' = i + 1
    /\ UNCHANGED <<img, maps, file, pc, header, base, line>>

\* After the loop Open calls GetModuleBase(path), which opens
\* /proc/self/maps (fopen succeeds) and reads it line by line.
ScanEnd ==
    /\ pc = "scan"
    /\ i > Len(img)
    /\ pc' = "maps"
    /\ line' = 1
    /\ UNCHANGED <<img, maps, file, header, i, dynsym, strtab, symtab, symstr,
                   bias, base>>

\* fopen fails and returns NULL, which is not checked: the first fgets
\* reads through it.
MapsOpenFailed ==
    /\ pc = "scan"
    /\ i > Len(img)
    /\ MapsFail
    /\ pc' = "crashed"
    /\ UNCHANGED <<img, maps, file, header, i, dynsym, strtab, symtab, symstr,
                   bias, base, line>>

\* A line containing the path and "r-xp" or "r--p": the loop breaks, sscanf
\* reads the start address and Open stores it in base.
ModuleBaseFound ==
    /\ pc = "maps"
    /\ line <= Len(maps)
    /\ maps[line].path \in LibMatches
    /\ maps[line].perms \in {"r-xp", "r--p"}
    /\ base' = maps[line].start
    /\ pc' = "ready"
    /\ UNCHANGED <<img, maps, file, header, i, dynsym, strtab, symtab, symstr,
                   bias, line>>

ModuleBaseSkip ==
    /\ pc = "maps"
    /\ line <= Len(maps)
    /\ ~(maps[line].path \in LibMatches /\ maps[line].perms \in {"r-xp", "r--p"})
    /\ line' = line + 1
    /\ UNCHANGED <<img, maps, file, pc, header, i, dynsym, strtab, symtab, symstr,
                   bias, base>>

\* fgets reaches the end of the listing: GetModuleBase returns nullptr.
ModuleBaseNotFound ==
    /\ pc = "maps"
    /\ line > Len(maps)
    /\ pc' = "ready"
    /\ UNCHANGED <<img, maps, file, header, i, dynsym, strtab, symtab, symstr,
                   bias, base, line>>

\* ~ElfImg: munmap the file if it was mapped.
Destroy ==
    /\ pc = "ready"
    /\ header' = "null"
    /\ pc' = "destroyed"
    /\ UNCHANGED <<img, maps, file, i, dynsym, strtab, symtab, symstr, bias, base, line>>

Next ==
    \/ OpenMissing \/ OpenMapFailed \/ OpenMapped
    \/ ScanSection \/ ScanEnd \/ MapsOpenFailed
    \/ ModuleBaseFound \/ ModuleBaseSkip \/ ModuleBaseNotFound
    \/ Destroy

Spec == Init /\ [][Next]_vars

-----------------------------------------------------------------------------
(***************************************************************************)
(* Lookups (const methods: they read the state and change nothing).       *)
(***************************************************************************)
FirstOf(S) == CHOOSE k \in S : \A j \in S : k <= j

\* Entries of the dynamic table whose name, read through strtab_start, is n.
DynHits(n) ==
    {k \in DOMAIN img[dynsym].syms :
        img[strtab].strs[img[dynsym].syms[k].nm] = n}

\* Entries of .symtab of function type, non-zero size, named n in .strtab.
SymHits(n) ==
    {k \in DOMAIN img[symtab].syms :
        LET e == img[symtab].syms[k] IN
          e.func /\ e.sized /\ img[symstr].strs[e.nm] = n}

GetSymbolOffset(n) ==
    IF dynsym # 0 /\ strtab # 0 /\ DynHits(n) # {}
    THEN img[dynsym].syms[FirstOf(DynHits(n))].value
    ELSE IF symtab # 0 /\ symstr # 0 /\ SymHits(n) # {}
    THEN img[symtab].syms[FirstOf(SymHits(n))].value
    ELSE 0

\* Mutant of GetSymbolAddress: the bias is added instead of subtracted.
GetSymbolAddressPlusBias(n) ==
    IF GetSymbolOffset(n) > 0 /\ base # 0
    THEN base + GetSymbolOffset(n) + bias
    ELSE 0

GetSymbolAddress(n) ==
    IF GetSymbolOffset(n) > 0 /\ base # 0
    THEN base + GetSymbolOffset(n) - bias
    ELSE 0

-----------------------------------------------------------------------------
(***************************************************************************)
(* What the file means, independent of the scan.  The dynamic symbol table *)
(* names its strings through sh_link, which in every linker's output is    *)
(* .dynstr; .symtab names them through .strtab.  The first allocated       *)
(* section (img[1]; the SHT_NULL header is left out) lies in the first     *)
(* loadable segment, which is mapped at the load address, so a symbol     *)
(* value v is at LoadAddr + v - LoadBias at run time.                      *)
(***************************************************************************)
SecIdx(t, nm) == {k \in DOMAIN img : img[k].type = t /\ img[k].name = nm}

RefDynHits(n) ==
    UNION {{<<d, k>> : k \in {k \in DOMAIN img[d].syms :
                               \E s \in SecIdx("STRTAB", ".dynstr") :
                                  img[s].strs[img[d].syms[k].nm] = n}} :
           d \in {d \in DOMAIN img : img[d].type = "DYNSYM"}}

RefSymHits(n) ==
    UNION {{<<d, k>> : k \in {k \in DOMAIN img[d].syms :
                               LET e == img[d].syms[k] IN
                                 e.func /\ e.sized /\
                                 \E s \in SecIdx("STRTAB", ".strtab") :
                                    img[s].strs[e.nm] = n}} :
           d \in SecIdx("SYMTAB", ".symtab")}

FirstHit(H) == CHOOSE h \in H : \A g \in H : h[1] < g[1] \/ (h[1] = g[1] /\ h[2] <= g[2])

RefOffset(n) ==
    IF RefDynHits(n) # {} THEN LET h == FirstHit(RefDynHits(n)) IN img[h[1]].syms[h[2]].value
    ELSE IF RefSymHits(n) # {} THEN LET h == FirstHit(RefSymHits(n)) IN img[h[1]].syms[h[2]].value
    ELSE 0

LoadAddr ==
    LET L == {k \in DOMAIN maps : maps[k].path = Lib}
    IN IF L = {} THEN 0 ELSE maps[FirstOf(L)].start

LoadBias == img[1].delta

\* The bias rule of Open stated over the whole file: the delta of the first
\* PROGBITS section preceded by a STRTAB and by a DYNSYM section.
QualifyingIn(im, k) ==
    /\ im[k].type = "PROGBITS"
    /\ \E a \in 1..(k - 1) : im[a].type = "STRTAB"
    /\ \E b \in 1..(k - 1) : im[b].type = "DYNSYM"

Qualifying(k) == QualifyingIn(img, k)

QualifyingUpTo(m) == {k \in 1..m : Qualifying(k)}

RefBias(m) ==
    IF QualifyingUpTo(m) = {} THEN BiasUnset
    ELSE img[FirstOf(QualifyingUpTo(m))].delta

\* What a linker emits for a shared object: one .dynsym, one .dynstr, at
\* most one .symtab and one .strtab, and no string table but .dynstr ahead
\* of the first PROGBITS section that follows the dynamic tables (the
\* non-allocated .shstrtab, .symtab and .strtab come last).
OneSection(im, t, nm) ==
    \A a, b \in DOMAIN im :
        im[a].type = t /\ im[a].name = nm /\ im[b].type = t /\ im[b].name = nm
        => a = b

WellLinked(im) ==
    /\ \A a, b \in DOMAIN im :
          im[a].type = "DYNSYM" /\ im[b].type = "DYNSYM" => a = b
    /\ OneSection(im, "STRTAB", ".dynstr")
    /\ OneSection(im, "SYMTAB", ".symtab")
    /\ OneSection(im, "STRTAB", ".strtab")
    /\ \A k \in DOMAIN im :
          im[k].type = "STRTAB" /\ (\A j \in 1..(k - 1) : ~QualifyingIn(im, j))
          => im[k].name = ".dynstr"

\* The first qualifying PROGBITS section lies in the first loadable segment
\* (a .rodata or .eh_frame after .dynstr), so its delta is the load bias.
BiasInFirstSegment(im) ==
    \E k \in DOMAIN im :
        /\ QualifyingIn(im, k)
        /\ \A j \in 1..(k - 1) : ~QualifyingIn(im, j)
        /\ im[k].delta = im[1].delta

\* No other mapping's path contains the library's, and the library's first
\* mapping is readable (r--p, or r-xp when the first segment is executable).
LibListed(ls) ==
    /\ \A k \in DOMAIN ls : ls[k].path \in LibMatches => ls[k].path = Lib
    /\ \A k \in DOMAIN ls :
          ls[k].path = Lib /\ (\A j \in 1..(k - 1) : ls[j].path # Lib)
          => ls[k].perms \in {"r--p", "r-xp"}

-----------------------------------------------------------------------------
(***************************************************************************)
(* Properties.                                                             *)
(***************************************************************************)
TypeOK ==
    /\ img \in Images /\ maps \in Listings /\ file \in FileStates
    /\ pc \in {"init", "scan", "maps", "ready", "crashed", "destroyed"}
    /\ header \in {"null", "mapped", "failed"}
    /\ i \in 1..(Len(img) + 1)
    /\ dynsym \in 0..Len(img) /\ strtab \in 0..Len(img)
    /\ symtab \in 0..Len(img) /\ symstr \in 0..Len(img)
    /\ bias \in Int
    /\ base \in Nat
    /\ line \in 1..(Len(maps) + 1)

\* Open's one pass computes the bias of the first qualifying PROGBITS
\* section, and no later section overwrites it (elf_img.cpp, the
\* SHT_PROGBITS case and the bias == -4396 guards of the loop).
BiasFromFirstQualifying ==
    pc \in {"scan", "maps", "ready"} /\ header = "mapped" =>
        bias = RefBias(IF pc = "scan" THEN i - 1 ELSE Len(img))

\* Once Open has returned, GetSymbolOffset returns for every name what the
\* file's own tables say: .dynsym read through .dynstr first, then the
\* sized functions of .symtab read through .strtab, else 0.  This is about
\* which string table the loop leaves in strtab_start.
LookupCorrect ==
    pc = "ready" /\ header = "mapped" =>
        \A n \in Names : GetSymbolOffset(n) = RefOffset(n)

\* GetSymbolAddress returns the run-time address of every symbol the file
\* defines, when the library is mapped, and nullptr otherwise: the module
\* base read from /proc/self/maps and the bias from the section scan must
\* together cancel the file's virtual-address shift.
AddressCorrect ==
    pc = "ready" =>
        \A n \in Names :
            GetSymbolAddress(n) =
                IF header = "mapped" /\ RefOffset(n) > 0 /\ LoadAddr # 0
                THEN LoadAddr + RefOffset(n) - LoadBias
                ELSE 0

\* Spec 4.1 and 6: a failed open or mmap of the library leaves an empty
\* image, and a failure of the maps scan a null base ("all failures in this
\* core are non-fatal"); neither crashes the process.
NoCrashOnOpenFailure == pc # "crashed"

\* Spec 4.2: the dynamic string table pointer is set on the first STRTAB
\* section only.
DynStrtabIsFirst ==
    pc = "ready" /\ strtab # 0 =>
        strtab = FirstOf({k \in DOMAIN img : img[k].type = "STRTAB"})

=============================================================================
