------------------------------ MODULE MCElfImg ------------------------------
(***************************************************************************)
(* Model-checking instance of ElfImg.  Sections are built from a handful  *)
(* of kinds whose contents make every wrong choice of table visible:      *)
(* .strtab and .shstrtab map the st_name indices of .dynsym to other      *)
(* names than .dynstr does; .symtab holds an object, a zero-size function  *)
(* and a hidden function under the same name before the right entry.      *)
(* Deltas (sh_addr - sh_offset) are in pages: d0 for the first segment,   *)
(* d0 + 1 for the executable segment, d0 + 2 for the data segment, as     *)
(* lld lays out a shared object; d0 = 4 stands for a prelinked library.    *)
(***************************************************************************)
EXTENDS ElfImg

MCNames == {"foo", "bar", "baz"}
MCNameIdx == {1, 2, 3}

DynStr   == [type |-> "STRTAB", name |-> ".dynstr", delta |-> 0, syms |-> <<>>,
             strs |-> [k \in MCNameIdx |-> CASE k = 1 -> "foo" [] k = 2 -> "bar" [] OTHER -> "none"]]
StrTab   == [type |-> "STRTAB", name |-> ".strtab", delta |-> 0, syms |-> <<>>,
             strs |-> [k \in MCNameIdx |-> CASE k = 1 -> "baz" [] k = 2 -> "foo" [] OTHER -> "bar"]]
ShStrTab == [type |-> "STRTAB", name |-> ".shstrtab", delta |-> 0, syms |-> <<>>,
             strs |-> [k \in MCNameIdx |-> "none"]]
DynSym   == [type |-> "DYNSYM", name |-> ".dynsym", delta |-> 0, strs |-> ShStrTab.strs,
             syms |-> << [nm |-> 1, value |-> 13, func |-> TRUE, sized |-> TRUE],
                         [nm |-> 2, value |-> 17, func |-> TRUE, sized |-> TRUE] >>]
SymTab   == [type |-> "SYMTAB", name |-> ".symtab", delta |-> 0, strs |-> ShStrTab.strs,
             syms |-> << [nm |-> 1, value |-> 19, func |-> FALSE, sized |-> TRUE],
                         [nm |-> 1, value |-> 16, func |-> TRUE, sized |-> FALSE],
                         [nm |-> 1, value |-> 15, func |-> TRUE, sized |-> TRUE],
                         [nm |-> 2, value |-> 13, func |-> TRUE, sized |-> TRUE] >>]
Prog(nm, d) == [type |-> "PROGBITS", name |-> nm, delta |-> d, syms |-> <<>>, strs |-> ShStrTab.strs]
Note(d)     == [type |-> "OTHER", name |-> ".note", delta |-> d, syms |-> <<>>, strs |-> ShStrTab.strs]

\* Orderings of a set of sections (the non-allocated tail of the file).
Orderings(S) == {f \in [1..Cardinality(S) -> S] : \A a, b \in DOMAIN f : a # b => f[a] # f[b]}
Tails == UNION {Orderings(S) : S \in SUBSET {SymTab, StrTab, ShStrTab}}

\* Allocated sections in address order, then the non-allocated ones, as
\* GNU ld and lld emit them.  FirstSegProg: whether the first segment holds
\* a PROGBITS section (.rodata, .eh_frame) after .dynsym and .dynstr.
Layouts(FirstSegProg, DynOrders) ==
    UNION { { <<Note(d0)>> \o dyn \o (IF FirstSegProg THEN <<Prog(".rodata", d0)>> ELSE <<>>)
                            \o <<Prog(".text", d0 + 1)>> \o data \o tail :
                dyn \in DynOrders,
                data \in {<<>>, <<Prog(".data", d0 + 2)>>},
                tail \in Tails } : d0 \in {0, 4} }

LinkerDyn == {<<DynSym, DynStr>>, <<DynStr, DynSym>>}

\* Images whose first segment holds a PROGBITS section after the tables.
MCImages == Layouts(TRUE, LinkerDyn)
\* lld output without .rodata / .eh_frame: .text comes first.
MCImagesNoRodata == Layouts(FALSE, LinkerDyn)
\* No PROGBITS section at all follows .dynsym and .dynstr in header order.
MCImagesNoProgAfter ==
    { <<Note(0), Prog(".text", 1)>> \o dyn \o tail : dyn \in LinkerDyn, tail \in Tails }
\* A STRTAB section header placed before the dynamic tables.
MCImagesEarlyStrtab ==
    { <<Note(0), ShStrTab, DynSym, DynStr, Prog(".rodata", 0), Prog(".text", 1)>> }

MCLib == "/system/lib64/libart.so"
MCLibMatches == {MCLib}
MCFileStates == {"missing", "empty", "present"}
MCFileEmpty == {"empty"}
MCFilePresent == {"present"}
Other == "/system/lib64/libc.so"
\* A library is mapped at 100 (r--p at offset 0), then r-xp, then rw-p;
\* another library is mapped below it; or the library is not mapped.
MCListings ==
    { << [start |-> 40, perms |-> "r--p", path |-> Other],
         [start |-> 48, perms |-> "r-xp", path |-> Other],
         [start |-> 100, perms |-> "r--p", path |-> MCLib],
         [start |-> 110, perms |-> "r-xp", path |-> MCLib],
         [start |-> 120, perms |-> "rw-p", path |-> MCLib] >>,
      << [start |-> 100, perms |-> "r-xp", path |-> MCLib],
         [start |-> 120, perms |-> "rw-p", path |-> MCLib] >>,
      << [start |-> 40, perms |-> "r--p", path |-> Other] >> }

\* The images and listings of the passing run are laid out as the proofs
\* of LookupCorrect and AddressCorrect assume.
ASSUME MCLayoutAssumption ==
    /\ \A im \in MCImages : WellLinked(im) /\ BiasInFirstSegment(im)
    /\ \A ls \in MCListings : LibListed(ls)

=============================================================================
