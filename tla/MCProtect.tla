------------------------------ MODULE MCProtect ------------------------------
(* Model-checking instance of Protect: a 20-bit address space (TLC    *)
(* integers are 32-bit signed; the wrap at the top is the same), targets *)
(* at and around the first, second and last two page boundaries, and     *)
(* lengths below, at and above one and two pages.                        *)
EXTENDS Protect

MCSize == 1048576
MCTargets ==
    { k * 4096 + d : k \in {0, 1, 254, 255},
                     d \in {0, 1, 2048, 4080, 4095} }
MCLengths == {1, 16, 4095, 4096, 4097, 8192}
=============================================================================
