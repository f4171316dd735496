----------------------------- MODULE MCDesktop ------------------------------
(***************************************************************************)
(* Four by two pixels, a pointer of two by one, bytes of four bits, an     *)
(* hour of two seconds.                                                    *)
(* The movements reach the edges, both signs and an overflow; the hours    *)
(* are the ones before noon and before midnight.                           *)
(***************************************************************************)
EXTENDS Desktop

MCMoves == {<<-1, 1>>, <<3, -1>>, <<17, 0>>}
Chip1(hour, bcd, h24, stuck) == [hour |-> hour, fmt |-> [bcd |-> bcd, h24 |-> h24], broken |-> stuck]
MCChips == {Chip1(11, TRUE, FALSE, FALSE), Chip1(23, FALSE, FALSE, FALSE), Chip1(9, TRUE, TRUE, TRUE)}
MCConsole == {<<2, 0>>}
MCClock == {<<2, 1>>, <<3, 1>>}
=============================================================================
