------------------------------ MODULE MCSpiNor ------------------------------
(***************************************************************************)
(* Values for the constants of SpiNor.                                     *)
(***************************************************************************)
EXTENDS SpiNor

Area(base, size, types) == [base |-> base, size |-> size, types |-> types]

\* A chip larger than three address bytes reach, with the extended address byte.
Windowed == [dies |-> 1, size |-> 8, window |-> 4, page |-> 2, regions |-> <<Area(0, 8, {2, 4})>>]

\* Two dies in one package (W25M512JV), with four address bytes.
Stacked == [dies |-> 2, size |-> 4, window |-> 0, page |-> 2, regions |-> <<Area(0, 4, {2, 4})>>]

\* Small sectors at the bottom (s25fl_erase_regions_bottom).
Bottom == [dies |-> 1, size |-> 8, window |-> 0, page |-> 2,
           regions |-> <<Area(0, 4, {1, 4}), Area(4, 4, {4})>>]

EvenParts == {Windowed, Stacked, Bottom}

\* These chips meet the hypothesis of the theorems about what a command stores.
ASSUME EvenPartsAreEven == EvenSectors

Command(op, die, addr, size, verify) ==
    [op |-> op, die |-> die, addr |-> addr, size |-> size, verify |-> verify]

AllCommands ==
    {Command("read", AllDies, 1, 6, FALSE), Command("read", 1, 1, 3, FALSE),
     Command("write", AllDies, 1, 5, FALSE), Command("update", AllDies, 3, 2, TRUE),
     Command("erase", AllDies, 2, 8, FALSE), Command("erase", AllDies, 3, 2, FALSE),
     Command("erase", AllDies, 5, 1, FALSE)}
=============================================================================
