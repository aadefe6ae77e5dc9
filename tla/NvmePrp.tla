------------------------------- MODULE NvmePrp --------------------------------
(****************************************************************************)
(* How the driver tells the controller where a buffer is: BuildPrp          *)
(* (src/src/SpcNvme/NvmePrpBuilder.cpp), beside the way the controller      *)
(* reads the PRP entries of a command.  Addresses are numbers of bytes; a   *)
(* buffer is contiguous in virtual memory only.                             *)
(****************************************************************************)
EXTENDS Integers, Sequences

CONSTANTS PageSize,     \* PAGE_SIZE, which is also the page size set in CC.MPS
          ListEntries,  \* PRP entries that fit into one page
          Frame         \* the page frame of each virtual page

ASSUME PrpAssumption ==
    /\ PageSize \in Nat \ {0}
    /\ ListEntries \in Nat \ {0}
    /\ \A p \in DOMAIN Frame : Frame[p] \in Nat

Page(va)   == va \div PageSize
Offset(va) == va % PageSize

\* MmGetPhysicalAddress.
Pa(va) == Frame[Page(va)] * PageSize + Offset(va)

\* Every page of a buffer has a frame, and so has the one its end falls on.
Mapped(va, size) == \A i \in 0 .. size : Page(va + i) \in DOMAIN Frame

GetDistanceToNextPage(va) == PageSize - Offset(va)

\* Rounds of the loop of BuildPrp2List.
Entries(size) == (size + PageSize - 1) \div PageSize

BuildPrp2List(va, size) ==
    [i \in 1 .. Entries(size) |-> Pa(va + (i - 1) * PageSize)]

\* What BuildPrp needs a list page for.
NeedsList(va, size) ==
    /\ GetDistanceToNextPage(va) <= size
    /\ size - GetDistanceToNextPage(va) > PageSize

\* Mutant of BuildPrp: a rest of exactly one page gets a list as well.
BuildPrpEager(va, size, listPa) ==
    LET distance == GetDistanceToNextPage(va)
        left     == size - distance
        cursor   == va + distance
        prp      == [prp1 |-> Pa(va), prp2 |-> 0, list |-> <<>>]
    IN  IF distance > size THEN prp
        ELSE IF left < PageSize THEN [prp EXCEPT !.prp2 = Pa(cursor)]
        ELSE [prp EXCEPT !.prp2 = listPa, !.list = BuildPrp2List(cursor, left)]

\* PRP1 is the start of the buffer.  PRP2 is left 0, is the second page, or is the page
\* of the list; listPa is 0 when there was no memory for it.
BuildPrp(va, size, listPa) ==
    LET distance == GetDistanceToNextPage(va)
        left     == size - distance
        cursor   == va + distance
        prp      == [prp1 |-> Pa(va), prp2 |-> 0, list |-> <<>>]
    IN  IF distance > size THEN prp
        ELSE IF left <= PageSize THEN [prp EXCEPT !.prp2 = Pa(cursor)]
        ELSE IF listPa = 0 THEN prp
        ELSE [prp EXCEPT !.prp2 = listPa, !.list = BuildPrp2List(cursor, left)]

\* The controller: the address of byte i of a transfer of size bytes.
CtrlByte(prp, size, i) ==
    LET first == PageSize - Offset(prp.prp1)
        j     == i - first
    IN  IF j < 0 THEN prp.prp1 + i
        ELSE IF size - first <= PageSize THEN prp.prp2 + j
        ELSE prp.list[Page(j) + 1] + Offset(j)

\* The controller finds every byte of the buffer, and the list stays in its page.
Covers(prp, va, size) ==
    /\ Len(prp.list) <= ListEntries
    /\ \A i \in 0 .. size - 1 : CtrlByte(prp, size, i) = Pa(va + i)
=============================================================================
