---------------------------- MODULE MemorySearch -----------------------------
(***************************************************************************)
(* The loop of MemoryManager.get_valid_ranges, against the relation          *)
(* FirstFree that module MemoryManager uses for it.                          *)
(***************************************************************************)
EXTENDS MemoryManager

\* Mutant of ScanPage: the search goes on from the used page itself.
ScanPageSame(n, base, page) == IF page >= base /\ page < base + n THEN page ELSE base

\* The body of the loop, for one used page: a range that meets it moves behind it.
\* (The pages come in order, so no page after the break would move it.)
ScanPage(n, base, page) == IF page >= base /\ page < base + n THEN page + 1 ELSE base

\* No used page is at or after this one: ranges end at MaxPage, and a guard ends as
\* far above its stack as that is high.
PageBound == 2 * MaxPage + ReservedEnd

\* The loop over the pages of the regions and reserves, in ascending order: base[i] is
\* where the range starts when it passed the pages below i.
Scan(start, n) ==
  LET base[i \in 0 .. PageBound] ==
        IF i = 0 THEN start
        ELSE IF i - 1 \in UsedPages(reserves) THEN ScanPage(n, base[i - 1], i - 1)
        ELSE base[i - 1]
  IN  base[PageBound]

\* The loop finds the first free range, whatever is mapped and reserved: no
\* used page is in the range, and no earlier range is free.
ScanFindsFirstFree ==
  \A start \in Bases, n \in {PageCount(size) : size \in Sizes} :
    FirstFree(UsedPages(reserves), start, n, Scan(start, n))
=============================================================================
