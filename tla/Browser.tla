------------------------------- MODULE Browser -------------------------------
(***************************************************************************)
(* The address book's browsing mode: irc_bot::addr_book_print, which pages *)
(* through the rows a query returned, five at a time, and irc_bot::print.  *)
(* The rows do not matter, only which of them are shown and the page       *)
(* number printed below them.  The library is iterated meanwhile; what     *)
(* that does to calls is in CallControl.                                   *)
(***************************************************************************)
EXTENDS Integers

CONSTANTS
  MaxRows,  \* bound on the size of a query's result
  MaxSkip,  \* bound on the numbers typed after next and prev
  IntMax    \* largest int; 2^31 - 1 in the program, small ones show the wrap

ASSUME Bounds == /\ MaxRows \in Nat \ {0}
                 /\ MaxSkip \in Nat
                 /\ IntMax \in Nat /\ MaxSkip <= IntMax /\ MaxRows + 5 <= IntMax

VARIABLES
  size,  \* addrBook.dbData.size(), at least one row
  n,     \* index of the first row of the page
  x,     \* index after the last row of the page
  pact,  \* the actual page number
  pc     \* browsing, left, or crashed: at() threw for an index out of range

vars == <<size, n, x, pact, pc>>

\* The value an int holds after the arithmetic, wrapped around.
Wrap(v) == ((v + IntMax + 1) % (2 * (IntMax + 1))) - (IntMax + 1)

pmax(s) == (s + 4) \div 5

lastPageIndexMutant(s) == s - (s % 5) + 5

\* The first index of data on the last page, as the code computes it.
lastPageIndex(s) == s - (s % 5)

AtMost(v, s)       == IF v > s THEN s ELSE v

Init ==
  /\ size \in 1..MaxRows
  /\ n = 0
  /\ x = AtMost(5, size)
  /\ pact = 1
  /\ pc = "browsing"

\* print shows the rows from n' to x' - 1 and throws at the first one that is
\* not in the data, which ends the program.
print ==
  pc' = IF n' < x' /\ (n' < 0 \/ x' > size) THEN "crashed" ELSE "browsing"

PageAfterMutant(p, s) == p
PageAfter(p, s) == IF p > pmax(s) THEN pmax(s) ELSE p

StartAfterMutant(m, s) == AtMost(m, s)
StartAfter(m, s) == IF m > s THEN lastPageIndex(s) ELSE m

\* next [<number>]
NextPage(number) ==
  /\ pc = "browsing"
  /\ pact' = PageAfter(Wrap(pact + number), size)
  /\ n' = StartAfter(Wrap(n + Wrap(number * 5)), size)
  /\ x' = AtMost(Wrap(x + Wrap(number * 5)), size)
  /\ print
  /\ UNCHANGED size

StartBeforeMutant(m) == m
StartBefore(m) == IF m < 0 THEN 0 ELSE m

\* prev [<number>]
PrevPage(number) ==
  /\ pc = "browsing"
  /\ pact' = LET p == Wrap(pact - number) IN IF p < 0 THEN 1 ELSE p
  /\ n' = StartBefore(Wrap(n - Wrap(number * 5)))
  /\ x' = AtMost(Wrap(n' + 5), size)
  /\ print
  /\ UNCHANGED size

Exit ==
  /\ pc = "browsing"
  /\ pc' = "left"
  /\ UNCHANGED <<size, n, x, pact>>

Next == Exit \/ \E number \in 0..MaxSkip : NextPage(number) \/ PrevPage(number)

Spec == Init /\ [][Next]_vars

-----------------------------------------------------------------------------
\* Nothing the user types, as long as no product overflows, makes an index or
\* the page number negative.
TypeOK ==
  /\ size \in 1..MaxRows
  /\ n \in Nat /\ x \in Nat /\ pact \in Nat
  /\ pc \in {"browsing", "left", "crashed"}

\* Whatever pages the user turns, the rows shown are one page of the data: they
\* start at a multiple of five, there are five of them or all that are left,
\* and every index is one at() accepts, so that print never throws.  Start and
\* end are moved and corrected apart from each other and must stay in step.
ShowsOnePage ==
  /\ n \in 0..size /\ n % 5 = 0
  /\ x = (IF n + 5 < size THEN n + 5 ELSE size)
  /\ pc # "crashed"

\* The page number printed is at most one less than the page shown, and never
\* more than the number of pages: the errors of the corrections do not add up.
LabelOffByAtMostOne ==
  /\ pact \in 0..pmax(size)
  /\ (n \div 5) + 1 - pact \in {0, 1}

Shown == INSTANCE Pager WITH
  page <- n \div 5,
  rows <- n..(x - 1),
  open <- pc = "browsing"

\* next and prev turn the pages asked for, no more and no less, and stop at the
\* first and at the last page; what is shown is all of that page and nothing
\* else.  So prev takes back what next did, short of an end, and no row is
\* skipped or repeated.
RefinesPager == Shown!Spec
=============================================================================
