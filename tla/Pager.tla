-------------------------------- MODULE Pager --------------------------------
(***************************************************************************)
(* What browsing the address book promises: the rows come in pages of      *)
(* five, the user sees exactly the rows of one page, and a command turns   *)
(* as many pages as it says or as there are.                               *)
(***************************************************************************)
EXTENDS Integers

CONSTANTS MaxRows, MaxSkip

VARIABLES
  size,  \* number of rows
  page,  \* the page shown, the first one is 0
  rows,  \* the indices of the rows the user is shown
  open   \* is the user browsing?

vars == <<size, page, rows, open>>

\* A last page with no rows follows when the rows fill all pages before it.
LastPage == size \div 5

PageRows(p, s) == {i \in 0..(s - 1) : i \div 5 = p}

Init ==
  /\ size \in 1..MaxRows
  /\ page = 0
  /\ rows = PageRows(0, size)
  /\ open = TRUE

Show(p) ==
  /\ open
  /\ page' = p
  /\ rows' = PageRows(p, size)
  /\ UNCHANGED <<size, open>>

Forward(k)  == Show(IF page + k > LastPage THEN LastPage ELSE page + k)
Backward(k) == Show(IF page - k < 0 THEN 0 ELSE page - k)

Leave ==
  /\ open
  /\ open' = FALSE
  /\ UNCHANGED <<size, page, rows>>

Next == Leave \/ \E k \in 0..MaxSkip : Forward(k) \/ Backward(k)

Spec == Init /\ [][Next]_vars
=============================================================================
