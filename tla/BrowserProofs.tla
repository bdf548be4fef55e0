---------------------------- MODULE BrowserProofs ----------------------------
(***************************************************************************)
(* Theorems about Browser, for results of any size and any numbers typed,  *)
(* as long as five times the number fits in an int.                        *)
(***************************************************************************)
EXTENDS Browser, TLAPS

\* No product or sum the commands form overflows.
Fits == 5 * MaxSkip + MaxRows + 5 <= IntMax

LEMMA WrapFits ==
  ASSUME NEW v \in Int, -(IntMax + 1) <= v, v <= IntMax
  PROVE  Wrap(v) = v
<1> DEFINE a == v + IntMax + 1
           k == 2 * (IntMax + 1)
<1>1. a \in Nat /\ k \in Nat \ {0} /\ a < k
  BY Bounds
<1>2. a % k = a
  <2> HIDE DEF a, k
  <2>1. \A b, m \in Nat : b < m => b % m = b
    OBVIOUS
  <2>2. QED
    BY <1>1, <2>1
<1>3. QED
  BY <1>2, Bounds DEF Wrap

\* The state in which the user is shown one page, under a number that is at most
\* one too small: inductive as it stands.
PageInv ==
  /\ size \in 1..MaxRows
  /\ pc \in {"browsing", "left"}
  /\ ShowsOnePage
  /\ LabelOffByAtMostOne

LEMMA PageTypes ==
  ASSUME PageInv
  PROVE  /\ size \in Nat /\ n \in Nat /\ x \in Nat /\ pact \in Nat
         /\ 1 <= size /\ size <= MaxRows /\ n <= size /\ x <= size /\ n <= x
         /\ pact <= pmax(size) /\ pmax(size) \in Nat /\ pmax(size) <= size
BY Bounds DEF PageInv, ShowsOnePage, LabelOffByAtMostOne, pmax

LEMMA PageInit == Init => PageInv
<1> SUFFICES ASSUME Init PROVE PageInv
  OBVIOUS
<1>1. size \in Nat /\ 1 <= size /\ size <= MaxRows
  BY Bounds DEF Init
<1>2. n = 0 /\ pact = 1 /\ pc = "browsing" /\ x = AtMost(5, size)
  BY DEF Init
<1>3. ShowsOnePage
  BY <1>1, <1>2 DEF ShowsOnePage, AtMost
<1>4. LabelOffByAtMostOne
  BY <1>1, <1>2 DEF LabelOffByAtMostOne, pmax
<1>5. QED
  BY <1>2, <1>3, <1>4 DEF PageInv, Init

LEMMA NextPageStep ==
  ASSUME Fits, PageInv, NEW number \in 0..MaxSkip, NextPage(number)
  PROVE  PageInv'
<1>0. number \in Nat /\ number <= MaxSkip /\ MaxSkip \in Nat /\ MaxRows \in Nat
        /\ IntMax \in Nat /\ 5 * MaxSkip + MaxRows + 5 <= IntMax
  BY Bounds DEF Fits
<1>1. /\ Wrap(pact + number) = pact + number
      /\ Wrap(number * 5) = number * 5
      /\ Wrap(n + number * 5) = n + number * 5
      /\ Wrap(x + number * 5) = x + number * 5
  BY <1>0, PageTypes, WrapFits
<1>2. /\ pact' = PageAfter(pact + number, size)
      /\ n' = StartAfter(n + number * 5, size)
      /\ x' = AtMost(x + number * 5, size)
      /\ size' = size
  BY <1>1 DEF NextPage
<1>3. n' \in 0..size /\ n' % 5 = 0
  BY <1>0, <1>2, PageTypes DEF PageInv, ShowsOnePage, StartAfter, lastPageIndex
<1>4. x' = IF n' + 5 < size THEN n' + 5 ELSE size
  BY <1>0, <1>2, PageTypes DEF PageInv, ShowsOnePage, StartAfter, lastPageIndex, AtMost
<1>5. pc' = "browsing"
  BY <1>2, <1>3, <1>4, PageTypes DEF NextPage, print
<1>6. LabelOffByAtMostOne'
  BY <1>0, <1>2, PageTypes
     DEF PageInv, LabelOffByAtMostOne, ShowsOnePage, StartAfter, lastPageIndex, PageAfter, pmax
<1>7. QED
  BY <1>2, <1>3, <1>4, <1>5, <1>6 DEF PageInv, ShowsOnePage

LEMMA PrevPageStep ==
  ASSUME Fits, PageInv, NEW number \in 0..MaxSkip, PrevPage(number)
  PROVE  PageInv'
<1>0. number \in Nat /\ number <= MaxSkip /\ MaxSkip \in Nat /\ MaxRows \in Nat
        /\ IntMax \in Nat /\ 5 * MaxSkip + MaxRows + 5 <= IntMax
  BY Bounds DEF Fits
<1>1. /\ Wrap(pact - number) = pact - number
      /\ Wrap(number * 5) = number * 5
      /\ Wrap(n - number * 5) = n - number * 5
  BY <1>0, PageTypes, WrapFits
<1>2. /\ pact' = IF pact - number < 0 THEN 1 ELSE pact - number
      /\ n' = StartBefore(n - number * 5)
      /\ x' = AtMost(Wrap(n' + 5), size)
      /\ size' = size
  BY <1>1 DEF PrevPage
<1>3. n' \in 0..size /\ n' % 5 = 0
  BY <1>0, <1>2, PageTypes DEF PageInv, ShowsOnePage, StartBefore
<1>4. x' = IF n' + 5 < size THEN n' + 5 ELSE size
  <2>1. Wrap(n' + 5) = n' + 5
    BY <1>0, <1>3, PageTypes, WrapFits
  <2>2. QED
    BY <1>2, <1>3, <2>1, PageTypes DEF AtMost
<1>5. pc' = "browsing"
  BY <1>2, <1>3, <1>4, PageTypes DEF PrevPage, print
<1>6. LabelOffByAtMostOne'
  BY <1>0, <1>2, PageTypes DEF PageInv, LabelOffByAtMostOne, ShowsOnePage, StartBefore, pmax
<1>7. QED
  BY <1>2, <1>3, <1>4, <1>5, <1>6 DEF PageInv, ShowsOnePage

LEMMA PageStep == Fits /\ PageInv /\ [Next]_vars => PageInv'
<1> SUFFICES ASSUME Fits, PageInv, [Next]_vars PROVE PageInv'
  OBVIOUS
<1>1. CASE Exit
  BY <1>1 DEF Exit, PageInv, ShowsOnePage, LabelOffByAtMostOne
<1>2. CASE UNCHANGED vars
  BY <1>2 DEF vars, PageInv, ShowsOnePage, LabelOffByAtMostOne
<1>3. QED
  BY <1>1, <1>2, NextPageStep, PrevPageStep DEF Next

LEMMA PageAlways == ASSUME Fits PROVE Spec => []PageInv
<1>1. PageInv /\ [Next]_vars => PageInv'
  BY PageStep
<1>2. QED
  BY <1>1, PageInit, PTL DEF Spec

\* Whatever is typed, the indices and the page number never become negative: the
\* corrections after next and prev catch each of them.
THEOREM IndicesStayNatural == ASSUME Fits PROVE Spec => []TypeOK
<1>1. PageInv => TypeOK
  BY PageTypes DEF PageInv, TypeOK
<1>2. QED
  BY <1>1, PageAlways, PTL

\* Whatever is typed, what is shown is a page of the data and print never throws,
\* for results of any size: start and end stay in step.
THEOREM PagesAreShown == ASSUME Fits PROVE Spec => []ShowsOnePage
<1>1. PageInv => ShowsOnePage
  BY DEF PageInv
<1>2. QED
  BY <1>1, PageAlways, PTL

\* The page number printed never strays further than by one.
THEOREM LabelStaysClose == ASSUME Fits PROVE Spec => []LabelOffByAtMostOne
<1>1. PageInv => LabelOffByAtMostOne
  BY DEF PageInv
<1>2. QED
  BY <1>1, PageAlways, PTL

-----------------------------------------------------------------------------
(* Browsing implements a pager. *)

\* The rows from n to x - 1 are those of page n \div 5.
LEMMA OnePageOfRows ==
  ASSUME NEW s \in Nat, NEW m \in 0..s, m % 5 = 0,
         NEW e, e = IF m + 5 < s THEN m + 5 ELSE s
  PROVE  m..(e - 1) = Shown!PageRows(m \div 5, s)
<1>1. PICK q \in Nat : m = 5 * q
  OBVIOUS
<1>2. m \div 5 = q
  BY <1>1
<1>3. \A i \in 0..(s - 1) : i \div 5 = q <=> 5 * q <= i /\ i < 5 * q + 5
  OBVIOUS
<1>4. QED
  BY <1>1, <1>2, <1>3 DEF Shown!PageRows

\* The page that the code's corrections arrive at.
LEMMA PageAhead ==
  ASSUME NEW s \in Nat, NEW m \in 0..s, m % 5 = 0, NEW k \in Nat
  PROVE  StartAfter(m + k * 5, s) \div 5
           = IF m \div 5 + k > s \div 5 THEN s \div 5 ELSE m \div 5 + k
<1>1. PICK q \in Nat : m = 5 * q
  OBVIOUS
<1>2. m \div 5 = q /\ (m + k * 5) \div 5 = q + k
  BY <1>1
<1>3. m + k * 5 > s <=> q + k > s \div 5
  BY <1>1
<1>4. (s - (s % 5)) \div 5 = s \div 5
  OBVIOUS
<1>5. QED
  BY <1>2, <1>3, <1>4 DEF StartAfter, lastPageIndex

LEMMA PageBehind ==
  ASSUME NEW m \in Nat, m % 5 = 0, NEW k \in Nat
  PROVE  StartBefore(m - k * 5) \div 5 = IF m \div 5 - k < 0 THEN 0 ELSE m \div 5 - k
<1>1. PICK q \in Nat : m = 5 * q
  OBVIOUS
<1>2. m \div 5 = q /\ (m - k * 5) \div 5 = q - k
  BY <1>1
<1>3. m - k * 5 < 0 <=> q - k < 0
  BY <1>1
<1>4. QED
  BY <1>2, <1>3 DEF StartBefore

\* What is shown after a step, given where it starts.
LEMMA PageIsShown ==
  ASSUME PageInv
  PROVE  n..(x - 1) = Shown!PageRows(n \div 5, size)
BY OnePageOfRows, PageTypes DEF PageInv, ShowsOnePage

LEMMA PagerInit == Init => Shown!Init
<1> SUFFICES ASSUME Init PROVE Shown!Init
  OBVIOUS
<1>1. n..(x - 1) = Shown!PageRows(n \div 5, size)
  BY PageInit, PageIsShown
<1>2. n \div 5 = 0
  BY DEF Init
<1>3. QED
  BY <1>1, <1>2 DEF Init, Shown!Init

LEMMA NextPageShows ==
  ASSUME Fits, PageInv, NEW number \in 0..MaxSkip, NextPage(number)
  PROVE  Shown!Forward(number)
<1>0. number \in Nat /\ number <= MaxSkip /\ MaxSkip \in Nat /\ MaxRows \in Nat
        /\ IntMax \in Nat /\ 5 * MaxSkip + MaxRows + 5 <= IntMax
  BY Bounds DEF Fits
<1>1. Wrap(number * 5) = number * 5 /\ Wrap(n + number * 5) = n + number * 5
  BY <1>0, PageTypes, WrapFits
<1>2. n' = StartAfter(n + number * 5, size) /\ UNCHANGED size
  BY <1>1 DEF NextPage
<1>3. n' \div 5 = IF n \div 5 + number > size \div 5 THEN size \div 5 ELSE n \div 5 + number
  BY <1>0, <1>2, PageTypes, PageAhead DEF PageInv, ShowsOnePage
<1>4. PageInv'
  BY NextPageStep
<1>5. (n..(x - 1))' = Shown!PageRows(n' \div 5, size')
  <2>1. size' \in Nat
    BY <1>2, PageTypes
  <2>2. n' \in 0..size' /\ n' % 5 = 0
    BY <1>4 DEF PageInv, ShowsOnePage
  <2>3. x' = IF n' + 5 < size' THEN n' + 5 ELSE size'
    BY <1>4 DEF PageInv, ShowsOnePage
  <2>4. QED
    BY <2>1, <2>2, <2>3, OnePageOfRows
<1>6. pc = "browsing" /\ pc' = "browsing"
  BY <1>4 DEF NextPage, print, PageInv, ShowsOnePage
<1>7. QED
  BY <1>2, <1>3, <1>5, <1>6 DEF Shown!Forward, Shown!Show, Shown!LastPage

LEMMA PrevPageShows ==
  ASSUME Fits, PageInv, NEW number \in 0..MaxSkip, PrevPage(number)
  PROVE  Shown!Backward(number)
<1>0. number \in Nat /\ number <= MaxSkip /\ MaxSkip \in Nat /\ MaxRows \in Nat
        /\ IntMax \in Nat /\ 5 * MaxSkip + MaxRows + 5 <= IntMax
  BY Bounds DEF Fits
<1>1. Wrap(number * 5) = number * 5 /\ Wrap(n - number * 5) = n - number * 5
  BY <1>0, PageTypes, WrapFits
<1>2. n' = StartBefore(n - number * 5) /\ UNCHANGED size
  BY <1>1 DEF PrevPage
<1>3. n' \div 5 = IF n \div 5 - number < 0 THEN 0 ELSE n \div 5 - number
  BY <1>0, <1>2, PageTypes, PageBehind DEF PageInv, ShowsOnePage
<1>4. PageInv'
  BY PrevPageStep
<1>5. (n..(x - 1))' = Shown!PageRows(n' \div 5, size')
  <2>1. size' \in Nat
    BY <1>2, PageTypes
  <2>2. n' \in 0..size' /\ n' % 5 = 0
    BY <1>4 DEF PageInv, ShowsOnePage
  <2>3. x' = IF n' + 5 < size' THEN n' + 5 ELSE size'
    BY <1>4 DEF PageInv, ShowsOnePage
  <2>4. QED
    BY <2>1, <2>2, <2>3, OnePageOfRows
<1>6. pc = "browsing" /\ pc' = "browsing"
  BY <1>4 DEF PrevPage, print, PageInv, ShowsOnePage
<1>7. QED
  BY <1>2, <1>3, <1>5, <1>6 DEF Shown!Backward, Shown!Show

LEMMA PagerStep ==
  ASSUME Fits, PageInv, [Next]_vars
  PROVE  [Shown!Next]_(Shown!vars)
<1>1. CASE Exit
  BY <1>1 DEF Exit, Shown!Next, Shown!Leave
<1>2. ASSUME NEW number \in 0..MaxSkip, NextPage(number) \/ PrevPage(number)
      PROVE  Shown!Next
  BY <1>2, NextPageShows, PrevPageShows DEF Shown!Next
<1>3. CASE UNCHANGED vars
  BY <1>3 DEF vars, Shown!vars
<1>4. QED
  BY <1>1, <1>2, <1>3 DEF Next

\* Browsing is paging: for results of any size and any numbers typed, the user
\* sees exactly the page the numbers lead to.
THEOREM BrowsingPages == ASSUME Fits PROVE Spec => RefinesPager
<1>1. PageInv /\ [Next]_vars => [Shown!Next]_(Shown!vars)
  BY PagerStep
<1>2. QED
  BY <1>1, PagerInit, PageAlways, PTL DEF Spec, RefinesPager, Shown!Spec
=============================================================================
