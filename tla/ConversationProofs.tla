------------------------- MODULE ConversationProofs -------------------------
(***************************************************************************)
(* Texts are passed on as they should be, however many there are, whatever *)
(* the server sends and however the stream is cut.                         *)
(***************************************************************************)
EXTENDS Conversation, TLAPS

\* The inductive invariant: the texts are numbered as they come, and the slot
\* never holds an old one.
TextInv ==
  /\ arrived \in Nat
  /\ incomingChatMessage \in {0, arrived}
  /\ shown \in Seq(Nat)
  /\ \A i \in DOMAIN shown : shown[i] <= arrived
  /\ NewestTextKept

\* Whatever a loop does, it iterates or leaves the texts alone.
LEMMA IteratesOrNot ==
  ASSUME [Next]_vars
  PROVE  UNCHANGED textVars \/ \E shows \in BOOLEAN : Iterate(shows)
<1>1. CASE UNCHANGED vars
  BY <1>1 DEF vars
<1>2. CASE Turn
  <2>1. CASE browsing
    BY <1>2, <2>1 DEF Turn, Iterate
  <2>2. CASE ~browsing
    BY <1>2, <2>2 DEF Turn, Iterate
  <2>q. QED  BY <2>1, <2>2
<1>3. CASE IdleTurn
  <2>1. CASE browsing
    BY <1>3, <2>1 DEF IdleTurn, Iterate
  <2>2. CASE ~browsing
    BY <1>3, <2>2 DEF IdleTurn, Iterate
  <2>q. QED  BY <2>1, <2>2
<1>4. CASE WaitTurn
  BY <1>4 DEF WaitTurn
<1>5. CASE LoopOver
  BY <1>5 DEF LoopOver
<1>6. CASE (\E l \in Lines : Send(l)) /\ UNCHANGED textVars
  BY <1>6
<1>q. QED  BY <1>1, <1>2, <1>3, <1>4, <1>5, <1>6 DEF Next

\* The slot after iterate holds the newest text, if any.
LEMMA NewestInSlot ==
  ASSUME TextInv, NEW k \in arrived..MaxTexts
  PROVE  /\ k \in Nat /\ arrived <= k
         /\ text_received(k) \in {0, k}
         /\ text_received(k) = 0 => k = arrived /\ incomingChatMessage = 0
         /\ text_received(k) # 0 => \A i \in DOMAIN shown : shown[i] < text_received(k)
<1>1. k \in Nat /\ arrived \in Nat /\ arrived <= k
  BY SomeTexts DEF TextInv
<1>2. CASE k > arrived
  <2>1. text_received(k) = k
    BY <1>2 DEF text_received
  <2>2. \A i \in DOMAIN shown : shown[i] \in Nat
    BY DEF TextInv
  <2>q. QED
    BY <1>1, <1>2, <2>1, <2>2 DEF TextInv
<1>3. CASE k = arrived
  <2>1. text_received(k) = incomingChatMessage
    BY <1>1, <1>3 DEF text_received
  <2>q. QED
    BY <1>1, <1>3, <2>1 DEF TextInv, NewestTextKept
<1>q. QED  BY <1>1, <1>2, <1>3

LEMMA ShowKeeps ==
  ASSUME TextInv, NEW k \in arrived..MaxTexts, arrived' = k, Show(text_received(k))
  PROVE  TextInv'
<1>0. /\ k \in Nat /\ arrived <= k
      /\ text_received(k) \in {0, k}
      /\ text_received(k) = 0 => k = arrived /\ incomingChatMessage = 0
      /\ text_received(k) # 0 => \A i \in DOMAIN shown : shown[i] < text_received(k)
  BY NewestInSlot
<1>1. CASE text_received(k) = 0
  <2>1. incomingChatMessage' = 0 /\ shown' = shown /\ arrived' = arrived
    BY <1>0, <1>1 DEF Show
  <2>q. QED
    BY <1>0, <1>1, <2>1 DEF TextInv, NewestTextKept
<1>2. CASE text_received(k) # 0
  <2>1. text_received(k) = k /\ k # 0 /\ \A i \in DOMAIN shown : shown[i] < k
    BY <1>0, <1>2
  <2>2. incomingChatMessage' = 0 /\ shown' = Append(shown, k)
    BY <1>2, <2>1 DEF Show, AfterShowing
  <2>3. shown \in Seq(Nat)
    BY DEF TextInv
  <2>4. /\ shown' \in Seq(Nat) /\ Len(shown') = Len(shown) + 1
        /\ DOMAIN shown = 1..Len(shown) /\ DOMAIN shown' = 1..(Len(shown) + 1)
        /\ \A i \in 1..Len(shown) : shown'[i] = shown[i]
        /\ shown'[Len(shown) + 1] = k
        /\ Len(shown) \in Nat
    BY <1>0, <2>2, <2>3
  <2>5. Last(shown') = k /\ shown' # <<>>
    BY <2>4 DEF Last
  <2>6. \A i \in DOMAIN shown' : shown'[i] <= k
    <3> TAKE i \in DOMAIN shown'
    <3>1. CASE i = Len(shown) + 1
      BY <1>0, <2>4, <3>1
    <3>2. CASE i \in DOMAIN shown
      <4>1. shown'[i] = shown[i] /\ shown[i] \in Nat /\ shown[i] < k
        BY <2>1, <2>3, <2>4, <3>2
      <4>q. QED
        BY <1>0, <4>1
    <3>q. QED
      BY <2>4, <3>1, <3>2
  <2>7. \A i, j \in DOMAIN shown' : i < j => shown'[i] < shown'[j]
    <3> TAKE i, j \in DOMAIN shown'
    <3> HAVE i < j
    <3>1. i \in 1..Len(shown)
      BY <2>4
    <3>2. CASE j \in 1..Len(shown)
      BY <2>4, <3>1, <3>2 DEF TextInv, NewestTextKept
    <3>3. CASE j = Len(shown) + 1
      BY <2>1, <2>4, <3>1, <3>3
    <3>q. QED  BY <2>4, <3>2, <3>3
  <2>q. QED
    BY <1>0, <2>2, <2>4, <2>5, <2>6, <2>7 DEF TextInv, NewestTextKept
<1>q. QED  BY <1>1, <1>2

LEMMA KeepKeeps ==
  ASSUME TextInv, NEW k \in arrived..MaxTexts, arrived' = k, Keep(text_received(k))
  PROVE  TextInv'
<1>1. /\ k \in Nat /\ arrived <= k
      /\ text_received(k) \in {0, k}
      /\ text_received(k) = 0 => k = arrived /\ incomingChatMessage = 0
      /\ text_received(k) # 0 => \A i \in DOMAIN shown : shown[i] < text_received(k)
  BY NewestInSlot
<1>2. incomingChatMessage' = text_received(k) /\ shown' = shown
  BY DEF Keep
<1>3. shown \in Seq(Nat) /\ \A i \in DOMAIN shown : shown[i] \in Nat /\ shown[i] <= k
  BY <1>1 DEF TextInv
<1>4. CASE text_received(k) = 0
  BY <1>1, <1>2, <1>3, <1>4 DEF TextInv, NewestTextKept
<1>5. CASE text_received(k) # 0
  BY <1>1, <1>2, <1>3, <1>5 DEF TextInv, NewestTextKept
<1>q. QED  BY <1>4, <1>5

LEMMA TextStep == TextInv /\ [Next]_vars => TextInv'
<1> SUFFICES ASSUME TextInv, [Next]_vars PROVE TextInv'
  OBVIOUS
<1>1. CASE UNCHANGED textVars
  BY <1>1 DEF textVars, TextInv, NewestTextKept
<1>2. ASSUME NEW shows \in BOOLEAN, Iterate(shows) PROVE TextInv'
  <2>1. PICK k \in arrived..MaxTexts :
          /\ arrived' = k
          /\ Show(text_received(k)) \/ Keep(text_received(k))
    BY <1>2 DEF Iterate
  <2>q. QED  BY <2>1, ShowKeeps, KeepKeeps
<1>q. QED  BY <1>1, <1>2, IteratesOrNot

\* Of the texts that come in, one can only be lost to a newer one; the newest
\* is shown or waits, and none is shown twice or too late.
THEOREM NewestIsKept == Spec => []NewestTextKept
<1>1. Init => TextInv
  BY DEF Init, TextInv, NewestTextKept
<1>2. TextInv => NewestTextKept
  BY DEF TextInv
<1>q. QED  BY <1>1, <1>2, TextStep, PTL DEF Spec
=============================================================================
