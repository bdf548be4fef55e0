---------------------------- MODULE CallStackProofs ----------------------------
(***************************************************************************)
(* Proofs about the nested loops of CallControl, for any set of calls and  *)
(* a library that sets up one call at a time: callsVector is the stack of  *)
(* the calls that are up, each with its call_loop.                         *)
(***************************************************************************)
EXTENDS CallControlProofs

-----------------------------------------------------------------------------
(* The inductive invariant. *)

\* The active calls are live.
ActiveLive == \A i \in 1..Len(callsVector) : callState[callsVector[i]] \in Live

\* Every live call is active and has a loop.
LiveHeld ==
  \A c \in Calls : callState[c] \in Live =>
    /\ \E i \in 1..Len(callsVector) : callsVector[i] = c
    /\ \E a \in 1..Len(frames) : frames[a].auxCall = c

\* The active calls are in the order of their loops; so no call is active twice.
SameOrder ==
  \A i, j \in 1..Len(callsVector), a, b \in 1..Len(frames) :
    /\ i < j
    /\ callsVector[i] = frames[a].auxCall
    /\ callsVector[j] = frames[b].auxCall
    => a < b

\* A loop's call was dialled or accepted, so it cannot be dialled or accepted
\* again.
LoopsStarted ==
  \A a \in 1..Len(frames) : callState[frames[a].auxCall] \notin {"Idle", "IncomingReceived"}

\* FailurePopsItself, by index.
DialledIsLast ==
  \A c \in Calls : callState[c] = "OutgoingInit" =>
    Len(callsVector) > 0 /\ callsVector[Len(callsVector)] = c

\* A loop is left only when its call is over; main may then clear callsVector.
LeftWhenOver == pc = "return" => callState[Top.auxCall] \notin Live

CallsInv == ActiveLive /\ LiveHeld /\ SameOrder /\ LoopsStarted /\ DialledIsLast

StackInv == CallsInv /\ LeftWhenOver /\ LoopDrivesOwnCall

\* What TypeOK says of the lists, by index.
Shape ==
  /\ callState \in [Calls -> State]
  /\ callsVector \in Seq(Calls)
  /\ Len(callsVector) \in Nat
  /\ \A i \in 1..Len(callsVector) : callsVector[i] \in Calls
  /\ Len(frames) \in Nat
  /\ \A a \in 1..Len(frames) : frames[a].auxCall \in Calls

LEMMA TypeShape == TypeInv => Shape
<1> SUFFICES ASSUME TypeInv PROVE Shape
  OBVIOUS
<1>1. /\ callsVector \in Seq(Calls) /\ frames \in Seq(Frame)
      /\ callState \in [Calls -> State]
  BY DEF TypeInv, TypeOK
<1>2. \A a \in 1..Len(frames) : frames[a].auxCall \in Calls
  <2>1. \A a \in 1..Len(frames) : frames[a] \in Frame
    BY <1>1, ElementOfSeq
  <2>2. \A f \in Frame : f.auxCall \in Calls
    BY DEF Frame
  <2>3. QED
    BY <2>1, <2>2
<1>3. \A i \in 1..Len(callsVector) : callsVector[i] \in Calls
  BY <1>1, ElementOfSeq
<1>4. Len(callsVector) \in Nat /\ Len(frames) \in Nat
  BY <1>1, LenProperties
<1>5. QED
  BY <1>1, <1>2, <1>3, <1>4 DEF Shape

-----------------------------------------------------------------------------
(* What the steps do to the active calls and the loops: four kinds of change. *)

\* The loops stay, with the calls they were entered for.
LoopsStay ==
  /\ Len(frames') = Len(frames)
  /\ \A a \in 1..Len(frames) : frames'[a].auxCall = frames[a].auxCall

\* Call d changes its state, if at all, in a way no list takes notice of.
Quiet(d) ==
  /\ callState'[d] \in Live <=> callState[d] \in Live
  /\ callState'[d] = "OutgoingInit" => callState[d] = "OutgoingInit"
  /\ callState'[d] \in {"Idle", "IncomingReceived"}
       => callState[d] \in {"Idle", "IncomingReceived"}

LEMMA QuietStep ==
  ASSUME Shape, CallsInv, LoopsStay, UNCHANGED callsVector,
         \A d \in Calls : Quiet(d)
  PROVE  CallsInv'
<1> USE DEF Shape, LoopsStay, Quiet
<1>1. ActiveLive' /\ LoopsStarted'
  BY DEF CallsInv, ActiveLive, LoopsStarted
<1>2. LiveHeld'
  BY DEF CallsInv, LiveHeld
<1>3. SameOrder'
  BY DEF CallsInv, SameOrder
<1>4. DialledIsLast'
  BY DEF CallsInv, DialledIsLast
<1>5. QED
  BY <1>1, <1>2, <1>3, <1>4 DEF CallsInv

\* No call is active twice.
LEMMA ActiveOnce ==
  ASSUME Shape, CallsInv, NEW i \in 1..Len(callsVector), NEW j \in 1..Len(callsVector),
         callsVector[i] = callsVector[j]
  PROVE  i = j
<1>1. PICK a \in 1..Len(frames) : frames[a].auxCall = callsVector[i]
  BY DEF Shape, CallsInv, ActiveLive, LiveHeld
<1>2. ~(i < j) /\ ~(j < i)
  BY <1>1 DEF Shape, CallsInv, SameOrder
<1>3. QED
  BY <1>2

\* An active call is over and leaves the list.
Leaves(k) ==
  /\ Len(callsVector') = Len(callsVector) - 1
  /\ \A j \in 1..(Len(callsVector) - 1) :
       callsVector'[j] = IF j < k THEN callsVector[j] ELSE callsVector[j + 1]
  /\ callState'[callsVector[k]] \in {"Error", "Referred"}
  /\ \A d \in Calls : d # callsVector[k] => callState'[d] = callState[d]

LEMMA LeaveStep ==
  ASSUME Shape, CallsInv, LoopsStay,
         NEW k \in 1..Len(callsVector), Leaves(k)
  PROVE  CallsInv'
<1> DEFINE old(j) == IF j < k THEN j ELSE j + 1
<1>0. ASSUME NEW j \in 1..Len(callsVector')
      PROVE  /\ old(j) \in 1..Len(callsVector) /\ old(j) # k
             /\ callsVector'[j] = callsVector[old(j)]
             /\ callsVector'[j] \in Calls
             /\ callsVector'[j] # callsVector[k]
  <2>1. old(j) \in 1..Len(callsVector) /\ old(j) # k
          /\ callsVector'[j] = callsVector[old(j)]
    BY DEF Shape, Leaves
  <2>2. callsVector[old(j)] # callsVector[k]
    BY <2>1, ActiveOnce
  <2> HIDE DEF old
  <2>3. QED
    BY <2>1, <2>2 DEF Shape
<1>0a. \A i, j \in 1..Len(callsVector') : i < j => old(i) < old(j)
  BY DEF Shape, Leaves
<1>0b. ASSUME NEW i \in 1..Len(callsVector), i # k
       PROVE  \E j \in 1..Len(callsVector') : callsVector'[j] = callsVector[i]
  <2>1. CASE i < k
    BY <2>1 DEF Shape, Leaves
  <2>2. CASE i > k
    <3>1. i - 1 \in 1..(Len(callsVector) - 1) /\ ~(i - 1 < k) /\ (i - 1) + 1 = i
      BY <2>2 DEF Shape
    <3>2. callsVector'[i - 1] = callsVector[i]
      BY <3>1 DEF Leaves
    <3>3. QED
      BY <3>1, <3>2 DEF Leaves
  <2>3. QED
    BY <1>0b, <2>1, <2>2 DEF Shape
<1> HIDE DEF old
<1>1. ActiveLive'
  BY <1>0 DEF CallsInv, ActiveLive, Leaves
<1>2. LiveHeld'
  <2> SUFFICES ASSUME NEW c \in Calls, callState'[c] \in Live
               PROVE  /\ \E j \in 1..Len(callsVector') : callsVector'[j] = c
                      /\ \E a \in 1..Len(frames') : frames'[a].auxCall = c
    BY DEF LiveHeld
  <2>1. c # callsVector[k] /\ callState[c] \in Live
    BY DEF Leaves, Live
  <2>2. PICK i \in 1..Len(callsVector) : callsVector[i] = c
    BY <2>1 DEF CallsInv, LiveHeld
  <2>3. \E j \in 1..Len(callsVector') : callsVector'[j] = c
    BY <1>0b, <2>1, <2>2
  <2>4. QED
    BY <2>1, <2>3 DEF CallsInv, LiveHeld, LoopsStay
<1>3. SameOrder'
  <2> SUFFICES ASSUME NEW i \in 1..Len(callsVector'), NEW j \in 1..Len(callsVector'),
                      NEW a \in 1..Len(frames'), NEW b \in 1..Len(frames'),
                      i < j, callsVector'[i] = frames'[a].auxCall,
                      callsVector'[j] = frames'[b].auxCall
               PROVE  a < b
    BY DEF SameOrder
  <2>1. old(i) \in 1..Len(callsVector) /\ old(j) \in 1..Len(callsVector) /\ old(i) < old(j)
    BY <1>0, <1>0a
  <2>2. callsVector[old(i)] = frames[a].auxCall /\ callsVector[old(j)] = frames[b].auxCall
          /\ a \in 1..Len(frames) /\ b \in 1..Len(frames)
    BY <1>0 DEF LoopsStay
  <2>3. QED
    BY <2>1, <2>2 DEF CallsInv, SameOrder
<1>4. LoopsStarted'
  BY DEF CallsInv, LoopsStarted, LoopsStay, Leaves, Shape
<1>5. DialledIsLast'
  <2> SUFFICES ASSUME NEW c \in Calls, callState'[c] = "OutgoingInit"
               PROVE  Len(callsVector') > 0 /\ callsVector'[Len(callsVector')] = c
    BY DEF DialledIsLast
  <2>1. c # callsVector[k] /\ callState[c] = "OutgoingInit"
    BY DEF Leaves
  <2>2. callsVector[Len(callsVector)] = c
    BY <2>1 DEF CallsInv, DialledIsLast
  <2>3. k < Len(callsVector)
    BY <2>1, <2>2 DEF Shape
  <2>4. Len(callsVector) - 1 \in 1..(Len(callsVector) - 1) /\ ~(Len(callsVector) - 1 < k)
          /\ (Len(callsVector) - 1) + 1 = Len(callsVector)
    BY <2>3 DEF Shape
  <2>5. QED
    BY <2>2, <2>4 DEF Leaves
<1>6. QED
  BY <1>1, <1>2, <1>3, <1>4, <1>5 DEF CallsInv

\* Call c is dialled or accepted and gets a loop on top, while no other call is
\* being set up.
Enters(c) ==
  /\ Len(callsVector') = Len(callsVector) + 1
  /\ \A i \in 1..Len(callsVector) : callsVector'[i] = callsVector[i]
  /\ callsVector'[Len(callsVector) + 1] = c
  /\ Len(frames') = Len(frames) + 1
  /\ \A a \in 1..Len(frames) : frames'[a].auxCall = frames[a].auxCall
  /\ frames'[Len(frames) + 1].auxCall = c
  /\ callState[c] \in {"Idle", "IncomingReceived"}
  /\ callState'[c] \in {"OutgoingInit", "Accepted"}
  /\ \A d \in Calls : d # c => Quiet(d) /\ callState[d] # "OutgoingInit"

LEMMA EnterStep ==
  ASSUME Shape, CallsInv, NEW c \in Calls, Enters(c)
  PROVE  CallsInv'
<1> USE DEF Shape, Enters, Quiet
<1>0. /\ \A i \in 1..Len(callsVector) : callsVector[i] # c
      /\ \A a \in 1..Len(frames) : frames[a].auxCall # c
      /\ callState[c] \notin Live /\ callState'[c] \in Live
  BY DEF CallsInv, ActiveLive, LoopsStarted, Live
<1>1. ActiveLive'
  <2> SUFFICES ASSUME NEW i \in 1..Len(callsVector') PROVE callState'[callsVector'[i]] \in Live
    BY DEF ActiveLive
  <2>1. CASE i = Len(callsVector) + 1
    BY <1>0, <2>1
  <2>2. CASE i # Len(callsVector) + 1
    <3>1. i \in 1..Len(callsVector)
      BY <2>2
    <3>2. QED
      BY <1>0, <3>1 DEF CallsInv, ActiveLive
  <2>3. QED
    BY <2>1, <2>2
<1>2. LiveHeld'
  <2> SUFFICES ASSUME NEW d \in Calls, callState'[d] \in Live
               PROVE  /\ \E i \in 1..Len(callsVector') : callsVector'[i] = d
                      /\ \E a \in 1..Len(frames') : frames'[a].auxCall = d
    BY DEF LiveHeld
  <2>1. CASE d = c
    <3>1. Len(callsVector) + 1 \in 1..Len(callsVector') /\ Len(frames) + 1 \in 1..Len(frames')
      OBVIOUS
    <3>2. QED
      BY <2>1, <3>1
  <2>2. CASE d # c
    <3>1. callState[d] \in Live
      BY <2>2
    <3>2. PICK i \in 1..Len(callsVector) : callsVector[i] = d
      BY <3>1 DEF CallsInv, LiveHeld
    <3>3. PICK a \in 1..Len(frames) : frames[a].auxCall = d
      BY <3>1 DEF CallsInv, LiveHeld
    <3>4. i \in 1..Len(callsVector') /\ a \in 1..Len(frames')
      OBVIOUS
    <3>5. QED
      BY <3>2, <3>3, <3>4
  <2>3. QED
    BY <2>1, <2>2
<1>3. SameOrder'
  <2> SUFFICES ASSUME NEW i \in 1..Len(callsVector'), NEW j \in 1..Len(callsVector'),
                      NEW a \in 1..Len(frames'), NEW b \in 1..Len(frames'),
                      i < j, callsVector'[i] = frames'[a].auxCall,
                      callsVector'[j] = frames'[b].auxCall
               PROVE  a < b
    BY DEF SameOrder
  <2>1. i \in 1..Len(callsVector) /\ callsVector'[i] = callsVector[i] /\ callsVector[i] # c
    BY <1>0
  <2>2. a \in 1..Len(frames) /\ frames[a].auxCall = callsVector[i]
    <3>1. a # Len(frames) + 1
      BY <2>1
    <3>2. a \in 1..Len(frames)
      <4>1. Len(frames) \in Nat /\ Len(frames') = Len(frames) + 1
        OBVIOUS
      <4> HIDE DEF Shape, Enters, Quiet
      <4>2. QED
        BY <3>1, <4>1
    <3>3. QED
      BY <2>1, <3>2
  <2>3. CASE b = Len(frames) + 1
    <3> HIDE DEF Enters, Quiet
    <3>1. QED
      BY <2>2, <2>3
  <2>4. CASE b # Len(frames) + 1
    <3>1. b \in 1..Len(frames) /\ frames'[b].auxCall = frames[b].auxCall
      BY <2>4
    <3>2. callsVector'[j] # c
      BY <1>0, <3>1
    <3>3. j \in 1..Len(callsVector) /\ callsVector[j] = frames[b].auxCall
      <4>1. j # Len(callsVector) + 1
        BY <3>2
      <4>2. j \in 1..Len(callsVector)
        <5>1. Len(callsVector) \in Nat /\ Len(callsVector') = Len(callsVector) + 1
          OBVIOUS
        <5> HIDE DEF Shape, Enters, Quiet
        <5>2. QED
          BY <4>1, <5>1
      <4>3. callsVector'[j] = callsVector[j]
        BY <4>2
      <4> HIDE DEF Shape, Enters, Quiet
      <4>4. QED
        BY <3>1, <4>2, <4>3
    <3> HIDE DEF Enters, Quiet
    <3>4. QED
      BY <2>1, <2>2, <3>1, <3>3 DEF CallsInv, SameOrder
  <2>5. QED
    BY <2>3, <2>4
<1>4. LoopsStarted'
  <2> SUFFICES ASSUME NEW a \in 1..Len(frames')
               PROVE  callState'[frames'[a].auxCall] \notin {"Idle", "IncomingReceived"}
    BY DEF LoopsStarted
  <2>1. CASE a = Len(frames) + 1
    BY <2>1
  <2>2. CASE a # Len(frames) + 1
    <3>1. a \in 1..Len(frames)
      BY <2>2
    <3>2. QED
      BY <1>0, <3>1 DEF CallsInv, LoopsStarted
  <2>3. QED
    BY <2>1, <2>2
<1>5. DialledIsLast'
  BY DEF DialledIsLast
<1>6. QED
  BY <1>1, <1>2, <1>3, <1>4, <1>5 DEF CallsInv

\* The innermost loop, whose call is over, is left.
LEMMA PopStep ==
  ASSUME Shape, CallsInv, UNCHANGED <<callState, callsVector>>,
         Len(frames) > 0, Len(frames') = Len(frames) - 1,
         \A a \in 1..(Len(frames) - 1) : frames'[a].auxCall = frames[a].auxCall,
         callState[frames[Len(frames)].auxCall] \notin Live
  PROVE  CallsInv'
<1> USE DEF Shape
<1>1. ActiveLive' /\ DialledIsLast'
  BY DEF CallsInv, ActiveLive, DialledIsLast
<1>2. LiveHeld'
  <2> SUFFICES ASSUME NEW d \in Calls, callState[d] \in Live
               PROVE  \E a \in 1..Len(frames') : frames'[a].auxCall = d
    BY DEF LiveHeld, CallsInv
  <2>1. PICK a \in 1..Len(frames) : frames[a].auxCall = d
    BY DEF CallsInv, LiveHeld
  <2>2. a \in 1..(Len(frames) - 1)
    BY <2>1
  <2>3. QED
    BY <2>1, <2>2
<1>3. SameOrder'
  BY DEF CallsInv, SameOrder
<1>4. LoopsStarted'
  BY DEF CallsInv, LoopsStarted
<1>5. QED
  BY <1>1, <1>2, <1>3, <1>4 DEF CallsInv

-----------------------------------------------------------------------------
(* What the operators of CallControl amount to. *)

LEMMA SameLoops == ASSUME UNCHANGED frames PROVE LoopsStay
BY DEF LoopsStay

\* The top loop is replaced by one for the same call.
LEMMA TopReplaced ==
  ASSUME TypeInv, InCall, NEW f \in Frame, f.auxCall = Top.auxCall,
         frames' = [frames EXCEPT ![Len(frames)] = f]
  PROVE  LoopsStay /\ Top' = f
<1>1. frames \in Seq(Frame) /\ Len(frames) \in Nat \ {0}
  BY TopType DEF TypeInv, TypeOK
<1>2. /\ Len(frames') = Len(frames)
      /\ \A a \in 1..Len(frames) : frames'[a] = IF a = Len(frames) THEN f ELSE frames[a]
  BY <1>1, ExceptSeq
<1>3. Top' = f
  BY <1>1, <1>2 DEF Top
<1>4. QED
  BY <1>1, <1>2, <1>3 DEF LoopsStay, Top

\* The calls other than c when the library starts c and the ringing calls in D
\* are declined.
LEMMA StartedQuiet ==
  ASSUME TypeInv, NEW c \in Calls, NEW s \in State, NEW D,
         \A d \in D : d \in Calls => callState[d] = "IncomingReceived",
         callState' = Started(c, s, D)
  PROVE  /\ callState'[c] = s
         /\ \A d \in Calls : d # c => Quiet(d)
         /\ \A d \in Calls : d # c => (callState'[d] = "Idle" <=> callState[d] = "Idle")
<1>1. callState'[c] = s
  BY DEF Started
<1>2. ASSUME NEW d \in Calls, d # c
      PROVE  Quiet(d) /\ (callState'[d] = "Idle" <=> callState[d] = "Idle")
  <2>1. callState'[d] = IF d \in D THEN "Error"
                        ELSE IF callState[d] \in {"Connected", "End"} THEN "Paused"
                        ELSE callState[d]
    BY <1>2 DEF Started
  <2>2. QED
    BY <2>1 DEF Quiet, Live
<1>3. QED
  BY <1>1, <1>2

LEMMA NoneSettling ==
  ASSUME OneSetupAtATime, SetupAllowed, NEW d \in Calls
  PROVE  callState[d] # "OutgoingInit"
BY DEF SetupAllowed, Settling

\* The callback finds a live call in callsVector, once.
LEMMA ErasedActive ==
  ASSUME TypeInv, CallsInv, NEW c \in Calls, callState[c] \in Live
  PROVE  \E k \in 1..Len(callsVector) :
           /\ callsVector[k] = c
           /\ Erased(callsVector, c) = RemoveAt(callsVector, k)
<1> DEFINE k == CHOOSE i \in DOMAIN callsVector : callsVector[i] = c
<1>1. Shape /\ DOMAIN callsVector = 1..Len(callsVector)
  BY TypeShape, LenProperties DEF Shape
<1>2. \E i \in DOMAIN callsVector : callsVector[i] = c
  BY <1>1 DEF CallsInv, LiveHeld
<1>3. k \in DOMAIN callsVector /\ callsVector[k] = c
  BY <1>2
<1>4. c \in ToSet(callsVector)
  BY <1>2 DEF ToSet
<1>5. Erased(callsVector, c) = RemoveAt(callsVector, k)
  BY <1>4 DEF Erased
<1> HIDE DEF k
<1>6. QED
  BY <1>1, <1>3, <1>5

LEMMA ErasedInactive ==
  ASSUME TypeInv, CallsInv, NEW c \in Calls, callState[c] \notin Live
  PROVE  Erased(callsVector, c) = callsVector
<1>1. Shape /\ DOMAIN callsVector = 1..Len(callsVector)
  BY TypeShape, LenProperties DEF Shape
<1>2. c \notin ToSet(callsVector)
  BY <1>1 DEF CallsInv, ActiveLive, ToSet
<1>3. QED
  BY <1>2 DEF Erased

\* The library ends a live call: it leaves the active calls.
LEMMA EndStep ==
  ASSUME TypeInv, CallsInv, LoopsStay, NEW c \in Calls, callState[c] \in Live, EndCall(c)
  PROVE  CallsInv'
<1>1. Shape
  BY TypeShape
<1>2. PICK k \in 1..Len(callsVector) :
        callsVector[k] = c /\ callsVector' = RemoveAt(callsVector, k)
  BY ErasedActive DEF EndCall
<1>3. DOMAIN callsVector = 1..Len(callsVector)
  BY <1>1, LenProperties DEF Shape
<1>4. callState' = [callState EXCEPT ![c] = "Error"]
  BY DEF EndCall
<1>5. /\ Len(callsVector') = Len(callsVector) - 1
      /\ \A j \in 1..(Len(callsVector) - 1) :
           callsVector'[j] = IF j < k THEN callsVector[j] ELSE callsVector[j + 1]
  BY <1>1, <1>2, <1>3, RemoveAtType DEF Shape
<1>6. Leaves(k)
  BY <1>1, <1>2, <1>4, <1>5 DEF Leaves, Shape
<1>7. QED
  BY <1>1, <1>6, LeaveStep

\* Silencing entries makes no call ring.
LEMMA RingingCalls ==
  ASSUME TypeInv, RingingEntriesRing, NEW d \in Ringing(incomingCallsVector)
  PROVE  d \in Calls /\ callState[d] = "IncomingReceived"
BY RingingType DEF TypeInv, TypeOK, RingingEntriesRing

-----------------------------------------------------------------------------
(* Every step keeps the active calls in line with the calls and the loops. *)

LEMMA LibraryCalls ==
  ASSUME TypeInv, StackInv, Library
  PROVE  CallsInv'
<1>0. Shape /\ CallsInv
  BY TypeShape DEF StackInv
<1>1. ASSUME NEW c \in Calls, IncomingReceived(c)
      PROVE  CallsInv'
  <2>1. \A d \in Calls : Quiet(d)
    BY <1>0, <1>1 DEF IncomingReceived, Quiet, Shape, Live
  <2>2. QED
    BY <1>0, <1>1, <2>1, SameLoops, QuietStep DEF IncomingReceived, loopVars
<1>2. ASSUME NEW c \in Calls, RemoteEnds(c)
      PROVE  CallsInv'
  <2>1. EndCall(c) /\ LoopsStay
    BY <1>2, SameLoops DEF RemoteEnds, loopVars
  <2>2. CASE callState[c] \in Live
    BY <1>0, <2>1, <2>2, EndStep
  <2>3. CASE callState[c] \notin Live
    <3>1. UNCHANGED callsVector
      BY <1>0, <2>1, <2>3, ErasedInactive DEF EndCall
    <3>2. \A d \in Calls : Quiet(d)
      BY <1>0, <2>1, <2>3 DEF EndCall, Quiet, Shape, Live
    <3>3. QED
      BY <1>0, <2>1, <3>1, <3>2, QuietStep
  <2>4. QED
    BY <2>2, <2>3
<1>3. ASSUME NEW c \in Calls, Failed(c)
      PROVE  CallsInv'
  <2> DEFINE k == Len(callsVector)
  <2>1. k \in 1..Len(callsVector) /\ callsVector[k] = c /\ callsVector # <<>>
    BY <1>0, <1>3, EmptySeq DEF Failed, CallsInv, DialledIsLast, Shape
  <2>2. callsVector' = Front(callsVector) /\ LoopsStay
          /\ callState' = [callState EXCEPT ![c] = "Referred"]
    BY <1>3, <2>1, SameLoops DEF Failed, loopVars
  <2>3. Leaves(k)
    <3>1. Len(callsVector') = Len(callsVector) - 1
            /\ \A j \in 1..(Len(callsVector) - 1) : callsVector'[j] = callsVector[j]
      BY <1>0, <2>1, <2>2, FrontType DEF Shape
    <3>2. \A j \in 1..(Len(callsVector) - 1) : j < k
      BY <1>0 DEF Shape
    <3>3. QED
      BY <1>0, <2>1, <2>2, <3>1, <3>2 DEF Leaves, Shape
  <2>4. QED
    BY <1>0, <2>1, <2>2, <2>3, LeaveStep
<1>4. ASSUME NEW c \in Calls, Moved(c)
      PROVE  CallsInv'
  <2>1. \A d \in Calls : Quiet(d)
    BY <1>0, <1>4 DEF Moved, Moves, Quiet, Shape, Live
  <2>2. QED
    BY <1>0, <1>4, <2>1, SameLoops, QuietStep DEF Moved, loopVars
<1>5. QED
  BY <1>1, <1>2, <1>3, <1>4 DEF Library

\* Nothing changes but what the callback does not look at.
LEMMA StillCalls ==
  ASSUME TypeInv, StackInv, LoopsStay, UNCHANGED <<callState, callsVector>>
  PROVE  CallsInv'
<1>1. Shape /\ CallsInv
  BY TypeShape DEF StackInv
<1>2. \A d \in Calls : Quiet(d)
  BY DEF Quiet
<1>3. QED
  BY <1>1, <1>2, QuietStep

LEMMA ProgramCalls ==
  ASSUME TypeInv, StackInv, Program
  PROVE  CallsInv'
<1>0. TypeOK /\ Shape /\ CallsInv
  BY TypeShape DEF StackInv, TypeInv
<1>1. CASE MainTurn \/ CouldNotCall
  BY <1>1, SameLoops, StillCalls DEF MainTurn, CouldNotCall, loopVars
<1>2. CASE CallTurn
  <2> DEFINE f == Noticed(Top, callState[Top.call])
  <2>1. InCall /\ Top \in Frame
    BY <1>0, <1>2, TopType DEF CallTurn
  <2>2. frames' = [frames EXCEPT ![Len(frames)] = f]
    BY <1>2, Zenon DEF CallTurn
  <2>3. f \in Frame /\ f.auxCall = Top.auxCall
    BY <2>1 DEF Frame, Noticed
  <2> HIDE DEF f
  <2>4. LoopsStay
    BY <2>1, <2>2, <2>3, TopReplaced
  <2>5. QED
    BY <1>2, <2>4, StillCalls DEF CallTurn
<1>3. CASE Lookup
  <2>1. InCall /\ Top \in Frame
    BY <1>0, <1>3, TopType DEF Lookup, TypeInv, LoopRuns
  <2>2. Restored(Top) \in Frame /\ Restored(Top).auxCall = Top.auxCall
    BY <2>1 DEF Frame, Restored
  <2>3. frames' = [frames EXCEPT ![Len(frames)] = Restored(Top)] \/ UNCHANGED frames
    BY <1>3, Zenon DEF Lookup
  <2>4. LoopsStay
    BY <2>1, <2>2, <2>3, TopReplaced, SameLoops
  <2>5. QED
    BY <1>3, <2>4, StillCalls DEF Lookup
<1>4. CASE Return
  <2>1. InCall /\ Top \in Frame /\ Len(frames) \in Nat \ {0} /\ callState[Top.auxCall] \notin Live
    BY <1>0, <1>4, TopType DEF Return, TypeInv, LoopRuns, StackInv, LeftWhenOver
  <2> DEFINE outer == Front(frames)
             f == [outer[Len(outer)] EXCEPT !.call = Top.call]
  <2>2. /\ outer \in Seq(Frame) /\ Len(outer) = Len(frames) - 1
        /\ \A a \in 1..(Len(frames) - 1) : outer[a] = frames[a]
    BY <1>0, <2>1, FrontType DEF TypeOK, InCall
  <2>3. /\ Len(frames') = Len(frames) - 1
        /\ \A a \in 1..(Len(frames) - 1) : frames'[a].auxCall = frames[a].auxCall
    <3>1. CASE outer # <<>> /\ ~Top.own
      <4>1. frames' = [outer EXCEPT ![Len(outer)] = f]
        BY <1>4, <3>1, Zenon DEF Return
      <4>2. Len(outer) \in 1..Len(outer) /\ outer[Len(outer)] \in Frame
        BY <2>2, <3>1, EmptySeq, ElementOfSeq
      <4>3. f \in Frame /\ f.auxCall = outer[Len(outer)].auxCall
        BY <2>1, <4>2 DEF Frame
      <4> HIDE DEF outer, f
      <4>4. /\ Len(frames') = Len(outer)
            /\ \A a \in 1..Len(outer) : frames'[a] = IF a = Len(outer) THEN f ELSE outer[a]
        BY <2>2, <4>1, <4>2, <4>3, ExceptSeq
      <4>5. QED
        BY <2>2, <4>3, <4>4
    <3>2. CASE ~(outer # <<>> /\ ~Top.own)
      <4>1. frames' = outer
        BY <1>4, <3>2 DEF Return
      <4>2. QED
        BY <2>2, <4>1
    <3>3. QED
      BY <3>1, <3>2
  <2>4. UNCHANGED callsVector
    <3>1. CASE ClearsActive
      <4>1. \A a \in 1..Len(frames) : frames[a] = Top
        BY <3>1 DEF ClearsActive, Top
      <4>2. \A c \in Calls : callState[c] \notin Live
        BY <1>0, <2>1, <4>1 DEF CallsInv, LiveHeld
      <4>3. Len(callsVector) = 0
        BY <1>0, <4>2 DEF CallsInv, ActiveLive, Shape
      <4>4. callsVector = <<>>
        BY <1>0, <4>3, EmptySeq DEF Shape
      <4>5. QED
        BY <1>4, <3>1, <4>4 DEF Return
    <3>2. CASE ~ClearsActive
      BY <1>4, <3>2 DEF Return
    <3>3. QED
      BY <3>1, <3>2
  <2>5. UNCHANGED callState
    BY <1>4 DEF Return
  <2>6. Len(frames) > 0 /\ callState[frames[Len(frames)].auxCall] \notin Live
    BY <2>1 DEF Top
  <2>7. QED
    BY <1>0, <2>3, <2>4, <2>5, <2>6, PopStep
<1>5. QED
  BY <1>1, <1>2, <1>3, <1>4 DEF Program

\* A call on top of the loops of fs, which are the running ones.
LEMMA Entered ==
  ASSUME OneSetupAtATime, TypeInv, CallsInv, NEW c \in Calls, NEW own \in BOOLEAN,
         NEW fs \in Seq(Frame), Len(fs) = Len(frames),
         \A a \in 1..Len(frames) : fs[a].auxCall = frames[a].auxCall,
         SetupAllowed, callState[c] \in {"Idle", "IncomingReceived"},
         NEW s \in {"OutgoingInit", "Accepted"}, NEW D,
         \A d \in D : d \in Calls => callState[d] = "IncomingReceived",
         callState' = Started(c, s, D),
         callsVector' = Append(callsVector, c),
         frames' = Append(fs, NewFrame(c, own))
  PROVE  CallsInv'
<1>1. Shape
  BY TypeShape
<1>2. /\ Len(callsVector') = Len(callsVector) + 1
      /\ \A i \in 1..Len(callsVector) : callsVector'[i] = callsVector[i]
      /\ callsVector'[Len(callsVector) + 1] = c
  BY <1>1, AppendProperties DEF Shape
<1>3. NewFrame(c, own) \in Frame /\ NewFrame(c, own).auxCall = c
  BY DEF NewFrame, Frame
<1>4. /\ Len(frames') = Len(fs) + 1
      /\ \A a \in 1..Len(fs) : frames'[a] = fs[a]
      /\ frames'[Len(fs) + 1] = NewFrame(c, own)
  BY <1>3, AppendProperties
<1>5. /\ Len(frames') = Len(frames) + 1
      /\ \A a \in 1..Len(frames) : frames'[a].auxCall = frames[a].auxCall
      /\ frames'[Len(frames) + 1].auxCall = c
  BY <1>3, <1>4
<1>6. s \in State
  BY DEF State, Live
<1>7. callState'[c] = s /\ \A d \in Calls : d # c => Quiet(d)
  BY <1>6, StartedQuiet
<1>8. \A d \in Calls : callState[d] # "OutgoingInit"
  BY NoneSettling
<1>9. Enters(c)
  BY <1>2, <1>5, <1>7, <1>8 DEF Enters
<1>10. QED
  BY <1>1, <1>9, EnterStep

LEMMA CallCalls ==
  ASSUME OneSetupAtATime, TypeInv, StackInv, NEW c \in Calls, Call(c)
  PROVE  CallsInv'
<1> DEFINE fs == frames
           D == {}
           own == TRUE
           s == "OutgoingInit"
<1>1. CallsInv /\ fs \in Seq(Frame) /\ Len(fs) = Len(frames)
        /\ \A a \in 1..Len(frames) : fs[a].auxCall = frames[a].auxCall
  BY DEF StackInv, TypeInv, TypeOK
<1>2. /\ SetupAllowed /\ callState[c] \in {"Idle", "IncomingReceived"}
      /\ callState' = Started(c, s, D)
      /\ callsVector' = Append(callsVector, c)
      /\ frames' = Append(fs, NewFrame(c, own))
  BY DEF Call
<1>3. own \in BOOLEAN /\ s \in {"OutgoingInit", "Accepted"}
        /\ \A d \in D : d \in Calls => callState[d] = "IncomingReceived"
  OBVIOUS
<1> HIDE DEF fs, D, own, s
<1>4. QED
  BY <1>1, <1>2, <1>3, Entered

LEMMA AcceptCalls ==
  ASSUME OneSetupAtATime, TypeInv, RingingEntriesRing, StackInv,
         NEW n \in DOMAIN incomingCallsVector, Accept(n)
  PROVE  CallsInv'
<1> DEFINE c == incomingCallsVector[n].call
           f == [Top EXCEPT !.call = c]
           below == IF InCall THEN [frames EXCEPT ![Len(frames)].call = c] ELSE frames
<1>1. TypeOK /\ CallsInv /\ frames \in Seq(Frame)
  BY DEF StackInv, TypeInv, TypeOK
<1>2. c \in Calls
  <2>1. incomingCallsVector[n] \in IncCall
    BY <1>1, LenProperties DEF TypeOK
  <2>2. QED
    BY <2>1 DEF IncCall
<1>3. PICK D : /\ D \subseteq Ringing(incomingCallsVector)
               /\ callState' = Started(c, "Accepted", D)
  BY DEF Accept, Declined
<1>4. \A d \in D : d \in Calls => callState[d] = "IncomingReceived"
  BY <1>3, RingingCalls
<1>5. SetupAllowed /\ callState[c] = "IncomingReceived"
        /\ callsVector' = Append(callsVector, c)
  BY DEF Accept
<1>6. frames' = Append(below, NewFrame(c, FALSE))
  BY Zenon DEF Accept
<1>7. below \in Seq(Frame) /\ Len(below) = Len(frames)
        /\ \A a \in 1..Len(frames) : below[a].auxCall = frames[a].auxCall
  <2>1. CASE InCall
    <3>1. Len(frames) \in Nat \ {0} /\ Top \in Frame
      BY <1>1, <2>1, TopType
    <3>2. f \in Frame /\ f.auxCall = Top.auxCall
      BY <1>2, <3>1 DEF Frame
    <3>3. below = [frames EXCEPT ![Len(frames)] = f]
      BY <2>1, Zenon DEF Top
    <3> HIDE DEF below, f, c
    <3>4. /\ below \in Seq(Frame) /\ Len(below) = Len(frames)
          /\ \A a \in 1..Len(frames) : below[a] = IF a = Len(frames) THEN f ELSE frames[a]
      BY <1>1, <3>1, <3>2, <3>3, ExceptSeq
    <3>5. QED
      BY <3>2, <3>4 DEF Top
  <2>2. CASE ~InCall
    BY <1>1, <2>2
  <2>3. QED
    BY <2>1, <2>2
<1> HIDE DEF below, c
<1>8. QED
  BY <1>1, <1>2, <1>3, <1>4, <1>5, <1>6, <1>7, Entered

LEMMA HangupEffect ==
  ASSUME TypeInv, StackInv, Hangup
  PROVE  \/ pc' = "crashed" /\ UNCHANGED <<callState, callsVector, incomingCallsVector, frames>>
         \/ \E c \in Calls : /\ callState[c] \in Live /\ EndCall(c) /\ LoopsStay
                             /\ pc' = "return" /\ Top'.auxCall = Top.auxCall
                             /\ callsVector[Len(callsVector)] = c /\ Len(callsVector) > 0
<1>0. TypeOK /\ Shape /\ CallsInv
  BY TypeShape DEF StackInv, TypeInv
<1>1. CASE callsVector = <<>>
  BY <1>1 DEF Hangup
<1>2. CASE callsVector # <<>>
  <2> DEFINE c == Last(callsVector)
             f == [Top EXCEPT !.call = c]
  <2>1. c \in Calls /\ c = callsVector[Len(callsVector)] /\ callState[c] \in Live
          /\ Len(callsVector) > 0
    BY <1>0, <1>2, EmptySeq DEF Last, Shape, CallsInv, ActiveLive
  <2>2. EndCall(c) /\ pc' = "return"
    BY <1>2, <2>1 DEF Hangup
  <2>3. frames' = [frames EXCEPT ![Len(frames)] = f]
    BY <1>2, Zenon DEF Hangup, Top
  <2>4. InCall /\ f \in Frame /\ f.auxCall = Top.auxCall
    BY <1>0, <2>1, TopType DEF Hangup, Frame
  <2> HIDE DEF f, c
  <2>5. LoopsStay /\ Top' = f
    BY <2>3, <2>4, TopReplaced
  <2>6. QED
    BY <2>1, <2>2, <2>4, <2>5
<1>3. QED
  BY <1>1, <1>2

LEMMA CommandCalls ==
  ASSUME OneSetupAtATime, TypeInv, RingingEntriesRing, StackInv, Command
  PROVE  CallsInv'
<1>0. TypeOK /\ Shape /\ CallsInv
  BY TypeShape DEF StackInv, TypeInv
<1>1. CASE NoCommand \/ AcceptNoNumber \/ Browse \/ Register \/ End
  BY <1>1, SameLoops, StillCalls
     DEF NoCommand, AcceptNoNumber, Browse, Register, End, loopVars
<1>2. ASSUME NEW n \in DOMAIN incomingCallsVector, AcceptRefused(n)
      PROVE  CallsInv'
  BY <1>2, SameLoops, StillCalls DEF AcceptRefused
<1>3. CASE Decline
  <2>1. PICK D : D \subseteq Ringing(incomingCallsVector) /\ callState' = WithDeclined(D)
    <3>1. CASE DeclineAll
      BY <3>1 DEF DeclineAll
    <3>2. ASSUME NEW k \in DOMAIN incomingCallsVector, DeclineStopsAt(k)
          PROVE  \E D : D \subseteq Ringing(incomingCallsVector) /\ callState' = WithDeclined(D)
      <4> DEFINE gone == {incomingCallsVector[i].call :
                            i \in {j \in 1..(k - 1) : incomingCallsVector[j].status = 1}}
      <4>1. \A j \in 1..(k - 1) : j \in DOMAIN incomingCallsVector
        BY <1>0, <3>2, LenProperties DEF TypeOK
      <4>2. gone \subseteq Ringing(incomingCallsVector)
        BY <4>1 DEF Ringing
      <4>3. QED
        BY <3>2, <4>2 DEF DeclineStopsAt
    <3>3. QED
      BY <1>3, <3>1, <3>2 DEF Decline
  <2>2. \A d \in Calls : Quiet(d)
    <3>1. \A d \in D : callState[d] = "IncomingReceived"
      BY <2>1, RingingCalls
    <3>2. QED
      BY <2>1, <3>1 DEF WithDeclined, Quiet, Live
  <2>3. QED
    BY <1>0, <1>3, <2>2, SameLoops, QuietStep DEF Decline, loopVars
<1>4. CASE Hangup
  <2>1. CASE UNCHANGED <<callState, callsVector, frames>>
    BY <2>1, SameLoops, StillCalls
  <2>2. CASE \E c \in Calls : callState[c] \in Live /\ EndCall(c) /\ LoopsStay
    BY <1>0, <2>2, EndStep
  <2>3. QED
    BY <1>4, <2>1, <2>2, HangupEffect
<1>5. CASE Hold
  <2>1. \A d \in Calls : Quiet(d)
    BY <1>0, <1>5 DEF Hold, Quiet, Shape, Live
  <2>2. QED
    BY <1>0, <1>5, <2>1, SameLoops, QuietStep DEF Hold
<1>6. CASE Resume
  <2>1. CASE UNCHANGED callState
    BY <1>6, <2>1, SameLoops, StillCalls DEF Resume
  <2>2. CASE callState[Top.call] = "Paused" /\ callState' = Started(Top.call, "Resuming", {})
    <3>1. Top.call \in Calls
      BY <1>0, <1>6, TopType DEF Resume, Frame
    <3>2. callState'[Top.call] = "Resuming" /\ \A d \in Calls : d # Top.call => Quiet(d)
      BY <2>2, <3>1, StartedQuiet DEF State, Live
    <3>3. Quiet(Top.call)
      BY <2>2, <3>2 DEF Quiet, Live
    <3>4. \A d \in Calls : Quiet(d)
      BY <3>2, <3>3
    <3>5. QED
      BY <1>0, <1>6, <3>4, SameLoops, QuietStep DEF Resume
  <2>3. QED
    BY <1>6, <2>1, <2>2 DEF Resume
<1>7. QED
  BY <1>1, <1>2, <1>3, <1>4, <1>5, <1>6, CallCalls, AcceptCalls DEF Command

-----------------------------------------------------------------------------
(* Every step keeps the loops in line with the program's place in them. *)

LEMMA LibraryLoops ==
  ASSUME Library, LeftWhenOver
  PROVE  LeftWhenOver'
<1>1. pc' # "return"
  BY DEF Library, IncomingReceived, RemoteEnds, Failed, Moved, Iterating
<1>2. QED
  BY <1>1 DEF LeftWhenOver

LEMMA ProgramLoops ==
  ASSUME TypeInv, StackInv, Program
  PROVE  LeftWhenOver'
<1> USE DEF LeftWhenOver
<1>0. TypeOK /\ Shape /\ CallsInv
  BY TypeShape DEF StackInv, TypeInv
<1>1. CASE MainTurn \/ CallTurn \/ Return
  BY <1>1 DEF MainTurn, CallTurn, Return, ShowNotices
<1>2. CASE CouldNotCall
  <2>1. Top.call = Top.auxCall /\ callState[Top.call] = "Updating"
    BY <1>2 DEF CouldNotCall, StackInv, LoopDrivesOwnCall
  <2>2. pc' = "return" /\ UNCHANGED <<callState, frames>>
    BY <1>2 DEF CouldNotCall, loopVars
  <2>3. QED
    BY <2>1, <2>2 DEF Top, Live
<1>3. CASE Lookup
  <2>1. InCall /\ Top \in Frame /\ Top.auxCall \in Calls
    BY <1>0, <1>3, TopType DEF Lookup, TypeInv, LoopRuns, Frame
  <2>2. CASE Top.auxCall \in ToSet(callsVector)
    <3>1. Restored(Top) \in Frame /\ Restored(Top).call = Top.auxCall
            /\ Restored(Top).auxCall = Top.auxCall
      BY <2>1 DEF Frame, Restored
    <3>2. frames' = [frames EXCEPT ![Len(frames)] = Restored(Top)]
      BY <1>3, <2>2, Zenon DEF Lookup
    <3>3. Top' = Restored(Top)
      BY <2>1, <3>1, <3>2, TopReplaced
    <3>4. outgoingCallee' = Top.auxCall /\ UNCHANGED callState
            /\ pc' = (IF callState[Top.auxCall] = "Error" THEN "return" ELSE "iterate")
      BY <1>3, <2>2 DEF Lookup
    <3>5. QED
      BY <3>1, <3>3, <3>4 DEF Live
  <2>3. CASE Top.auxCall \notin ToSet(callsVector)
    <3>1. callState[Top.auxCall] \notin Live
      <4>1. DOMAIN callsVector = 1..Len(callsVector)
        BY <1>0, LenProperties DEF Shape
      <4>2. QED
        BY <2>1, <2>3, <4>1, <1>0 DEF CallsInv, LiveHeld, ToSet
    <3>2. pc' = "return" /\ UNCHANGED <<callState, frames>>
      BY <1>3, <2>3 DEF Lookup
    <3>3. QED
      BY <3>1, <3>2 DEF Top
  <2>4. QED
    BY <2>2, <2>3
<1>4. QED
  BY <1>1, <1>2, <1>3 DEF Program

\* The newest active call is that of the loop that reads commands.
LEMMA NewestIsTop ==
  ASSUME Shape, CallsInv, InCall, Top.auxCall \in Calls, Len(frames) \in Nat \ {0},
         callState[Top.auxCall] \in Live
  PROVE  Len(callsVector) > 0 /\ callsVector[Len(callsVector)] = Top.auxCall
<1>1. PICK i \in 1..Len(callsVector) : callsVector[i] = Top.auxCall
  BY DEF CallsInv, LiveHeld
<1>2. Len(callsVector) \in 1..Len(callsVector)
  BY DEF Shape
<1>3. PICK b \in 1..Len(frames) : frames[b].auxCall = callsVector[Len(callsVector)]
  BY <1>2 DEF CallsInv, LiveHeld, ActiveLive, Shape
<1>4. ~(i < Len(callsVector))
  <2>1. SUFFICES ASSUME i < Len(callsVector) PROVE FALSE
    OBVIOUS
  <2>2. Len(frames) < b
    BY <1>1, <1>2, <1>3, <2>1 DEF CallsInv, SameOrder, Top
  <2>3. QED
    BY <2>2
<1>5. QED
  BY <1>1, <1>2, <1>4 DEF Shape

LEMMA CommandLoops ==
  ASSUME TypeInv, StackInv, Command
  PROVE  LeftWhenOver'
<1>0. TypeOK /\ Shape /\ CallsInv /\ frames \in Seq(Frame)
  BY TypeShape DEF StackInv, TypeInv, TypeOK
<1>1. CASE ~Hangup
  <2>1. pc' # "return"
    BY <1>1 DEF Command, NoCommand, AcceptNoNumber, Decline, Hold, Resume, Browse,
                Register, End, Call, Accept, AcceptRefused, AfterCommand
  <2>2. QED
    BY <2>1 DEF LeftWhenOver
<1>2. CASE Hangup
  <2>1. CASE pc' = "crashed"
    BY <2>1 DEF LeftWhenOver
  <2>2. ASSUME NEW c \in Calls, EndCall(c), LoopsStay, pc' = "return",
               Top'.auxCall = Top.auxCall,
               callsVector[Len(callsVector)] = c, Len(callsVector) > 0
        PROVE  LeftWhenOver'
    <3>1. InCall /\ Len(frames) \in Nat \ {0} /\ Top.auxCall \in Calls
      BY <1>0, <1>2, TopType DEF Hangup, Frame
    <3>2. callState[Top.auxCall] \in Live => Top.auxCall = c
      BY <1>0, <2>2, <3>1, NewestIsTop
    <3>3. callState'[Top.auxCall] \notin Live
      BY <1>0, <2>2, <3>1, <3>2 DEF EndCall, Shape, Live
    <3>4. QED
      BY <2>2, <3>3 DEF LeftWhenOver
  <2>3. QED
    BY <1>2, <2>1, <2>2, HangupEffect
<1>3. QED
  BY <1>1, <1>2

-----------------------------------------------------------------------------
(* The invariant of the program and what follows from it. *)

ProgramInv == TypeInv /\ RingingEntriesRing /\ StackInv

LEMMA StackInit == Init => StackInv
<1> SUFFICES ASSUME Init PROVE StackInv
  OBVIOUS
<1>1. /\ callsVector = <<>> /\ frames = <<>> /\ Len(callsVector) = 0 /\ Len(frames) = 0
      /\ \A c \in Calls : callState[c] = "Idle"
      /\ pc = "iterate"
  BY EmptySeq DEF Init
<1>2. QED
  BY <1>1 DEF StackInv, CallsInv, ActiveLive, LiveHeld, SameOrder, LoopsStarted,
              DialledIsLast, LeftWhenOver, LoopDrivesOwnCall, InCall, Live

LEMMA StackStep ==
  ASSUME OneSetupAtATime, ProgramInv, [Next]_vars
  PROVE  StackInv'
<1> USE DEF ProgramInv
<1>0. LoopDrivesOwnCall'
  BY DriveStep DEF StackInv
<1>1. CASE Library \/ Program \/ Command
  <2>1. CallsInv'
    BY <1>1, LibraryCalls, ProgramCalls, CommandCalls
  <2>2. LeftWhenOver'
    BY <1>1, LibraryLoops, ProgramLoops, CommandLoops DEF StackInv
  <2>3. QED
    BY <1>0, <2>1, <2>2 DEF StackInv
<1>2. CASE LeaveLoop
  <2>1. CallsInv'
    BY <1>2, SameLoops, StillCalls DEF LeaveLoop, loopVars
  <2>2. pc' # "return"
    BY <1>2 DEF LeaveLoop, AfterCommand
  <2>3. QED
    BY <1>0, <2>1, <2>2 DEF StackInv, LeftWhenOver
<1>3. CASE UNCHANGED vars
  <2>1. CallsInv'
    BY <1>3, SameLoops, StillCalls DEF vars
  <2>2. QED
    BY <1>0, <1>3, <2>1 DEF vars, StackInv, LeftWhenOver, Top
<1>4. QED
  BY <1>1, <1>2, <1>3 DEF Next

LEMMA InvariantHolds ==
  ASSUME OneSetupAtATime
  PROVE  Spec => []ProgramInv
<1>1. Init => ProgramInv
  BY InitType, RingingInit, StackInit DEF ProgramInv
<1>2. ProgramInv /\ [Next]_vars => ProgramInv'
  BY NextType, RingingStep, StackStep DEF ProgramInv
<1>3. QED
  BY <1>1, <1>2, PTL DEF Spec

LEMMA InvariantSays ==
  ASSUME ProgramInv
  PROVE  HangupEndsOwnCall /\ NoOrphanCall /\ FailurePopsItself
<1>0. /\ TypeOK /\ Shape /\ CallsInv
      /\ DOMAIN callsVector = 1..Len(callsVector)
      /\ DOMAIN frames = 1..Len(frames)
  <2>1. Shape
    BY TypeShape DEF ProgramInv
  <2>2. frames \in Seq(Frame) /\ TypeOK
    BY DEF ProgramInv, TypeInv, TypeOK
  <2>3. QED
    BY <2>1, <2>2, LenProperties DEF ProgramInv, StackInv, Shape
<1>2. HangupEndsOwnCall
  <2> SUFFICES ASSUME InCall, callState[Top.auxCall] \in Live
               PROVE  callsVector # <<>> /\ Last(callsVector) = Top.auxCall
    BY DEF HangupEndsOwnCall
  <2>1. Top.auxCall \in Calls /\ Len(frames) \in Nat \ {0}
    BY <1>0, TopType DEF Frame
  <2>2. Len(callsVector) > 0 /\ callsVector[Len(callsVector)] = Top.auxCall
    BY <1>0, <2>1, NewestIsTop
  <2>3. QED
    BY <2>2, EmptySeq DEF Last
<1>3. NoOrphanCall
  BY <1>0 DEF NoOrphanCall, Owned, ToSet, CallsInv, LiveHeld
<1>4. FailurePopsItself
  BY <1>0, EmptySeq DEF FailurePopsItself, CallsInv, DialledIsLast, Last
<1>5. QED
  BY <1>2, <1>3, <1>4

\* hangup takes the newest active call, and that is the call of the loop that
\* reads the command, as long as this call is live.
THEOREM HangupEndsTheCallTalkedIn ==
  ASSUME OneSetupAtATime
  PROVE  Spec => []HangupEndsOwnCall
BY InvariantHolds, InvariantSays, PTL

\* No call is left running that no loop drives and no command reaches.
THEOREM NoCallIsOrphaned ==
  ASSUME OneSetupAtATime
  PROVE  Spec => []NoOrphanCall
BY InvariantHolds, InvariantSays, PTL

\* The callback for a failed call pops that call, and never an empty vector.
THEOREM FailurePopsTheFailed ==
  ASSUME OneSetupAtATime
  PROVE  Spec => []FailurePopsItself
BY InvariantHolds, InvariantSays, PTL
-----------------------------------------------------------------------------
(* What the loops do when calls end: no turn for a dead call, and a way out
   that gets shorter with every step.                                        *)

\* A call that a loop finds among the active ones is live.
LEMMA FoundIsLive ==
  ASSUME ProgramInv, NEW c \in ToSet(callsVector)
  PROVE  callState[c] \in Live
<1>1. Shape /\ ActiveLive
  BY TypeShape DEF ProgramInv, StackInv, CallsInv
<1>2. DOMAIN callsVector = 1..Len(callsVector)
  BY <1>1, LenProperties DEF Shape
<1>3. QED
  BY <1>1, <1>2 DEF ActiveLive, ToSet

\* Leaving the last loop leaves none.
LEMMA LastLoopLeft ==
  ASSUME ProgramInv, Return
  PROVE  /\ Len(frames) \in Nat \ {0}
         /\ Len(frames') = Len(frames) - 1
         /\ Len(frames) = 1 => ~InCall'
<1>0. TypeOK /\ InCall
  BY DEF ProgramInv, TypeInv, LoopRuns, Return
<1> DEFINE outer == Front(frames)
           f == [outer[Len(outer)] EXCEPT !.call = Top.call]
<1>1. /\ Len(frames) \in Nat \ {0} /\ Top \in Frame
      /\ outer \in Seq(Frame) /\ Len(outer) = Len(frames) - 1
  BY <1>0, TopType
<1>2. CASE outer # <<>> /\ ~Top.own
  <2>1. Len(outer) \in 1..Len(outer)
    BY <1>1, <1>2, EmptySeq
  <2>2. outer[Len(outer)] \in Frame
    BY <1>1, <2>1, ElementOfSeq
  <2>3. f \in Frame
    BY <1>1, <2>2 DEF Frame
  <2>4. frames' = [outer EXCEPT ![Len(outer)] = f]
    BY <1>2, Zenon DEF Return
  <2> HIDE DEF f, outer
  <2>5. Len(frames') = Len(outer)
    BY <1>1, <2>1, <2>3, <2>4, ExceptSeq
  <2>6. Len(frames) # 1
    BY <1>1, <2>1
  <2>7. QED
    BY <1>1, <2>5, <2>6
<1>3. CASE outer = <<>> \/ Top.own
  <2>1. frames' = outer
    BY <1>3, Zenon DEF Return
  <2> HIDE DEF outer
  <2>2. Len(frames) = 1 => outer = <<>>
    BY <1>1, EmptySeq
  <2>3. QED
    BY <1>1, <2>1, <2>2 DEF InCall
<1>4. QED
  BY <1>2, <1>3

\* The call that call or accept enters is live in its loop.
LEMMA EnteredIsLive ==
  ASSUME TypeOK, NEW c \in Calls, NEW s \in Live, NEW D, NEW own \in BOOLEAN,
         NEW fs \in Seq(Frame),
         frames' = Append(fs, NewFrame(c, own)), callState' = Started(c, s, D)
  PROVE  callState'[Top'.auxCall] \in Live /\ SomeLive'
<1>1. NewFrame(c, own) \in Frame /\ NewFrame(c, own).auxCall = c
  BY DEF NewFrame, Frame
<1>2. frames'[Len(frames')] = NewFrame(c, own)
  BY <1>1, AppendProperties
<1>3. callState'[c] = s
  BY DEF Started
<1>4. QED
  BY <1>1, <1>2, <1>3 DEF Top, SomeLive

LEMMA CallEnters ==
  ASSUME TypeOK, NEW c \in Calls, Call(c)
  PROVE  callState'[Top'.auxCall] \in Live /\ SomeLive'
<1> DEFINE own == TRUE
           s == "OutgoingInit"
           D == {}
<1>1. /\ own \in BOOLEAN /\ s \in Live /\ frames \in Seq(Frame)
      /\ frames' = Append(frames, NewFrame(c, own)) /\ callState' = Started(c, s, D)
  BY DEF Call, Live, TypeOK
<1> HIDE DEF own, s, D
<1>2. QED
  BY <1>1, EnteredIsLive

LEMMA AcceptEnters ==
  ASSUME TypeOK, NEW n \in DOMAIN incomingCallsVector, Accept(n)
  PROVE  callState'[Top'.auxCall] \in Live /\ SomeLive'
<1> DEFINE c == incomingCallsVector[n].call
           fs == IF InCall THEN [frames EXCEPT ![Len(frames)].call = c] ELSE frames
           own == FALSE
           s == "Accepted"
<1>1. c \in Calls
  <2>1. incomingCallsVector[n] \in IncCall
    BY LenProperties DEF TypeOK
  <2>2. QED
    BY <2>1 DEF IncCall
<1>2. PICK D : callState' = Started(c, s, D)
  BY DEF Accept
<1>3. own \in BOOLEAN /\ s \in Live
  BY DEF Live
<1>4. frames' = Append(fs, NewFrame(c, own))
  BY Zenon DEF Accept
<1> HIDE DEF c
<1>5. fs \in Seq(Frame)
  BY <1>1, PassedOn
<1> HIDE DEF fs, own, s
<1>6. QED
  BY <1>1, <1>2, <1>3, <1>4, <1>5, EnteredIsLive

\* What a command does to the program's place: it enters a live call, or goes on
\* to a later place in the same loops.
LEMMA CommandLeads ==
  ASSUME ProgramInv, Command
  PROVE  \/ callState'[Top'.auxCall] \in Live /\ SomeLive'
         \/ /\ pc = "recv" /\ Len(frames') = Len(frames)
            /\ \/ pc' = AfterCommand /\ (InCall' <=> InCall)
               \/ pc' \in {"return", "browse", "ended", "crashed"}
               \/ pc' = "register" /\ ~InCall
<1>0. TypeInv /\ TypeOK /\ StackInv
  BY DEF ProgramInv, TypeInv
<1>1. CASE NoCommand \/ AcceptNoNumber \/ Decline \/ Hold \/ Resume
  BY <1>1 DEF NoCommand, AcceptNoNumber, Decline, Hold, Resume, loopVars, InCall
<1>2. CASE Browse \/ Register \/ End
  BY <1>2 DEF Browse, Register, End, loopVars
<1>3. CASE Hangup
  <2>1. LoopsStay \/ UNCHANGED frames
    BY <1>0, <1>3, HangupEffect
  <2>2. QED
    BY <1>3, <2>1 DEF Hangup, LoopsStay
<1>4. ASSUME NEW n \in DOMAIN incomingCallsVector, AcceptRefused(n)
      PROVE  pc = "recv" /\ pc' = AfterCommand /\ UNCHANGED frames
  BY <1>4 DEF AcceptRefused, Acceptable
<1>5. QED
  BY <1>0, <1>1, <1>2, <1>3, <1>4, CallEnters, AcceptEnters DEF Command, InCall

LEMMA TurnStep ==
  ASSUME ProgramInv, [Next]_vars, pc # "iterate", pc' = "iterate", InCall'
  PROVE  callState'[Top'.auxCall] \in Live
<1>0. TypeInv /\ TypeOK
  BY DEF ProgramInv, TypeInv
<1>1. CASE Lookup
  <2>1. InCall /\ Top \in Frame
    BY <1>0, <1>1, TopType DEF Lookup, TypeInv, LoopRuns
  <2>2. Top.auxCall \in ToSet(callsVector)
    BY <1>1 DEF Lookup
  <2>3. Restored(Top) \in Frame /\ Restored(Top).auxCall = Top.auxCall
    BY <2>1 DEF Frame, Restored
  <2>4. frames' = [frames EXCEPT ![Len(frames)] = Restored(Top)]
    BY <1>1, <2>2, Zenon DEF Lookup
  <2>5. Top' = Restored(Top) /\ UNCHANGED callState
    BY <1>0, <1>1, <2>1, <2>3, <2>4, TopAfter DEF Lookup
  <2>6. QED
    BY <2>2, <2>3, <2>5, FoundIsLive
<1>2. ~Return
  BY LastLoopLeft DEF Return
<1>3. ~Library /\ ~MainTurn /\ ~CallTurn /\ ~CouldNotCall /\ ~UNCHANGED vars
  BY DEF Library, IncomingReceived, RemoteEnds, Failed, Moved, MainTurn, CallTurn,
         CouldNotCall, ShowNotices, vars
<1>4. ~LeaveLoop
  BY DEF LeaveLoop, AfterCommand, InCall, loopVars
<1>5. CASE Command
  BY <1>5, CommandLeads DEF AfterCommand
<1>6. QED
  BY <1>1, <1>2, <1>3, <1>4, <1>5 DEF Next, Program

LEMMA ShrinkStep ==
  ASSUME ProgramInv, [Next]_vars, InCall, ~SomeLive, ~SomeLive'
  PROVE  StepsLeft' < StepsLeft \/ UNCHANGED <<pc, frames>>
<1> USE DEF StepsLeft
<1>0. /\ TypeInv /\ TypeOK /\ Top \in Frame /\ Len(frames) \in Nat \ {0}
      /\ frames \in Seq(Frame)
  BY TopType DEF ProgramInv, TypeInv, TypeOK
<1>1. CASE Library
  <2>1. PICK c \in Calls : IncomingReceived(c) \/ RemoteEnds(c) \/ Failed(c) \/ Moved(c)
    BY <1>1 DEF Library
  <2>2. ~Failed(c)
    BY DEF Failed, SomeLive, Live
  <2>3. QED
    BY <2>1, <2>2 DEF IncomingReceived, RemoteEnds, Moved, loopVars
<1>2. CASE CallTurn
  <2>1. Len(frames') = Len(frames)
    <3> DEFINE f == Noticed(Top, callState[Top.call])
    <3>1. f \in Frame
      BY <1>0 DEF Frame, Noticed
    <3>2. frames' = [frames EXCEPT ![Len(frames)] = f]
      BY <1>2, Zenon DEF CallTurn
    <3> HIDE DEF f
    <3>3. QED
      BY <1>0, <3>1, <3>2, ExceptSeq
  <2>2. pc = "iterate" /\ pc' = "recv"
    BY <1>2 DEF CallTurn, ShowNotices
  <2>3. QED
    BY <1>0, <2>1, <2>2
<1>3. CASE CouldNotCall
  <2>1. pc = "iterate" /\ pc' = "return" /\ UNCHANGED frames
    BY <1>3 DEF CouldNotCall, loopVars
  <2>2. QED
    BY <1>0, <2>1
<1>4. CASE Lookup
  <2>1. Top.auxCall \notin ToSet(callsVector)
    <3>1. Top.auxCall \in Calls
      BY <1>0 DEF Frame
    <3>2. QED
      BY <3>1, FoundIsLive DEF SomeLive
  <2>2. pc = "lookup" /\ pc' = "return" /\ UNCHANGED frames
    BY <1>4, <2>1 DEF Lookup
  <2>3. QED
    BY <1>0, <2>2
<1>5. CASE Return
  <2>1. Len(frames') = Len(frames) - 1
    BY <1>5, LastLoopLeft
  <2>2. pc = "return" /\ pc' \in {"iterate", "lookup"}
    BY <1>5 DEF Return
  <2>3. QED
    BY <1>0, <2>1, <2>2
<1>6. CASE LeaveLoop
  <2>1. pc \in {"browse", "register"} /\ pc' = "lookup" /\ UNCHANGED frames
    BY <1>6 DEF LeaveLoop, AfterCommand, loopVars
  <2>2. QED
    BY <1>0, <2>1
<1>7. CASE Command
  <2>1. /\ pc = "recv" /\ Len(frames') = Len(frames)
        /\ pc' \in {"lookup", "return", "browse", "ended", "crashed"}
    BY <1>7, CommandLeads DEF AfterCommand
  <2>2. QED
    BY <1>0, <2>1
<1>8. ~MainTurn
  BY DEF MainTurn
<1>9. QED
  BY <1>1, <1>2, <1>3, <1>4, <1>5, <1>6, <1>7, <1>8 DEF Next, Program, vars

\* No call_loop begins a turn for a call that is over: the loop whose call ended
\* during another one's turn, or while the user browsed, is left at its lookup.
THEOREM NoTurnForADeadCall ==
  ASSUME OneSetupAtATime
  PROVE  Spec => TurnsOnlyWhileLive
<1>1. ProgramInv /\ [Next]_vars
        => [pc # "iterate" /\ pc' = "iterate" /\ InCall'
              => callState'[Top'.auxCall] \in Live]_vars
  BY TurnStep
<1>2. QED
  BY <1>1, InvariantHolds, PTL DEF Spec, TurnsOnlyWhileLive

\* The safety half of LoopsUnwind: while no call is live every step of the
\* program lowers StepsLeft, so at most that many of them, each of which the
\* fairness of the program brings about, lie between it and the main loop.
THEOREM LoopsShrink ==
  ASSUME OneSetupAtATime
  PROVE  Spec => NestedLoopsShrink
<1>1. ProgramInv /\ [Next]_vars
        => [InCall /\ ~SomeLive /\ ~SomeLive'
              => StepsLeft' < StepsLeft \/ UNCHANGED <<pc, frames>>]_vars
  BY ShrinkStep
<1>2. QED
  BY <1>1, InvariantHolds, PTL DEF Spec, NestedLoopsShrink
=============================================================================
