------------------------- MODULE CallStackRefinement -------------------------
(***************************************************************************)
(* Proof that CallControl implements CallStack, for any set of calls and a *)
(* library that sets up one call at a time.                                *)
(***************************************************************************)
EXTENDS CallStackProofs

seen    == {c \in Calls : callState[c] # "Idle"}
ringing == Ringing(incomingCallsVector)
up      == {c \in Calls : callState[c] \in Live}

AbstractStep == [Stack!Next]_(Stack!vars)

-----------------------------------------------------------------------------
(* The kinds of step. *)

\* Nothing is dialled, answered or ended; perhaps fewer calls ring.
LEMMA Silences ==
  ASSUME UNCHANGED <<seen, up, callsVector>>, ringing' \subseteq ringing
  PROVE  AbstractStep
<1> DEFINE D == ringing \ ringing'
<1>1. D \subseteq ringing /\ ringing' = ringing \ D
  OBVIOUS
<1> HIDE DEF D
<1>2. Stack!Silence(D)
  BY <1>1 DEF Stack!Silence, seen, ringing, up
<1>3. D \in SUBSET ringing
  BY <1>1
<1>4. Stack!Next
  BY <1>2, <1>3 DEF Stack!Next, ringing
<1>5. QED
  BY <1>4 DEF AbstractStep

\* A live call is over.
LEMMA Finishes ==
  ASSUME Shape, NEW c \in Calls, callState[c] \in Live,
         NEW s \in {"Error", "Referred"},
         callState' = [callState EXCEPT ![c] = s],
         NEW k \in 1..Len(callsVector),
         callsVector[k] = c, callsVector' = RemoveAt(callsVector, k),
         ringing' = ringing
  PROVE  AbstractStep
<1>1. UNCHANGED seen
  BY DEF seen, Shape, Live
<1>2. c \in up /\ up' = up \ {c}
  BY DEF up, Shape, Live
<1>3. k \in DOMAIN callsVector
  BY LenProperties DEF Shape
<1>4. \E i \in DOMAIN callsVector : callsVector[i] = c /\ callsVector' = RemoveAt(callsVector, i)
  BY <1>3
<1>5. Stack!Finish(c)
  BY <1>1, <1>2, <1>4 DEF Stack!Finish, Stack!RemoveAt, RemoveAt, seen, ringing, up
<1>6. Stack!Next
  BY <1>5, Zenon DEF Stack!Next
<1>7. QED
  BY <1>6 DEF AbstractStep

\* What silencing does to the set of ringing calls.
LEMMA SilencedRinging ==
  ASSUME NEW v \in Seq(IncCall), NEW D
  PROVE  Ringing(Silenced(v, D)) = Ringing(v) \ D
<1>1. Silenced(v, D) \in Seq(IncCall)
  BY SilencedType
<1>2. \A c : c \in Ringing(Silenced(v, D)) <=>
        \E i \in 1..Len(v) : v[i].call = c /\ v[i].status = 1 /\ c \notin D
  <2>1. ASSUME NEW c
        PROVE  c \in Ringing(Silenced(v, D)) <=>
                 \E i \in 1..Len(v) : Silenced(v, D)[i].call = c /\ Silenced(v, D)[i].status = 1
    BY <1>1, RingingType, SilencedType
  <2>2. ASSUME NEW c, NEW i \in 1..Len(v)
        PROVE  (Silenced(v, D)[i].call = c /\ Silenced(v, D)[i].status = 1) <=>
                 (v[i].call = c /\ v[i].status = 1 /\ c \notin D)
    BY SilencedType
  <2>3. QED
    BY <2>1, <2>2
<1>3. \A c : c \in Ringing(v) <=> \E i \in 1..Len(v) : v[i].call = c /\ v[i].status = 1
  BY RingingType
<1>4. QED
  BY <1>2, <1>3

\* Dropping the last element, as the callback for a failed call does.
LEMMA FrontRemoves ==
  ASSUME NEW S, NEW s \in Seq(S), s # <<>>
  PROVE  Front(s) = RemoveAt(s, Len(s))
<1>1. Len(s) \in Nat \ {0} /\ DOMAIN s = 1..Len(s)
  BY EmptySeq, LenProperties
<1>2. Front(s) \in Seq(S) /\ Len(Front(s)) = Len(s) - 1
        /\ \A i \in 1..(Len(s) - 1) : Front(s)[i] = s[i]
  BY FrontType
<1>3. RemoveAt(s, Len(s)) \in Seq(S) /\ Len(RemoveAt(s, Len(s))) = Len(s) - 1
        /\ \A j \in 1..(Len(s) - 1) : RemoveAt(s, Len(s))[j] = IF j < Len(s) THEN s[j] ELSE s[j + 1]
  <2>1. Len(s) \in DOMAIN s
    BY <1>1
  <2>2. QED
    BY <2>1, RemoveAtType
<1>4. \A i \in 1..(Len(s) - 1) : Front(s)[i] = RemoveAt(s, Len(s))[i]
  BY <1>1, <1>2, <1>3
<1>5. QED
  BY <1>2, <1>3, <1>4, SeqEqual

-----------------------------------------------------------------------------
(* Each step is one of CallStack's, or none. *)

\* The library, or hangup, ends a live call.
LEMMA EndFinishes ==
  ASSUME ProgramInv, NEW c \in Calls, callState[c] \in Live, EndCall(c)
  PROVE  AbstractStep
<1>1. Shape /\ incomingCallsVector \in Seq(IncCall)
  BY TypeShape DEF ProgramInv, TypeInv, TypeOK
<1>2. PICK k \in 1..Len(callsVector) :
        callsVector[k] = c /\ callsVector' = RemoveAt(callsVector, k)
  BY ErasedActive DEF EndCall, ProgramInv, StackInv
<1>3. ringing' = ringing
  <2>1. c \notin ringing
    BY RingingCalls DEF ProgramInv, ringing, Live
  <2>2. QED
    <3>1. incomingCallsVector' = Silenced(incomingCallsVector, {c})
      BY DEF EndCall
    <3>2. ringing' = ringing \ {c}
      BY <1>1, <3>1, SilencedRinging DEF ringing
    <3>3. QED
      BY <2>1, <3>2
<1>4. callState' = [callState EXCEPT ![c] = "Error"]
  BY DEF EndCall
<1>5. QED
  BY <1>1, <1>2, <1>3, <1>4, Finishes

LEMMA LibraryImplements ==
  ASSUME ProgramInv, Library
  PROVE  AbstractStep
<1>0. /\ TypeInv /\ Shape /\ CallsInv
      /\ incomingCallsVector \in Seq(IncCall)
  BY TypeShape DEF ProgramInv, TypeInv, TypeOK, StackInv
<1>1. ASSUME NEW c \in Calls, IncomingReceived(c)
      PROVE  AbstractStep
  <2> DEFINE e == [call |-> c, status |-> 1]
             v == incomingCallsVector
  <2>1. e \in IncCall /\ e.call = c /\ e.status = 1
    BY DEF IncCall
  <2>2. incomingCallsVector' = Append(v, e)
    BY <1>1 DEF IncomingReceived
  <2>3. ringing' = ringing \cup {c}
    <3> HIDE DEF e, v
    <3>1. v \in Seq(IncCall) /\ Len(v) \in Nat
      BY <1>0, LenProperties DEF v
    <3>2. /\ Append(v, e) \in Seq(IncCall)
          /\ Len(Append(v, e)) = Len(v) + 1
          /\ \A i \in 1..Len(v) : Append(v, e)[i] = v[i]
          /\ Append(v, e)[Len(v) + 1] = e
      BY <2>1, <3>1, AppendProperties
    <3>3. \A d : d \in Ringing(v) <=> \E i \in 1..Len(v) : v[i].call = d /\ v[i].status = 1
      BY <3>1, RingingType
    <3>4. \A d : d \in Ringing(Append(v, e)) <=>
             \E i \in 1..(Len(v) + 1) : Append(v, e)[i].call = d /\ Append(v, e)[i].status = 1
      <4> DEFINE w == Append(v, e)
      <4> HIDE DEF w
      <4>1. w \in Seq(IncCall) /\ Len(w) = Len(v) + 1
        BY <3>2 DEF w
      <4>2. \A d : d \in Ringing(w) <=>
              \E i \in 1..(Len(v) + 1) : w[i].call = d /\ w[i].status = 1
        BY <4>1, RingingType
      <4>3. QED
        BY <4>2 DEF w
    <3>5. ASSUME NEW d PROVE d \in Ringing(Append(v, e)) <=> d \in Ringing(v) \/ d = c
      <4>1. ASSUME d \in Ringing(Append(v, e)) PROVE d \in Ringing(v) \/ d = c
        <5>1. PICK i \in 1..(Len(v) + 1) :
                Append(v, e)[i].call = d /\ Append(v, e)[i].status = 1
          BY <3>4, <4>1
        <5>2. CASE i = Len(v) + 1
          BY <2>1, <3>2, <5>1, <5>2
        <5>3. CASE i # Len(v) + 1
          <6>1. i \in 1..Len(v)
            BY <3>1, <5>3
          <6>2. QED
            BY <3>2, <3>3, <5>1, <6>1
        <5>4. QED
          BY <5>2, <5>3
      <4>2. ASSUME d \in Ringing(v) PROVE d \in Ringing(Append(v, e))
        <5>1. PICK i \in 1..Len(v) : v[i].call = d /\ v[i].status = 1
          BY <3>3, <4>2
        <5>2. i \in 1..(Len(v) + 1)
          BY <3>1
        <5>3. QED
          BY <3>2, <3>4, <5>1, <5>2
      <4>3. ASSUME d = c PROVE d \in Ringing(Append(v, e))
        <5>1. Len(v) + 1 \in 1..(Len(v) + 1)
          BY <3>1
        <5>2. QED
          BY <2>1, <3>2, <3>4, <4>3, <5>1
      <4>4. QED
        BY <4>1, <4>2, <4>3
    <3>6. QED
      BY <2>2, <3>5 DEF ringing, v
  <2>4. c \notin seen /\ seen' = seen \cup {c}
    BY <1>0, <1>1 DEF IncomingReceived, seen, Shape
  <2>5. UNCHANGED <<up, callsVector>>
    BY <1>0, <1>1 DEF IncomingReceived, up, Live, Shape
  <2>6. Stack!Offer(c)
    BY <2>3, <2>4, <2>5 DEF Stack!Offer, seen, ringing, up
  <2>7. Stack!Next
    BY <2>6, Zenon DEF Stack!Next
  <2>8. QED
    BY <2>7 DEF AbstractStep
<1>2. ASSUME NEW c \in Calls, RemoteEnds(c)
      PROVE  AbstractStep
  <2>1. EndCall(c)
    BY <1>2 DEF RemoteEnds
  <2>2. CASE callState[c] \in Live
    BY <2>1, <2>2, EndFinishes
  <2>3. CASE callState[c] \notin Live
    <3>1. UNCHANGED callsVector
      BY <1>0, <2>1, <2>3, ErasedInactive DEF EndCall
    <3>2. UNCHANGED <<seen, up>>
      BY <1>0, <1>2, <2>1, <2>3 DEF RemoteEnds, EndCall, seen, up, Live, Shape
    <3>3. ringing' \subseteq ringing
      BY <1>0, <2>1, SilencedRinging DEF EndCall, ringing
    <3>4. QED
      BY <3>1, <3>2, <3>3, Silences
  <2>4. QED
    BY <2>2, <2>3
<1>3. ASSUME NEW c \in Calls, Failed(c)
      PROVE  AbstractStep
  <2> DEFINE k == Len(callsVector)
  <2>1. k \in 1..Len(callsVector) /\ callsVector[k] = c /\ callsVector # <<>>
          /\ callState[c] \in Live
    BY <1>0, <1>3, EmptySeq DEF Failed, CallsInv, DialledIsLast, Shape, Live
  <2>2. callsVector' = RemoveAt(callsVector, k)
    BY <1>0, <1>3, <2>1, FrontRemoves DEF Failed, Shape
  <2>3. ringing' = ringing /\ callState' = [callState EXCEPT ![c] = "Referred"]
    BY <1>3 DEF Failed, ringing, incomingVars
  <2> HIDE DEF k
  <2>4. QED
    BY <1>0, <2>1, <2>2, <2>3, Finishes
<1>4. ASSUME NEW c \in Calls, Moved(c)
      PROVE  AbstractStep
  <2>1. UNCHANGED <<seen, up>>
    BY <1>0, <1>4 DEF Moved, Moves, seen, up, Live, Shape
  <2>2. UNCHANGED callsVector /\ ringing' \subseteq ringing
    BY <1>4 DEF Moved, ringing, incomingVars
  <2>3. QED
    BY <2>1, <2>2, Silences
<1>5. QED
  BY <1>1, <1>2, <1>3, <1>4 DEF Library

LEMMA ProgramImplements ==
  ASSUME ProgramInv, Program
  PROVE  AbstractStep
<1>1. UNCHANGED <<callState, incomingCallsVector>>
  BY DEF Program, MainTurn, CallTurn, CouldNotCall, Lookup, Return, incomingVars
<1>2. UNCHANGED callsVector
  <2>1. CASE ~Return
    BY <2>1 DEF Program, MainTurn, CallTurn, CouldNotCall, Lookup
  <2>2. CASE Return /\ ~ClearsActive
    BY <2>2 DEF Return
  <2>3. CASE Return /\ ClearsActive
    <3>1. Shape /\ callState[Top.auxCall] \notin Live
      BY <2>3, TypeShape DEF Return, ProgramInv, StackInv, LeftWhenOver
    <3>2. \A a \in 1..Len(frames) : frames[a] = Top
      BY <2>3 DEF ClearsActive, Top
    <3>3. \A c \in Calls : callState[c] \notin Live
      BY <3>1, <3>2 DEF ProgramInv, StackInv, CallsInv, LiveHeld
    <3>4. Len(callsVector) = 0
      BY <3>1, <3>3 DEF ProgramInv, StackInv, CallsInv, ActiveLive, Shape
    <3>5. callsVector = <<>>
      BY <3>1, <3>4, EmptySeq DEF Shape
    <3>6. QED
      BY <2>3, <3>5 DEF Return
  <2>4. QED
    BY <2>1, <2>2, <2>3
<1>3. UNCHANGED <<seen, up>> /\ ringing' \subseteq ringing
  BY <1>1 DEF seen, up, ringing
<1>4. QED
  BY <1>2, <1>3, Silences

\* A call is put on top of the stack.
LEMMA PushEffect ==
  ASSUME TypeInv, CallsInv, NEW c \in Calls, NEW s \in {"OutgoingInit", "Accepted"}, NEW D,
         callState[c] \in {"Idle", "IncomingReceived"},
         \A d \in D : d \in Calls => callState[d] = "IncomingReceived",
         callState' = Started(c, s, D)
  PROVE  up' = up \cup {c} /\ seen' = seen \cup {c}
<1>1. s \in State /\ s \in Live /\ s # "Idle"
  BY DEF State, Live
<1>2. /\ callState'[c] = s
      /\ \A d \in Calls : d # c => Quiet(d)
      /\ \A d \in Calls : d # c => (callState'[d] = "Idle" <=> callState[d] = "Idle")
  BY <1>1, StartedQuiet
<1>3. QED
  BY <1>1, <1>2 DEF up, seen, Quiet

LEMMA CallImplements ==
  ASSUME ProgramInv, NEW c \in Calls, Call(c)
  PROVE  AbstractStep
<1> DEFINE D == {}
           s == "OutgoingInit"
<1>1. /\ callState[c] = "Idle"
      /\ callState' = Started(c, s, D)
      /\ callsVector' = Append(callsVector, c)
      /\ UNCHANGED incomingCallsVector
  BY DEF Call, incomingVars
<1>2. s \in {"OutgoingInit", "Accepted"}
        /\ \A d \in D : d \in Calls => callState[d] = "IncomingReceived"
  OBVIOUS
<1> HIDE DEF D, s
<1>3. up' = up \cup {c} /\ seen' = seen \cup {c}
  BY <1>1, <1>2, PushEffect DEF ProgramInv, StackInv
<1>4. c \notin seen /\ ringing' = ringing
  BY <1>1 DEF seen, ringing
<1>5. Stack!Dial(c)
  BY <1>1, <1>3, <1>4 DEF Stack!Dial, Stack!Push, seen, ringing, up
<1>6. Stack!Next
  BY <1>5, Zenon DEF Stack!Next
<1>7. QED
  BY <1>6 DEF AbstractStep

LEMMA AcceptImplements ==
  ASSUME ProgramInv, NEW n \in DOMAIN incomingCallsVector, Accept(n)
  PROVE  AbstractStep
<1> DEFINE s == "Accepted"
<1>1. PICK c \in Calls : c = incomingCallsVector[n].call
  <2>1. incomingCallsVector[n] \in IncCall
    BY LenProperties DEF ProgramInv, TypeInv, TypeOK
  <2>2. QED
    BY <2>1 DEF IncCall
<1>2. PICK D : /\ D \subseteq Ringing(incomingCallsVector)
               /\ callState' = Started(c, s, D)
  BY <1>1 DEF Accept, Declined
<1>3. /\ callState[c] = "IncomingReceived"
      /\ callsVector' = Append(callsVector, c)
      /\ incomingCallsVector' = <<>>
      /\ incomingCallsVector[n].status = 1
  BY <1>1 DEF Accept, Acceptable, ForgetIncoming
<1>4. c \in ringing /\ s \in {"OutgoingInit", "Accepted"}
  BY <1>1, <1>3 DEF ringing, Ringing
<1> HIDE DEF s
<1>5. \A d \in D : d \in Calls => callState[d] = "IncomingReceived"
  BY <1>2, RingingCalls DEF ProgramInv
<1>6. up' = up \cup {c} /\ seen' = seen \cup {c}
  BY <1>2, <1>3, <1>4, <1>5, PushEffect DEF ProgramInv, StackInv
<1>7. UNCHANGED seen
  BY <1>3, <1>6 DEF seen
<1>8. ringing' = {}
  BY <1>3, EmptySeq DEF ringing, Ringing
<1>9. Stack!Answer(c)
  BY <1>3, <1>4, <1>6, <1>7, <1>8 DEF Stack!Answer, Stack!Push, seen, ringing, up
<1>10. Stack!Next
  BY <1>9, Zenon DEF Stack!Next
<1>11. QED
  BY <1>10 DEF AbstractStep

LEMMA CommandImplements ==
  ASSUME ProgramInv, Command
  PROVE  AbstractStep
<1>0. /\ TypeInv /\ TypeOK /\ Shape /\ CallsInv
      /\ incomingCallsVector \in Seq(IncCall)
      /\ DOMAIN incomingCallsVector = 1..Len(incomingCallsVector)
      /\ Len(incomingCallsVector) \in Nat
  <2>1. TypeInv /\ TypeOK /\ Shape /\ CallsInv
    BY TypeShape DEF ProgramInv, TypeInv, StackInv
  <2>2. QED
    BY <2>1, LenProperties DEF TypeOK
<1>1. CASE NoCommand \/ AcceptNoNumber \/ Browse \/ Register \/ End
  <2>1. UNCHANGED <<callState, callsVector, incomingCallsVector>>
    BY <1>1 DEF NoCommand, AcceptNoNumber, Browse, Register, End, incomingVars
  <2>2. QED
    BY <2>1, Silences DEF seen, up, ringing
<1>2. ASSUME NEW n \in DOMAIN incomingCallsVector, AcceptRefused(n)
      PROVE  AbstractStep
  <2> DEFINE v == incomingCallsVector
             e == [v[n] EXCEPT !.status = 0]
             w == [v EXCEPT ![n] = e]
  <2>1. v[n] \in IncCall /\ n \in 1..Len(v)
    BY <1>0, ElementOfSeq
  <2>2. e \in IncCall /\ e.status = 0
    BY <2>1 DEF IncCall
  <2>3. w \in Seq(IncCall) /\ Len(w) = Len(v)
          /\ \A i \in 1..Len(v) : w[i] = IF i = n THEN e ELSE v[i]
    <3> HIDE DEF e
    <3>1. QED
      BY <1>0, <2>1, <2>2, ExceptSeq
  <2>4. incomingCallsVector' = w
    BY <1>2, Zenon DEF AcceptRefused
  <2>5. UNCHANGED <<callState, callsVector>>
    BY <1>2 DEF AcceptRefused
  <2> HIDE DEF w, e
  <2>6. \A d : d \in Ringing(w) => d \in Ringing(v)
    <3>1. \A d : d \in Ringing(w) <=> \E i \in 1..Len(w) : w[i].call = d /\ w[i].status = 1
      BY <2>3, RingingType
    <3>2. \A d : d \in Ringing(v) <=> \E i \in 1..Len(v) : v[i].call = d /\ v[i].status = 1
      BY <1>0, RingingType
    <3>3. QED
      BY <2>2, <2>3, <3>1, <3>2
  <2>7. UNCHANGED <<seen, up>> /\ ringing' \subseteq ringing
    BY <2>4, <2>5, <2>6 DEF seen, up, ringing
  <2>8. QED
    BY <2>5, <2>7, Silences
<1>3. CASE Decline
  <2>1. PICK D : /\ D \subseteq Ringing(incomingCallsVector)
                 /\ callState' = WithDeclined(D)
                 /\ Ringing(incomingCallsVector') \subseteq Ringing(incomingCallsVector)
    <3>1. CASE DeclineAll
      <4>1. Ringing(incomingCallsVector') = {}
        BY <3>1, EmptySeq DEF DeclineAll, ForgetIncoming, Ringing
      <4>2. callState' = WithDeclined(Ringing(incomingCallsVector))
        BY <3>1 DEF DeclineAll
      <4>3. QED
        BY <4>1, <4>2
    <3>2. ASSUME NEW k \in DOMAIN incomingCallsVector, DeclineStopsAt(k)
          PROVE  \E D : /\ D \subseteq Ringing(incomingCallsVector)
                        /\ callState' = WithDeclined(D)
                        /\ Ringing(incomingCallsVector') \subseteq Ringing(incomingCallsVector)
      <4> DEFINE gone == {incomingCallsVector[i].call :
                            i \in {j \in 1..(k - 1) : incomingCallsVector[j].status = 1}}
      <4>1. \A j \in 1..(k - 1) : j \in DOMAIN incomingCallsVector
        BY <1>0, <3>2
      <4>2. gone \subseteq Ringing(incomingCallsVector)
        BY <4>1 DEF Ringing
      <4>3. callState' = WithDeclined(gone)
              /\ incomingCallsVector' = Silenced(incomingCallsVector, gone)
        BY <3>2 DEF DeclineStopsAt
      <4> HIDE DEF gone
      <4>4. Ringing(incomingCallsVector') = Ringing(incomingCallsVector) \ gone
        BY <1>0, <4>3, SilencedRinging
      <4>5. QED
        BY <4>2, <4>3, <4>4
    <3>3. QED
      BY <1>3, <3>1, <3>2 DEF Decline
  <2>2. \A d \in D : callState[d] = "IncomingReceived"
    BY <2>1, RingingCalls DEF ProgramInv
  <2>3. UNCHANGED <<seen, up>>
    BY <2>1, <2>2 DEF WithDeclined, seen, up, Live
  <2>4. UNCHANGED callsVector /\ ringing' \subseteq ringing
    BY <1>3, <2>1 DEF Decline, ringing
  <2>5. QED
    BY <2>3, <2>4, Silences
<1>4. CASE Hangup
  <2>1. CASE UNCHANGED <<callState, callsVector, incomingCallsVector>>
    BY <2>1, Silences DEF seen, up, ringing
  <2>2. CASE \E c \in Calls : callState[c] \in Live /\ EndCall(c)
    BY <2>2, EndFinishes
  <2>3. QED
    BY <1>4, <2>1, <2>2, HangupEffect DEF ProgramInv
<1>5. CASE Hold
  <2>1. UNCHANGED <<seen, up>>
    BY <1>0, <1>5 DEF Hold, seen, up, Live, Shape
  <2>2. UNCHANGED callsVector /\ ringing' \subseteq ringing
    BY <1>5 DEF Hold, ringing, incomingVars
  <2>3. QED
    BY <2>1, <2>2, Silences
<1>6. CASE Resume
  <2>1. UNCHANGED callsVector /\ ringing' \subseteq ringing
    BY <1>6 DEF Resume, ringing, incomingVars
  <2>2. UNCHANGED <<seen, up>>
    <3>1. CASE UNCHANGED callState
      BY <3>1 DEF seen, up
    <3>2. CASE callState[Top.call] = "Paused" /\ callState' = Started(Top.call, "Resuming", {})
      <4>1. Top.call \in Calls
        BY <1>0, <1>6, TopType DEF Resume, Frame
      <4>2. /\ callState'[Top.call] = "Resuming"
            /\ \A d \in Calls : d # Top.call => Quiet(d)
            /\ \A d \in Calls : d # Top.call => (callState'[d] = "Idle" <=> callState[d] = "Idle")
        BY <1>0, <3>2, <4>1, StartedQuiet DEF State, Live
      <4>3. \A d \in Calls : /\ callState'[d] \in Live <=> callState[d] \in Live
                             /\ callState'[d] = "Idle" <=> callState[d] = "Idle"
        BY <3>2, <4>2 DEF Quiet, Live
      <4>4. QED
        BY <4>3 DEF seen, up
    <3>3. QED
      BY <1>6, <3>1, <3>2 DEF Resume
  <2>3. QED
    BY <2>1, <2>2, Silences
<1>7. QED
  BY <1>1, <1>2, <1>3, <1>4, <1>5, <1>6, CallImplements, AcceptImplements DEF Command

LEMMA StepImplements ==
  ASSUME ProgramInv, [Next]_vars
  PROVE  [Stack!Next]_(Stack!vars)
<1>1. CASE Library \/ Program \/ Command
  BY <1>1, LibraryImplements, ProgramImplements, CommandImplements DEF AbstractStep
<1>2. CASE LeaveLoop \/ UNCHANGED vars
  BY <1>2 DEF LeaveLoop, vars, incomingVars, Stack!vars
<1>3. QED
  BY <1>1, <1>2 DEF Next

LEMMA InitImplements == Init => Stack!Init
BY EmptySeq DEF Init, Stack!Init, Ringing, Live

\* callsVector is the stack of the calls that are up, through nested loops,
\* failed calls, hangups and main's clear(): CallControl implements CallStack
\* for any set of calls.
THEOREM ImplementsCallStack ==
  ASSUME OneSetupAtATime
  PROVE  Spec => RefinesCallStack
<1>1. ProgramInv /\ [Next]_vars => [Stack!Next]_(Stack!vars)
  BY StepImplements
<1>2. QED
  BY <1>1, InvariantHolds, InitImplements, PTL DEF Spec, RefinesCallStack, Stack!Spec
=============================================================================
