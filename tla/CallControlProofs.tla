-------------------------- MODULE CallControlProofs --------------------------
(***************************************************************************)
(* Proofs about CallControl, for any set of calls.                         *)
(***************************************************************************)
EXTENDS CallControl, SequenceTheorems, TLAPS

LEMMA PrefixType ==
  ASSUME NEW S, NEW s \in Seq(S), NEW n \in 0..Len(s)
  PROVE  /\ SubSeq(s, 1, n) \in Seq(S)
         /\ Len(SubSeq(s, 1, n)) = n
         /\ \A i \in 1..n : SubSeq(s, 1, n)[i] = s[i]
<1>1. Len(s) \in Nat /\ n \in Int /\ \A k \in 1..n : s[k] \in S
  BY LenProperties
<1>2. QED
  BY <1>1, SubSeqProperties

LEMMA FrontType ==
  ASSUME NEW S, NEW s \in Seq(S), s # <<>>
  PROVE  /\ Front(s) \in Seq(S)
         /\ Len(Front(s)) = Len(s) - 1
         /\ \A i \in 1..(Len(s) - 1) : Front(s)[i] = s[i]
<1>1. Len(s) - 1 \in 0..Len(s)
  BY EmptySeq
<1>2. QED
  BY <1>1, PrefixType, Zenon DEF Front

LEMMA RemoveAtType ==
  ASSUME NEW S, NEW s \in Seq(S), NEW i \in DOMAIN s
  PROVE  /\ RemoveAt(s, i) \in Seq(S)
         /\ Len(RemoveAt(s, i)) = Len(s) - 1
         /\ \A j \in 1..(Len(s) - 1) : RemoveAt(s, i)[j] = IF j < i THEN s[j] ELSE s[j + 1]
<1> DEFINE a == SubSeq(s, 1, i - 1)
           b == SubSeq(s, i + 1, Len(s))
<1>1. /\ Len(s) \in Nat /\ i \in 1..Len(s)
      /\ \A k \in 1..Len(s) : s[k] \in S
  BY LenProperties
<1>2. /\ a \in Seq(S) /\ Len(a) = i - 1
      /\ \A k \in 1..(i - 1) : a[k] = s[k]
  BY <1>1, SubSeqProperties
<1>3. /\ b \in Seq(S) /\ Len(b) = Len(s) - i
      /\ \A k \in 1..(Len(s) - i) : b[k] = s[k + i]
  BY <1>1, SubSeqProperties
<1> HIDE DEF a, b
<1>4. /\ a \o b \in Seq(S)
      /\ Len(a \o b) = Len(a) + Len(b)
      /\ \A k \in 1..(Len(a) + Len(b)) : (a \o b)[k] = IF k <= Len(a) THEN a[k] ELSE b[k - Len(a)]
  BY <1>2, <1>3, ConcatProperties
<1>5. RemoveAt(s, i) = a \o b
  BY DEF RemoveAt, a, b
<1> DEFINE r == RemoveAt(s, i)
<1> HIDE DEF r
<1>6. r \in Seq(S) /\ Len(r) = Len(s) - 1
  <2>1. Len(a) + Len(b) = Len(s) - 1
    BY <1>1, <1>2, <1>3
  <2>2. QED
    BY <1>4, <1>5, <2>1 DEF r
<1>6a. \A k \in 1..(Len(s) - 1) : r[k] = IF k <= i - 1 THEN a[k] ELSE b[k - (i - 1)]
  <2>1. Len(a) + Len(b) = Len(s) - 1 /\ Len(a) = i - 1
    BY <1>1, <1>2, <1>3
  <2>2. QED
    BY <1>4, <1>5, <2>1 DEF r
<1>7. ASSUME NEW j \in 1..(Len(s) - 1)
      PROVE  r[j] = IF j < i THEN s[j] ELSE s[j + 1]
  <2>1. CASE j < i
    BY <1>1, <1>2, <1>6a, <2>1
  <2>2. CASE j >= i
    <3>1. r[j] = b[j - (i - 1)]
      BY <1>1, <1>6a, <2>2
    <3>2. j - (i - 1) \in 1..(Len(s) - i) /\ (j - (i - 1)) + i = j + 1
      BY <1>1, <2>2
    <3>3. b[j - (i - 1)] = s[j + 1]
      BY <1>3, <3>2
    <3>4. QED
      BY <1>1, <2>2, <3>1, <3>3
  <2>3. QED
    BY <1>1, <2>1, <2>2
<1>8. QED
  BY <1>6, <1>7 DEF r

-----------------------------------------------------------------------------
(* Types of the helpers. *)

LEMMA SilencedType ==
  ASSUME NEW v \in Seq(IncCall), NEW D
  PROVE  /\ Silenced(v, D) \in Seq(IncCall)
         /\ Len(Silenced(v, D)) = Len(v)
         /\ \A i \in 1..Len(v) : /\ Silenced(v, D)[i].call = v[i].call
                                 /\ Silenced(v, D)[i].status =
                                      IF v[i].call \in D THEN 0 ELSE v[i].status
<1>1. /\ Len(v) \in Nat /\ DOMAIN v = 1..Len(v)
      /\ \A i \in 1..Len(v) : v[i] \in IncCall
  BY LenProperties
<1>2. \A i \in 1..Len(v) :
         LET e == IF v[i].call \in D THEN [v[i] EXCEPT !.status = 0] ELSE v[i] IN
         /\ e \in IncCall
         /\ e.call = v[i].call
         /\ e.status = IF v[i].call \in D THEN 0 ELSE v[i].status
  BY <1>1 DEF IncCall
<1>3. Silenced(v, D) \in [1..Len(v) -> IncCall]
  BY <1>1, <1>2 DEF Silenced
<1>4. Silenced(v, D) \in Seq(IncCall) /\ Len(Silenced(v, D)) = Len(v)
  BY <1>1, <1>3
<1>5. QED
  BY <1>1, <1>2, <1>4 DEF Silenced

LEMMA ErasedType ==
  ASSUME NEW v \in Seq(Calls), NEW c
  PROVE  Erased(v, c) \in Seq(Calls)
<1>1. CASE c \in ToSet(v)
  <2>1. \E i \in DOMAIN v : v[i] = c
    BY <1>1 DEF ToSet
  <2>2. (CHOOSE i \in DOMAIN v : v[i] = c) \in DOMAIN v
    BY <2>1
  <2>3. QED
    BY <1>1, <2>2, RemoveAtType DEF Erased
<1>2. CASE c \notin ToSet(v)
  BY <1>2 DEF Erased
<1>3. QED
  BY <1>1, <1>2

LEMMA RingingType ==
  ASSUME NEW v \in Seq(IncCall)
  PROVE  /\ Ringing(v) \subseteq Calls
         /\ \A c : c \in Ringing(v) <=> \E i \in 1..Len(v) : v[i].call = c /\ v[i].status = 1
<1>1. DOMAIN v = 1..Len(v) /\ \A i \in 1..Len(v) : v[i] \in IncCall
  BY LenProperties
<1>2. QED
  BY <1>1 DEF Ringing, IncCall

LEMMA StartedType ==
  ASSUME TypeOK, NEW c \in Calls, NEW s \in State, NEW D
  PROVE  Started(c, s, D) \in [Calls -> State]
BY DEF Started, TypeOK, State, Live

\* The innermost loop, and what replacing, adding or leaving it gives.
LEMMA TopType ==
  ASSUME TypeOK, InCall
  PROVE  /\ Len(frames) \in Nat \ {0}
         /\ Top \in Frame
         /\ Front(frames) \in Seq(Frame)
         /\ Len(Front(frames)) = Len(frames) - 1
         /\ \A f \in Frame : [frames EXCEPT ![Len(frames)] = f] \in Seq(Frame)
<1>1. frames \in Seq(Frame) /\ frames # <<>>
  BY DEF TypeOK, InCall
<1>2. Len(frames) \in Nat \ {0}
  BY <1>1, EmptySeq
<1>3. \A f \in Frame : [frames EXCEPT ![Len(frames)] = f] \in Seq(Frame)
  BY <1>1, <1>2, ExceptSeq
<1>4. Top \in Frame
  BY <1>1, <1>2, ElementOfSeq DEF Top
<1>5. QED
  BY <1>1, <1>2, <1>3, <1>4, FrontType

-----------------------------------------------------------------------------
(* Type correctness. *)

\* Where call_loop looks for its call or is left, there is a call_loop.
LoopRuns == pc \in {"lookup", "return"} => InCall

TypeInv == TypeOK /\ LoopRuns

LEMMA InitType == Init => TypeInv
<1>1. <<>> \in Seq(Calls) /\ <<>> \in Seq(IncCall) /\ <<>> \in Seq(Frame)
  BY EmptySeq
<1>2. QED
  BY <1>1 DEF Init, TypeInv, TypeOK, LoopRuns, MaybeCall, State, PC

LEMMA LibraryType == TypeInv /\ Library => TypeInv'
<1> SUFFICES ASSUME TypeInv, NEW c \in Calls,
                    IncomingReceived(c) \/ RemoteEnds(c) \/ Failed(c) \/ Moved(c)
             PROVE  TypeInv'
  BY DEF Library
<1> USE DEF TypeInv, TypeOK, LoopRuns, InCall, MaybeCall, PC, Iterating
<1>1. CASE IncomingReceived(c)
  <2>1. [call |-> c, status |-> 1] \in IncCall
    BY DEF IncCall
  <2>2. incomingCallsVector' \in Seq(IncCall)
    BY <1>1, <2>1, AppendProperties DEF IncomingReceived
  <2>3. callState' \in [Calls -> State]
    BY <1>1 DEF IncomingReceived, State
  <2>4. QED
    BY <1>1, <2>2, <2>3 DEF IncomingReceived, loopVars
<1>2. CASE RemoteEnds(c)
  <2>1. incomingCallsVector' \in Seq(IncCall) /\ callsVector' \in Seq(Calls)
    BY <1>2, SilencedType, ErasedType DEF RemoteEnds, EndCall
  <2>2. callState' \in [Calls -> State]
    BY <1>2 DEF RemoteEnds, EndCall, State
  <2>3. QED
    BY <1>2, <2>1, <2>2 DEF RemoteEnds, EndCall, loopVars
<1>3. CASE Failed(c)
  <2>1. callsVector' \in Seq(Calls)
    BY <1>3, FrontType DEF Failed
  <2>2. callState' \in [Calls -> State]
    BY <1>3 DEF Failed, State
  <2>3. pc' \in {pc, "crashed"}
    BY <1>3 DEF Failed
  <2>4. QED
    BY <1>3, <2>1, <2>2, <2>3 DEF Failed, incomingVars, noticeVars, loopVars
<1>4. CASE Moved(c)
  <2>1. callState' \in [Calls -> State]
    BY <1>4 DEF Moved, Moves, State, Live
  <2>2. QED
    BY <1>4, <2>1 DEF Moved, incomingVars, noticeVars, loopVars
<1>5. QED
  BY <1>1, <1>2, <1>3, <1>4

LEMMA ProgramType == TypeInv /\ Program => TypeInv'
<1> SUFFICES ASSUME TypeInv, Program
             PROVE  TypeInv'
  OBVIOUS
<1> USE DEF TypeInv, LoopRuns, MaybeCall, PC
<1>0. TypeOK
  OBVIOUS
<1>1. CASE MainTurn
  BY <1>1 DEF MainTurn, ShowNotices, TypeOK, InCall, incomingVars, loopVars
<1>2. CASE CallTurn
  <2> DEFINE s == callState[Top.call]
             f == Noticed(Top, s)
  <2>1. Top \in Frame /\ Top.call \in Calls
    BY <1>0, <1>2, TopType DEF CallTurn, Frame
  <2>2. f \in Frame
    <3>1. (Top.aux /\ s # "Connected") \in BOOLEAN
      OBVIOUS
    <3>2. ((Top.isOnHold \/ s = "End") /\ s # "Connected") \in BOOLEAN
      OBVIOUS
    <3>3. QED
      BY <2>1, <3>1, <3>2, Zenon DEF Frame, Noticed
  <2>3. frames' = [frames EXCEPT ![Len(frames)] = f]
    BY <1>2, Zenon DEF CallTurn
  <2>4. frames' \in Seq(Frame)
    BY <1>0, <1>2, <2>2, <2>3, TopType DEF CallTurn
  <2>5. callChat' \in MaybeCall
    BY <1>2, <2>1 DEF CallTurn, TypeOK
  <2>6. order' \in Nat /\ incomingCallMessage' = Null /\ remoteHungUp' = Null /\ pc' = "recv"
    BY <1>2 DEF CallTurn, ShowNotices, TypeOK
  <2>7. QED
    BY <1>2, <2>4, <2>5, <2>6 DEF CallTurn, TypeOK, incomingVars
<1>3. CASE CouldNotCall
  BY <1>3 DEF CouldNotCall, TypeOK, InCall, incomingVars, noticeVars, loopVars
<1>4. CASE Lookup
  <2>1. InCall /\ Top \in Frame /\ Top.auxCall \in Calls
    BY <1>0, <1>4, TopType DEF Lookup, Frame
  <2>2. Restored(Top) \in Frame
    BY <2>1 DEF Restored, Frame
  <2>3. CASE Top.auxCall \in ToSet(callsVector)
    <3>1. frames' = [frames EXCEPT ![Len(frames)] = Restored(Top)]
      BY <1>4, <2>3, Zenon DEF Lookup
    <3>2. frames' \in Seq(Frame)
      BY <1>0, <2>1, <2>2, <3>1, TopType
    <3>3. frames' # <<>>
      <4>1. Len(frames') = Len(frames)
        BY <1>0, <2>2, <3>1, <2>1, TopType, ExceptSeq DEF TypeOK
      <4>2. QED
        BY <1>0, <2>1, <4>1, TopType, EmptySeq
    <3>4. QED
      BY <1>4, <2>1, <2>3, <3>2, <3>3 DEF Lookup, TypeOK, InCall, incomingVars, noticeVars
  <2>4. CASE Top.auxCall \notin ToSet(callsVector)
    BY <1>4, <2>1, <2>4 DEF Lookup, TypeOK, InCall, incomingVars, noticeVars
  <2>5. QED
    BY <2>3, <2>4
<1>5. CASE Return
  <2>1. InCall /\ Top \in Frame /\ Top.call \in Calls
    BY <1>0, <1>5, TopType DEF Return, Frame
  <2> DEFINE outer == Front(frames)
  <2>2. outer \in Seq(Frame) /\ Len(outer) = Len(frames) - 1 /\ Len(frames) \in Nat \ {0}
    BY <1>0, <2>1, TopType
  <2>3. frames' \in Seq(Frame) /\ Len(frames') = Len(outer)
    <3>1. CASE outer # <<>> /\ ~Top.own
      <4>1. Len(outer) \in 1..Len(outer) /\ outer[Len(outer)] \in Frame
        BY <2>2, <3>1, EmptySeq, ElementOfSeq
      <4>2. [outer[Len(outer)] EXCEPT !.call = Top.call] \in Frame
        BY <2>1, <4>1 DEF Frame
      <4>3. frames' = [outer EXCEPT ![Len(outer)] = [outer[Len(outer)] EXCEPT !.call = Top.call]]
        BY <1>5, <3>1 DEF Return
      <4>4. QED
        BY <2>2, <4>1, <4>2, <4>3, ExceptSeq
    <3>2. CASE ~(outer # <<>> /\ ~Top.own)
      BY <1>5, <2>2, <3>2 DEF Return
    <3>3. QED
      BY <3>1, <3>2
  <2>4. pc' = "lookup" => frames' # <<>>
    BY <1>5, <2>2, <2>3, EmptySeq DEF Return
  <2>5. callsVector' \in Seq(Calls)
    BY <1>5, EmptySeq DEF Return, TypeOK
  <2>6. QED
    BY <1>5, <2>3, <2>4, <2>5 DEF Return, TypeOK, InCall, incomingVars, noticeVars
<1>6. QED
  BY <1>1, <1>2, <1>3, <1>4, <1>5 DEF Program

LEMMA CommandType == TypeInv /\ Command => TypeInv'
<1> SUFFICES ASSUME TypeInv, Command
             PROVE  TypeInv'
  OBVIOUS
<1> USE DEF TypeInv, LoopRuns, MaybeCall, PC
<1>0. TypeOK
  OBVIOUS
<1>a. AfterCommand \in PC /\ (AfterCommand = "lookup" => InCall)
         /\ AfterCommand \notin {"return"}
  BY DEF AfterCommand
<1>1. CASE NoCommand
  BY <1>1, <1>a DEF NoCommand, TypeOK, InCall, incomingVars, noticeVars, loopVars
<1>2. ASSUME NEW c \in Calls, Call(c)
      PROVE  TypeInv'
  <2>1. callState' \in [Calls -> State]
    BY <1>0, <1>2, StartedType DEF Call, State, Live
  <2>2. callsVector' \in Seq(Calls)
    BY <1>2, AppendProperties DEF Call, TypeOK
  <2>3. NewFrame(c, TRUE) \in Frame
    BY DEF NewFrame, Frame
  <2>4. frames' \in Seq(Frame)
    BY <1>2, <2>3, AppendProperties DEF Call, TypeOK
  <2>5. QED
    BY <1>2, <2>1, <2>2, <2>4 DEF Call, TypeOK, incomingVars, noticeVars
<1>3. ASSUME NEW n \in DOMAIN incomingCallsVector, Accept(n)
      PROVE  TypeInv'
  <2> DEFINE c == incomingCallsVector[n].call
  <2>1. c \in Calls
    <3>1. incomingCallsVector[n] \in IncCall
      BY <1>0, LenProperties DEF TypeOK
    <3>2. QED
      BY <3>1 DEF IncCall
  <2>2. callState' \in [Calls -> State]
    <3>1. PICK D : callState' = Started(c, "Accepted", D)
      BY <1>3 DEF Accept
    <3>2. QED
      BY <1>0, <2>1, <3>1, StartedType DEF State, Live
  <2>3. callsVector' \in Seq(Calls)
    BY <1>3, <2>1, AppendProperties DEF Accept, TypeOK
  <2>4. frames' \in Seq(Frame)
    <3> DEFINE below == IF InCall THEN [frames EXCEPT ![Len(frames)].call = c] ELSE frames
    <3>1. NewFrame(c, FALSE) \in Frame
      BY <2>1 DEF NewFrame, Frame
    <3>2. below \in Seq(Frame)
      <4>1. CASE InCall
        <5>1. [Top EXCEPT !.call = c] \in Frame
          BY <1>0, <2>1, <4>1, TopType DEF Frame
        <5>2. below = [frames EXCEPT ![Len(frames)] = [Top EXCEPT !.call = c]]
          BY <4>1, Zenon DEF Top
        <5>3. QED
          BY <1>0, <4>1, <5>1, <5>2, TopType
      <4>2. CASE ~InCall
        BY <4>2 DEF TypeOK
      <4>3. QED
        BY <4>1, <4>2
    <3>3. frames' = Append(below, NewFrame(c, FALSE))
      BY <1>3, Zenon DEF Accept
    <3> HIDE DEF below, c
    <3>4. QED
      BY <3>1, <3>2, <3>3, AppendProperties
  <2>5. incomingCallsVector' \in Seq(IncCall)
    BY <1>3, EmptySeq DEF Accept, ForgetIncoming
  <2>6. order' \in Nat /\ incomingCall' = Null /\ remoteHungUp' = Null
          /\ outgoingCallee' \in Calls /\ pc' = "iterate"
    BY <1>3, <2>1 DEF Accept, ForgetIncoming
  <2>7. QED
    BY <1>3, <2>2, <2>3, <2>4, <2>5, <2>6 DEF Accept, TypeOK
<1>4. ASSUME NEW n \in DOMAIN incomingCallsVector, AcceptRefused(n)
      PROVE  TypeInv'
  <2>1. DOMAIN incomingCallsVector = 1..Len(incomingCallsVector)
          /\ incomingCallsVector[n] \in IncCall
    BY <1>0, LenProperties DEF TypeOK
  <2>2. [incomingCallsVector[n] EXCEPT !.status = 0] \in IncCall
    BY <2>1 DEF IncCall
  <2>3. incomingCallsVector' = [incomingCallsVector EXCEPT
                                  ![n] = [incomingCallsVector[n] EXCEPT !.status = 0]]
    BY <1>4, Zenon DEF AcceptRefused
  <2>4. incomingCallsVector' \in Seq(IncCall)
    BY <1>0, <2>1, <2>2, <2>3, ExceptSeq DEF TypeOK
  <2>5. incomingCall' \in Calls /\ outgoingCallee' \in Calls
    BY <1>4, <2>1 DEF AcceptRefused, IncCall
  <2>6. QED
    BY <1>4, <1>a, <2>4, <2>5 DEF AcceptRefused, TypeOK, InCall, noticeVars
<1>5. CASE AcceptNoNumber
  <2>1. incomingCall' \in MaybeCall /\ pc' \in {"crashed", AfterCommand}
    BY <1>5 DEF AcceptNoNumber, TypeOK
  <2>2. QED
    BY <1>5, <1>a, <2>1 DEF AcceptNoNumber, TypeOK, InCall, noticeVars, loopVars
<1>6. CASE Decline
  <2>1. /\ callState' \in [Calls -> State]
        /\ incomingCallsVector' \in Seq(IncCall)
        /\ order' \in Nat
    <3>1. CASE DeclineAll
      BY <3>1, EmptySeq DEF DeclineAll, WithDeclined, ForgetIncoming, TypeOK, State
    <3>2. ASSUME NEW k \in DOMAIN incomingCallsVector, DeclineStopsAt(k)
          PROVE  /\ callState' \in [Calls -> State]
                 /\ incomingCallsVector' \in Seq(IncCall)
                 /\ order' \in Nat
      BY <3>2, SilencedType DEF DeclineStopsAt, WithDeclined, TypeOK, State
    <3>3. QED
      BY <1>6, <3>1, <3>2 DEF Decline
  <2>2. QED
    BY <1>6, <1>a, <2>1 DEF Decline, TypeOK, InCall, loopVars
<1>7. CASE Hangup
  <2>1. CASE callsVector = <<>>
    BY <1>7, <2>1 DEF Hangup, TypeOK, InCall
  <2>2. CASE callsVector # <<>>
    <3> DEFINE c == Last(callsVector)
    <3>1. c \in Calls
      BY <2>2, EmptySeq, ElementOfSeq DEF TypeOK, Last
    <3>2. InCall /\ frames' = [frames EXCEPT ![Len(frames)] = [Top EXCEPT !.call = c]]
            /\ pc' = "return"
      BY <1>7, <2>2, Zenon DEF Hangup, Top
    <3>3. [Top EXCEPT !.call = c] \in Frame
      BY <1>0, <3>1, <3>2, TopType DEF Frame
    <3>4. frames' \in Seq(Frame) /\ Len(frames') = Len(frames) /\ Len(frames) \in Nat \ {0}
      BY <1>0, <3>2, <3>3, TopType, ExceptSeq DEF TypeOK
    <3>5. InCall'
      BY <3>4, EmptySeq DEF InCall
    <3>6. /\ callState' \in [Calls -> State] /\ callsVector' \in Seq(Calls)
          /\ incomingCallsVector' \in Seq(IncCall) /\ remoteHungUp' \in MaybeCall
      <4>1. CASE callState[c] \in Live
        <5>1. EndCall(c)
          BY <1>7, <2>2, <4>1 DEF Hangup
        <5>2. QED
          BY <3>1, <5>1, SilencedType, ErasedType DEF EndCall, TypeOK, State
      <4>2. CASE callState[c] \notin Live
        BY <1>7, <2>2, <4>2 DEF Hangup, TypeOK
      <4>3. QED
        BY <4>1, <4>2
    <3>7. QED
      BY <1>7, <3>2, <3>4, <3>5, <3>6 DEF Hangup, TypeOK
  <2>3. QED
    BY <2>1, <2>2
<1>8. CASE Hold
  <2>1. callState' \in [Calls -> State]
    BY <1>8 DEF Hold, TypeOK, State, Live
  <2>2. QED
    BY <1>8, <1>a, <2>1 DEF Hold, TypeOK, InCall, incomingVars, noticeVars
<1>9. CASE Resume
  <2>1. Top.call \in Calls
    BY <1>0, <1>9, TopType DEF Resume, Frame
  <2>2. callState' \in [Calls -> State]
    BY <1>0, <1>9, <2>1, StartedType DEF Resume, TypeOK, State, Live
  <2>3. QED
    BY <1>9, <1>a, <2>2 DEF Resume, TypeOK, InCall, incomingVars, noticeVars
<1>10. CASE Browse \/ Register \/ End
  BY <1>10 DEF Browse, Register, End, TypeOK, InCall, incomingVars, noticeVars, loopVars
<1>11. QED
  BY <1>1, <1>2, <1>3, <1>4, <1>5, <1>6, <1>7, <1>8, <1>9, <1>10 DEF Command

LEMMA NextType == TypeInv /\ [Next]_vars => TypeInv'
<1> SUFFICES ASSUME TypeInv, [Next]_vars
             PROVE  TypeInv'
  OBVIOUS
<1>1. CASE LeaveLoop
  BY <1>1 DEF LeaveLoop, AfterCommand, TypeInv, LoopRuns, TypeOK, PC, InCall,
              incomingVars, noticeVars, loopVars
<1>2. CASE UNCHANGED vars
  BY <1>2 DEF vars, TypeInv, LoopRuns, TypeOK, InCall
<1>3. QED
  BY <1>1, <1>2, LibraryType, ProgramType, CommandType DEF Next

\* TypeOK holds in every behaviour of the program, for any set of calls: every
\* variable keeps its type through library events, nested loops and commands.
THEOREM TypeCorrect == Spec => []TypeOK
<1>1. TypeInv => TypeOK
  BY DEF TypeInv
<1>2. QED
  BY <1>1, InitType, NextType, PTL DEF Spec

THEOREM TypeInvariant == Spec => []TypeInv
BY InitType, NextType, PTL DEF Spec

-----------------------------------------------------------------------------
(* Every loop drives its own call, whatever the library allows: call_loop only
   reaches its next turn through its own lookup, which restores the call, or as
   a loop just entered.                                                       *)

\* The innermost loop is replaced, or a new one is entered.
LEMMA TopAfter ==
  ASSUME TypeOK, InCall, NEW f \in Frame, frames' = [frames EXCEPT ![Len(frames)] = f]
  PROVE  Top' = f
<1>1. frames \in Seq(Frame) /\ Len(frames) \in Nat \ {0}
  BY TopType DEF TypeOK
<1>2. Len(frames') = Len(frames) /\ frames'[Len(frames)] = f
  BY <1>1, ExceptSeq
<1>3. QED
  BY <1>2 DEF Top

LEMMA NewLoopDrives ==
  ASSUME NEW c \in Calls, NEW own \in BOOLEAN, NEW fs \in Seq(Frame),
         frames' = Append(fs, NewFrame(c, own)), outgoingCallee' = c
  PROVE  LoopDrivesOwnCall'
<1>1. NewFrame(c, own) \in Frame /\ NewFrame(c, own).call = c /\ NewFrame(c, own).auxCall = c
  BY DEF NewFrame, Frame
<1>2. frames'[Len(frames')] = NewFrame(c, own)
  BY <1>1, AppendProperties
<1>3. Top'.call = Top'.auxCall /\ outgoingCallee' = Top'.auxCall
  BY <1>1, <1>2 DEF Top
<1>4. QED
  BY <1>3 DEF LoopDrivesOwnCall

\* The loops below the one that accept enters are still loops.
LEMMA PassedOn ==
  ASSUME TypeOK, NEW c \in Calls
  PROVE  (IF InCall THEN [frames EXCEPT ![Len(frames)].call = c] ELSE frames) \in Seq(Frame)
<1>1. CASE InCall
  <2>1. [Top EXCEPT !.call = c] \in Frame
    BY <1>1, TopType DEF Frame
  <2>2. [frames EXCEPT ![Len(frames)].call = c]
          = [frames EXCEPT ![Len(frames)] = [Top EXCEPT !.call = c]]
    BY Zenon DEF Top
  <2>3. QED
    BY <1>1, <2>1, <2>2, TopType
<1>2. CASE ~InCall
  BY <1>2 DEF TypeOK
<1>3. QED
  BY <1>1, <1>2

LEMMA DriveStep == TypeInv /\ LoopDrivesOwnCall /\ [Next]_vars => LoopDrivesOwnCall'
<1> SUFFICES ASSUME TypeInv, LoopDrivesOwnCall, [Next]_vars
             PROVE  LoopDrivesOwnCall'
  OBVIOUS
<1>0. TypeOK /\ frames \in Seq(Frame)
  BY DEF TypeInv, TypeOK
<1>a. ASSUME pc' # "iterate"
      PROVE  LoopDrivesOwnCall'
  BY <1>a DEF LoopDrivesOwnCall
<1>b. ASSUME pc' = AfterCommand, UNCHANGED frames
      PROVE  LoopDrivesOwnCall'
  BY <1>b DEF LoopDrivesOwnCall, AfterCommand, InCall
<1>1. CASE Library
  <2>1. PICK c \in Calls : IncomingReceived(c) \/ RemoteEnds(c) \/ Failed(c) \/ Moved(c)
    BY <1>1 DEF Library
  <2>2. UNCHANGED <<frames, outgoingCallee>> /\ pc' \in {pc, "crashed"}
    BY <2>1 DEF IncomingReceived, RemoteEnds, Failed, Moved, loopVars
  <2>3. QED
    BY <2>2 DEF LoopDrivesOwnCall, InCall, Top
<1>2. CASE MainTurn \/ CallTurn \/ CouldNotCall
  BY <1>2, <1>a DEF MainTurn, CallTurn, CouldNotCall, ShowNotices
<1>3. CASE Lookup
  <2>1. InCall /\ Top \in Frame
    BY <1>0, <1>3, TopType DEF Lookup, TypeInv, LoopRuns
  <2>2. CASE Top.auxCall \in ToSet(callsVector)
    <3>1. Restored(Top) \in Frame /\ Restored(Top).call = Top.auxCall
            /\ Restored(Top).auxCall = Top.auxCall
      BY <2>1 DEF Frame, Restored
    <3>2. frames' = [frames EXCEPT ![Len(frames)] = Restored(Top)]
      BY <1>3, <2>2, Zenon DEF Lookup
    <3>3. Top' = Restored(Top) /\ outgoingCallee' = Top.auxCall
      BY <1>0, <1>3, <2>1, <2>2, <3>1, <3>2, TopAfter DEF Lookup
    <3>4. QED
      BY <3>1, <3>3 DEF LoopDrivesOwnCall
  <2>3. CASE Top.auxCall \notin ToSet(callsVector)
    BY <1>3, <1>a, <2>3 DEF Lookup
  <2>4. QED
    BY <2>2, <2>3
<1>4. CASE Return
  <2>1. InCall /\ Len(frames) \in Nat \ {0}
    BY <1>0, <1>4, TopType DEF Return, TypeInv, LoopRuns
  <2>2. CASE Len(frames) = 1
    <3>1. Front(frames) \in Seq(Frame) /\ Len(Front(frames)) = 0
      BY <1>0, <2>1, <2>2, TopType
    <3>2. Front(frames) = <<>>
      BY <3>1, EmptySeq
    <3>3. QED
      BY <1>4, <3>2 DEF Return, LoopDrivesOwnCall, InCall
  <2>3. CASE Len(frames) # 1
    BY <1>4, <1>a, <2>3 DEF Return
  <2>4. QED
    BY <2>2, <2>3
<1>5. CASE NoCommand \/ Decline \/ Hold \/ Resume \/ LeaveLoop
  BY <1>5, <1>b DEF NoCommand, Decline, Hold, Resume, LeaveLoop, loopVars
<1>6. CASE AcceptNoNumber \/ Browse \/ Register \/ End
  BY <1>6, <1>a, <1>b DEF AcceptNoNumber, Browse, Register, End, loopVars
<1>7. CASE Hangup
  BY <1>7, <1>a DEF Hangup
<1>8. ASSUME NEW c \in Calls, Call(c)
      PROVE  LoopDrivesOwnCall'
  <2> DEFINE own == TRUE
  <2>1. own \in BOOLEAN /\ frames' = Append(frames, NewFrame(c, own)) /\ outgoingCallee' = c
    BY <1>8 DEF Call
  <2> HIDE DEF own
  <2>2. QED
    BY <1>0, <2>1, NewLoopDrives
<1>9. ASSUME NEW n \in DOMAIN incomingCallsVector, Accept(n) \/ AcceptRefused(n)
      PROVE  LoopDrivesOwnCall'
  <2>1. CASE Accept(n)
    <3> DEFINE c == incomingCallsVector[n].call
               fs == IF InCall THEN [frames EXCEPT ![Len(frames)].call = c] ELSE frames
               own == FALSE
    <3>1. c \in Calls
      <4>1. incomingCallsVector[n] \in IncCall
        BY <1>0, LenProperties DEF TypeOK
      <4>2. QED
        BY <4>1 DEF IncCall
    <3>2. own \in BOOLEAN /\ outgoingCallee' = c
      BY <2>1 DEF Accept
    <3>3. frames' = Append(fs, NewFrame(c, own))
      BY <2>1, Zenon DEF Accept
    <3> HIDE DEF c
    <3>4. fs \in Seq(Frame)
      BY <1>0, <3>1, PassedOn
    <3> HIDE DEF fs, own
    <3>5. QED
      BY <3>1, <3>2, <3>3, <3>4, NewLoopDrives
  <2>2. CASE AcceptRefused(n)
    BY <2>2, <1>b DEF AcceptRefused
  <2>3. QED
    BY <1>9, <2>1, <2>2
<1>10. CASE UNCHANGED vars
  BY <1>10 DEF vars, LoopDrivesOwnCall, InCall, Top
<1>11. QED
  BY <1>1, <1>2, <1>3, <1>4, <1>5, <1>6, <1>7, <1>8, <1>9, <1>10 DEF Next, Program, Command

\* Each turn of a call_loop works on its own call and names it to the user,
\* however deep the loops nest and however often accept and hangup overwrite the
\* variable they share; whether or not the library sets up one call at a time.
THEOREM LoopsDriveTheirCalls == Spec => []LoopDrivesOwnCall
<1>1. Init => LoopDrivesOwnCall
  BY DEF Init, LoopDrivesOwnCall, InCall
<1>2. QED
  BY <1>1, DriveStep, TypeInvariant, PTL DEF Spec

-----------------------------------------------------------------------------
(* The numbers shown with incoming calls. *)

\* Every notice is shown before a command is read.
NoticesShown == pc = "recv" => incomingCallMessage = Null

NumberInv == NumberInRange /\ NoticesShown

LEMMA NumberInit == Init => NumberInv
BY EmptySeq DEF Init, NumberInv, NumberInRange, NoticesShown

LEMMA NumberStep == TypeInv /\ NumberInv /\ [Next]_vars => NumberInv'
<1> SUFFICES ASSUME TypeInv, NumberInv, [Next]_vars
             PROVE  NumberInv'
  OBVIOUS
<1> USE DEF NumberInv, NumberInRange, NoticesShown
<1>0. /\ order \in Nat /\ Len(incomingCallsVector) \in Nat
      /\ incomingCallsVector \in Seq(IncCall)
      /\ AfterCommand \in {"lookup", "iterate"}
  BY LenProperties DEF TypeInv, TypeOK, AfterCommand
<1>1. ASSUME NEW c \in Calls, IncomingReceived(c)
      PROVE  NumberInv'
  <2>1. Len(incomingCallsVector') = Len(incomingCallsVector) + 1
    BY <1>0, <1>1, AppendProperties DEF IncomingReceived, IncCall
  <2>2. QED
    BY <1>0, <1>1, <2>1, NullIsNoCall DEF IncomingReceived, Iterating
<1>2. ASSUME NEW c \in Calls, RemoteEnds(c)
      PROVE  NumberInv'
  <2>1. Len(incomingCallsVector') = Len(incomingCallsVector)
    BY <1>0, <1>2, SilencedType DEF RemoteEnds, EndCall
  <2>2. QED
    BY <1>0, <1>2, <2>1 DEF RemoteEnds, Iterating
<1>3. ASSUME NEW c \in Calls, Failed(c) \/ Moved(c)
      PROVE  NumberInv'
  BY <1>0, <1>3 DEF Failed, Moved, Iterating, incomingVars, noticeVars
<1>4. CASE MainTurn \/ CallTurn
  BY <1>0, <1>4 DEF MainTurn, CallTurn, ShowNotices, incomingVars
<1>5. CASE CouldNotCall \/ Lookup \/ Return
  <2>1. pc' # "recv"
    BY <1>5 DEF CouldNotCall, Lookup, Return
  <2>2. QED
    BY <1>0, <1>5, <2>1 DEF CouldNotCall, Lookup, Return, incomingVars, noticeVars
<1>6. ASSUME NEW n \in DOMAIN incomingCallsVector, Accept(n)
      PROVE  NumberInv'
  BY <1>0, <1>6, EmptySeq DEF Accept, Acceptable, ForgetIncoming
<1>7. ASSUME NEW n \in DOMAIN incomingCallsVector, AcceptRefused(n)
      PROVE  NumberInv'
  <2>1. Len(incomingCallsVector') = Len(incomingCallsVector)
    BY <1>0, <1>7 DEF AcceptRefused
  <2>2. QED
    BY <1>0, <1>7, <2>1 DEF AcceptRefused, noticeVars
<1>8. CASE Decline
  <2>1. CASE DeclineAll
    BY <1>0, <1>8, <2>1, EmptySeq DEF Decline, DeclineAll, ForgetIncoming
  <2>2. ASSUME NEW k \in DOMAIN incomingCallsVector, DeclineStopsAt(k)
        PROVE  NumberInv'
    <3>1. Len(incomingCallsVector') = Len(incomingCallsVector)
      BY <1>0, <2>2, SilencedType DEF DeclineStopsAt
    <3>2. QED
      BY <1>0, <1>8, <2>2, <3>1 DEF Decline, DeclineStopsAt
  <2>3. QED
    BY <1>8, <2>1, <2>2 DEF Decline
<1>9. CASE Hangup
  <2>1. Len(incomingCallsVector') = Len(incomingCallsVector)
    BY <1>0, <1>9, SilencedType DEF Hangup, EndCall
  <2>2. pc' # "recv"
    BY <1>9 DEF Hangup
  <2>3. QED
    BY <1>0, <1>9, <2>1, <2>2 DEF Hangup
<1>10. ASSUME NEW c \in Calls, Call(c)
       PROVE  NumberInv'
  BY <1>0, <1>10 DEF Call, incomingVars, noticeVars
<1>11. CASE NoCommand \/ AcceptNoNumber \/ Hold \/ Resume \/ Browse \/ Register \/ End
  <2>1. UNCHANGED <<incomingCallsVector, noticeVars>>
    BY <1>11 DEF NoCommand, AcceptNoNumber, Hold, Resume, Browse, Register, End, incomingVars
  <2>2. pc' # "recv"
    BY <1>0, <1>11 DEF NoCommand, AcceptNoNumber, Hold, Resume, Browse, Register, End
  <2>3. QED
    BY <1>0, <2>1, <2>2 DEF noticeVars
<1>12. CASE LeaveLoop
  BY <1>0, <1>12 DEF LeaveLoop, incomingVars, noticeVars
<1>13. CASE UNCHANGED vars
  BY <1>13 DEF vars
<1>14. QED
  BY <1>1, <1>2, <1>3, <1>4, <1>5, <1>6, <1>7, <1>8, <1>9, <1>10, <1>11, <1>12, <1>13
     DEF Next, Library, Program, Command

\* The number shown with a call never exceeds the list accept indexes, however
\* calls come, end, are accepted or declined, in or outside other calls.
THEOREM NumbersStayInRange == Spec => []NumberInRange
<1>1. NumberInv => NumberInRange
  BY DEF NumberInv
<1>2. QED
  BY <1>1, TypeInvariant, NumberInit, NumberStep, PTL DEF Spec

-----------------------------------------------------------------------------
(* Entries marked as ringing. *)

LEMMA RingingInit == Init => RingingEntriesRing
BY EmptySeq DEF Init, RingingEntriesRing, Ringing

LEMMA RingingStep == TypeInv /\ RingingEntriesRing /\ [Next]_vars => RingingEntriesRing'
<1> SUFFICES ASSUME TypeInv, RingingEntriesRing, [Next]_vars
             PROVE  RingingEntriesRing'
  OBVIOUS
<1> DEFINE Rings(v, cs) ==
      \A i \in 1..Len(v) : v[i].status = 1 => cs[v[i].call] = "IncomingReceived"
<1>0. /\ TypeOK
      /\ incomingCallsVector \in Seq(IncCall)
      /\ callState \in [Calls -> State]
      /\ Len(incomingCallsVector) \in Nat
      /\ \A i \in 1..Len(incomingCallsVector) : incomingCallsVector[i] \in IncCall
      /\ DOMAIN incomingCallsVector = 1..Len(incomingCallsVector)
  BY LenProperties, ElementOfSeq DEF TypeInv, TypeOK
<1>a. Rings(incomingCallsVector, callState)
  BY <1>0, RingingType DEF RingingEntriesRing
<1>b. Rings(incomingCallsVector', callState') => RingingEntriesRing'
  <2>1. incomingCallsVector' \in Seq(IncCall)
    BY NextType DEF TypeInv, TypeOK
  <2>2. QED
    BY <2>1, RingingType DEF RingingEntriesRing
<1>c. \A i \in 1..Len(incomingCallsVector) : incomingCallsVector[i].call \in Calls
  BY <1>0 DEF IncCall
<1>d. \* A step that leaves the list alone and every ringing call ringing.
      ASSUME UNCHANGED incomingCallsVector,
             \A c \in Calls : callState[c] = "IncomingReceived" => callState'[c] = callState[c]
      PROVE  Rings(incomingCallsVector', callState')
  BY <1>a, <1>c, <1>d
<1>e. \* A step that ends the calls in D and silences their entries.
      ASSUME NEW D, incomingCallsVector' = Silenced(incomingCallsVector, D),
             \A c \in Calls \ D : callState[c] = "IncomingReceived" => callState'[c] = callState[c]
      PROVE  Rings(incomingCallsVector', callState')
  BY <1>0, <1>a, <1>c, <1>e, SilencedType
<1> SUFFICES Rings(incomingCallsVector', callState')
  BY <1>b
<1>1. ASSUME NEW c \in Calls, IncomingReceived(c)
      PROVE  Rings(incomingCallsVector', callState')
  <2> DEFINE e == [call |-> c, status |-> 1]
  <2>1. e \in IncCall /\ e.call = c
    BY DEF IncCall
  <2>2. /\ incomingCallsVector' = Append(incomingCallsVector, e)
        /\ callState' = [callState EXCEPT ![c] = "IncomingReceived"]
    BY <1>1 DEF IncomingReceived
  <2> HIDE DEF e
  <2>3. /\ Len(incomingCallsVector') = Len(incomingCallsVector) + 1
        /\ \A i \in 1..Len(incomingCallsVector) : incomingCallsVector'[i] = incomingCallsVector[i]
        /\ incomingCallsVector'[Len(incomingCallsVector) + 1] = e
    BY <1>0, <2>1, <2>2, AppendProperties
  <2>4. QED
    BY <1>0, <1>a, <1>c, <2>1, <2>2, <2>3
<1>2. ASSUME NEW c \in Calls, RemoteEnds(c)
      PROVE  Rings(incomingCallsVector', callState')
  BY <1>0, <1>2, <1>e DEF RemoteEnds, EndCall
<1>3. ASSUME NEW c \in Calls, Failed(c) \/ Moved(c)
      PROVE  Rings(incomingCallsVector', callState')
  BY <1>0, <1>3, <1>d DEF Failed, Moved, Moves, incomingVars
<1>4. CASE Program \/ NoCommand \/ AcceptNoNumber \/ Browse \/ Register \/ End \/ LeaveLoop
  <2>1. UNCHANGED <<callState, incomingCallsVector>>
    BY <1>4 DEF Program, MainTurn, CallTurn, CouldNotCall, Lookup, Return, NoCommand,
                AcceptNoNumber, Browse, Register, End, LeaveLoop, incomingVars
  <2>2. QED
    BY <1>d, <2>1
<1>5. ASSUME NEW n \in DOMAIN incomingCallsVector, Accept(n)
      PROVE  Rings(incomingCallsVector', callState')
  BY <1>5, EmptySeq DEF Accept, ForgetIncoming
<1>6. ASSUME NEW n \in DOMAIN incomingCallsVector, AcceptRefused(n)
      PROVE  Rings(incomingCallsVector', callState')
  <2>1. /\ incomingCallsVector' = [incomingCallsVector EXCEPT
                                     ![n] = [incomingCallsVector[n] EXCEPT !.status = 0]]
        /\ UNCHANGED callState
    BY <1>6, Zenon DEF AcceptRefused
  <2>2. [incomingCallsVector[n] EXCEPT !.status = 0] \in IncCall
          /\ [incomingCallsVector[n] EXCEPT !.status = 0].status = 0
    BY <1>0 DEF IncCall
  <2>3. QED
    BY <1>0, <1>a, <2>1, <2>2, ExceptSeq
<1>7. CASE Decline
  <2>1. CASE DeclineAll
    BY <2>1, EmptySeq DEF DeclineAll, ForgetIncoming
  <2>2. ASSUME NEW k \in DOMAIN incomingCallsVector, DeclineStopsAt(k)
        PROVE  Rings(incomingCallsVector', callState')
    BY <1>0, <1>e, <2>2 DEF DeclineStopsAt, WithDeclined
  <2>3. QED
    BY <1>7, <2>1, <2>2 DEF Decline
<1>8. CASE Hangup
  <2>1. CASE callsVector # <<>> /\ callState[Last(callsVector)] \in Live
    <3>1. EndCall(Last(callsVector))
      BY <1>8, <2>1 DEF Hangup
    <3>2. QED
      BY <1>0, <1>e, <3>1 DEF EndCall
  <2>2. CASE ~(callsVector # <<>> /\ callState[Last(callsVector)] \in Live)
    BY <1>8, <1>d, <2>2 DEF Hangup
  <2>3. QED
    BY <2>1, <2>2
<1>9. ASSUME NEW c \in Calls, Call(c)
      PROVE  Rings(incomingCallsVector', callState')
  BY <1>0, <1>9, <1>d DEF Call, Started, incomingVars
<1>10. CASE Hold
  BY <1>0, <1>10, <1>d DEF Hold, incomingVars
<1>11. CASE Resume
  BY <1>0, <1>11, <1>d DEF Resume, Started, incomingVars
<1>12. CASE UNCHANGED vars
  BY <1>12, <1>d DEF vars
<1>13. QED
  BY <1>1, <1>2, <1>3, <1>4, <1>5, <1>6, <1>7, <1>8, <1>9, <1>10, <1>11, <1>12
     DEF Next, Library, Command

\* An entry marked as ringing is a call that rings in the library, for any
\* number of calls: the callback and the commands keep the marks up to date.
THEOREM RingingMarksAreTrue == Spec => []RingingEntriesRing
BY TypeInvariant, RingingInit, RingingStep, PTL DEF Spec

-----------------------------------------------------------------------------
(* Calls that ring are listed, if the library never refuses. *)

LEMMA ListedInit == Init => RingingListed
BY DEF Init, RingingListed

LEMMA ListedStep ==
  ASSUME ~MayRefuse, ~OneSetupAtATime
  PROVE  TypeInv /\ RingingListed /\ [Next]_vars => RingingListed'
<1> SUFFICES ASSUME TypeInv, RingingListed, [Next]_vars
             PROVE  RingingListed'
  OBVIOUS
<1> DEFINE Listed(v, cs) ==
      \A c \in Calls : cs[c] = "IncomingReceived" =>
        \E i \in 1..Len(v) : v[i].call = c /\ v[i].status = 1
<1>0. /\ TypeOK
      /\ incomingCallsVector \in Seq(IncCall)
      /\ callState \in [Calls -> State]
      /\ Len(incomingCallsVector) \in Nat
      /\ \A i \in 1..Len(incomingCallsVector) : incomingCallsVector[i] \in IncCall
      /\ DOMAIN incomingCallsVector = 1..Len(incomingCallsVector)
  BY LenProperties, ElementOfSeq DEF TypeInv, TypeOK
<1>a. Listed(incomingCallsVector, callState)
  BY <1>0, RingingType DEF RingingListed
<1>b. Listed(incomingCallsVector', callState') => RingingListed'
  <2>1. incomingCallsVector' \in Seq(IncCall)
    BY NextType DEF TypeInv, TypeOK
  <2>2. QED
    BY <2>1, RingingType DEF RingingListed
<1>d. \* A step that leaves the list alone and lets no call ring.
      ASSUME UNCHANGED incomingCallsVector,
             \A c \in Calls : callState'[c] = "IncomingReceived" => callState[c] = "IncomingReceived"
      PROVE  Listed(incomingCallsVector', callState')
  BY <1>a, <1>d
<1>e. \* A step that silences the entries of the calls in D, which ring no more.
      ASSUME NEW D, incomingCallsVector' = Silenced(incomingCallsVector, D),
             \A c \in Calls : callState'[c] = "IncomingReceived" =>
               callState[c] = "IncomingReceived" /\ c \notin D
      PROVE  Listed(incomingCallsVector', callState')
  BY <1>0, <1>a, <1>e, SilencedType
<1>f. \* A step after which no call rings.
      ASSUME \A c \in Calls : callState'[c] # "IncomingReceived"
      PROVE  Listed(incomingCallsVector', callState')
  BY <1>f
<1>g. \* The library ends call d.
      ASSUME NEW d, EndCall(d)
      PROVE  Listed(incomingCallsVector', callState')
  <2>1. \A c \in Calls : callState'[c] = "IncomingReceived" =>
          callState[c] = "IncomingReceived" /\ c \notin {d}
    BY <1>0, <1>g DEF EndCall
  <2>2. incomingCallsVector' = Silenced(incomingCallsVector, {d})
    BY <1>g DEF EndCall
  <2>3. QED
    BY <1>e, <2>1, <2>2
<1> SUFFICES Listed(incomingCallsVector', callState')
  BY <1>b
<1>1. ASSUME NEW c \in Calls, IncomingReceived(c)
      PROVE  Listed(incomingCallsVector', callState')
  <2> DEFINE e == [call |-> c, status |-> 1]
  <2>1. e \in IncCall /\ e.call = c /\ e.status = 1
    BY DEF IncCall
  <2>2. /\ incomingCallsVector' = Append(incomingCallsVector, e)
        /\ callState' = [callState EXCEPT ![c] = "IncomingReceived"]
    BY <1>1 DEF IncomingReceived
  <2> HIDE DEF e
  <2>3. /\ Len(incomingCallsVector') = Len(incomingCallsVector) + 1
        /\ \A i \in 1..Len(incomingCallsVector) : incomingCallsVector'[i] = incomingCallsVector[i]
        /\ incomingCallsVector'[Len(incomingCallsVector) + 1] = e
    BY <1>0, <2>1, <2>2, AppendProperties
  <2>4. /\ Len(incomingCallsVector) + 1 \in 1..Len(incomingCallsVector')
        /\ \A i \in 1..Len(incomingCallsVector) : i \in 1..Len(incomingCallsVector')
    BY <1>0, <2>3
  <2>5. ASSUME NEW d \in Calls, callState'[d] = "IncomingReceived"
        PROVE  \E i \in 1..Len(incomingCallsVector') :
                 incomingCallsVector'[i].call = d /\ incomingCallsVector'[i].status = 1
    <3>1. CASE d = c
      BY <2>1, <2>3, <2>4, <3>1
    <3>2. CASE d # c
      <4>1. callState[d] = "IncomingReceived"
        BY <1>0, <2>2, <2>5, <3>2
      <4>2. QED
        BY <1>a, <2>3, <2>4, <4>1
    <3>3. QED
      BY <3>1, <3>2
  <2>6. QED
    BY <2>5
<1>2. ASSUME NEW c \in Calls, RemoteEnds(c)
      PROVE  Listed(incomingCallsVector', callState')
  BY <1>2, <1>g DEF RemoteEnds
<1>3. ASSUME NEW c \in Calls, Failed(c) \/ Moved(c)
      PROVE  Listed(incomingCallsVector', callState')
  BY <1>0, <1>3, <1>d DEF Failed, Moved, Moves, incomingVars
<1>4. CASE Program \/ NoCommand \/ AcceptNoNumber \/ Browse \/ Register \/ End \/ LeaveLoop
  <2>1. UNCHANGED <<callState, incomingCallsVector>>
    BY <1>4 DEF Program, MainTurn, CallTurn, CouldNotCall, Lookup, Return, NoCommand,
                AcceptNoNumber, Browse, Register, End, LeaveLoop, incomingVars
  <2>2. QED
    BY <1>d, <2>1
<1>5. ASSUME NEW n \in DOMAIN incomingCallsVector, Accept(n)
      PROVE  Listed(incomingCallsVector', callState')
  <2> DEFINE c == incomingCallsVector[n].call
             R == Ringing(incomingCallsVector)
  <2>1. callState' = Started(c, "Accepted", R \ {c})
    BY <1>5 DEF Accept, Declined
  <2>2. \A d \in Calls : callState[d] = "IncomingReceived" => d \in R
    BY DEF RingingListed
  <2> HIDE DEF c, R
  <2>3. QED
    BY <1>f, <2>1, <2>2 DEF Started
<1>6. ASSUME NEW n \in DOMAIN incomingCallsVector
      PROVE  ~AcceptRefused(n)
  BY DEF AcceptRefused, SetupAllowed
<1>7. CASE Decline
  <2>1. DeclineAll
    BY <1>7 DEF Decline, DeclineStopsAt
  <2>2. QED
    BY <1>f, <2>1 DEF DeclineAll, WithDeclined, RingingListed
<1>8. CASE Hangup
  <2>1. CASE callsVector # <<>> /\ callState[Last(callsVector)] \in Live
    <3>1. EndCall(Last(callsVector))
      BY <1>8, <2>1 DEF Hangup
    <3>2. QED
      BY <1>g, <3>1
  <2>2. CASE ~(callsVector # <<>> /\ callState[Last(callsVector)] \in Live)
    BY <1>8, <1>d, <2>2 DEF Hangup
  <2>3. QED
    BY <2>1, <2>2
<1>9. ASSUME NEW c \in Calls, Call(c)
      PROVE  Listed(incomingCallsVector', callState')
  BY <1>0, <1>9, <1>d DEF Call, Started, incomingVars
<1>10. CASE Hold
  BY <1>0, <1>10, <1>d DEF Hold, incomingVars
<1>11. CASE Resume
  BY <1>0, <1>11, <1>d DEF Resume, Started, incomingVars
<1>12. CASE UNCHANGED vars
  BY <1>12, <1>d DEF vars
<1>13. QED
  BY <1>1, <1>2, <1>3, <1>4, <1>5, <1>6, <1>7, <1>8, <1>9, <1>10, <1>11, <1>12
     DEF Next, Library, Command

\* If the library never refuses to accept or decline, every call that rings is
\* one the user can still accept or decline, for any number of calls: no
\* command forgets the list while a call in it rings on.
THEOREM RingingCallsAreListed ==
  ASSUME ~MayRefuse, ~OneSetupAtATime
  PROVE  Spec => []RingingListed
<1>1. TypeInv /\ RingingListed /\ [Next]_vars => RingingListed'
  BY ListedStep
<1>2. QED
  BY <1>1, TypeInvariant, ListedInit, PTL DEF Spec
=============================================================================
