----------------------------- MODULE CallControl -----------------------------
(***************************************************************************)
(* The call control of the bot: the two vectors of calls, the nested call  *)
(* loops that walk them, the commands a user types and the callback of the *)
(* SIP library.  irc_bot_main.cpp, irc_bot.cpp, irc_bot_core.cpp and       *)
(* irc_bot_call.cpp together.                                              *)
(*                                                                         *)
(* The program has one thread.  What interleaves is (a) the library, which *)
(* changes calls and runs call_state_changed only while the program is     *)
(* inside linphone_core_iterate, any number of times per turn, (b) the     *)
(* user, whose command is read once per turn, and (c) the stack of call    *)
(* loops: "call" and "accept" typed during a call run a new loop inside    *)
(* the old one, and every loop works on the same global vectors.           *)
(*                                                                         *)
(* Call states carry the names the source compares with.  The header the   *)
(* program is compiled with has one state more than the library it runs    *)
(* on, so the names are shifted: "Connected" is a call whose streams run,  *)
(* "End" one the remote put on hold, "Referred" one that failed, "Error"   *)
(* one that ended, "Updating" one the library released.                    *)
(***************************************************************************)
EXTENDS Integers, SequencesExt

CONSTANTS
  Calls,            \* the LinphoneCall objects; the library uses each once
  Null,             \* nullptr, or an empty message string
  OneSetupAtATime,  \* TRUE: the library refuses to dial or accept a call
                    \* while another one is being set up
  MayRefuse         \* TRUE: accepting or declining a call may fail at any
                    \* time, for reasons the program does not see

ASSUME NullIsNoCall == Null \notin Calls
ASSUME Flags == OneSetupAtATime \in BOOLEAN /\ MayRefuse \in BOOLEAN

VARIABLES
  callState,            \* linphone_call_get_state of every call
  callsVector,          \* irc_bot_core.cpp: the active calls
  incomingCallsVector,  \* irc_bot_core.cpp: calls that rang, status 1 = ringing
  incomingCall,         \* irc_bot_core.cpp: the last call that came in
  incomingCallMessage,  \* the "is calling!" text waiting to be shown: its call
  remoteHungUp,         \* the "is terminated!" text waiting: its call
  order,                \* irc_bot::order, the number shown last
  outgoingCallee,       \* irc_bot::outgoingCallee, by its call
  callChat,             \* the peer of the one global in-call chat room
  micEnabled,           \* linphone_core_enable_mic, for the whole core
  frames,               \* the running call_loop activations, innermost last
  pc                    \* where the program is

vars == <<callState, callsVector, incomingCallsVector, incomingCall,
          incomingCallMessage, remoteHungUp, order, outgoingCallee, callChat,
          micEnabled, frames, pc>>

incomingVars == <<incomingCallsVector, incomingCall>>
noticeVars   == <<incomingCallMessage, remoteHungUp, order>>
loopVars     == <<outgoingCallee, callChat, micEnabled, frames>>

MaybeCall == Calls \cup {Null}

Live  == {"OutgoingInit", "Accepted", "Connected", "Paused", "Resuming", "End"}
State == Live \cup {"Idle", "IncomingReceived", "Referred", "Error", "Updating"}

\* struct IncCall
IncCall == [call : Calls, status : {0, 1}]

\* One activation of call_loop: its parameter call, its local copy auxCall,
\* whether call is a local variable of irc_bot::call ("own") or the caller's
\* variable passed on by irc_bot::accept, and its flags aux and isOnHold.
Frame == [call : Calls, auxCall : Calls, own : BOOLEAN, aux : BOOLEAN,
          isOnHold : BOOLEAN]

\* iterate: in linphone_core_iterate of the main loop or of the top call_loop;
\* recv: notices shown, about to read a command; lookup: call_loop's search in
\* callsVector; return: call_loop left; browse, register: loops that iterate.
PC == {"iterate", "recv", "lookup", "return", "browse", "register", "ended",
       "crashed"}

TypeOK ==
  /\ callState \in [Calls -> State]
  /\ callsVector \in Seq(Calls)
  /\ incomingCallsVector \in Seq(IncCall)
  /\ incomingCall \in MaybeCall
  /\ incomingCallMessage \in MaybeCall
  /\ remoteHungUp \in MaybeCall
  /\ order \in Nat
  /\ outgoingCallee \in MaybeCall
  /\ callChat \in MaybeCall
  /\ micEnabled \in BOOLEAN
  /\ frames \in Seq(Frame)
  /\ pc \in PC

Init ==
  /\ callState = [c \in Calls |-> "Idle"]
  /\ callsVector = <<>>
  /\ incomingCallsVector = <<>>
  /\ incomingCall = Null
  /\ incomingCallMessage = Null
  /\ remoteHungUp = Null
  /\ order = 0
  /\ outgoingCallee = Null
  /\ callChat = Null
  /\ micEnabled = TRUE
  /\ frames = <<>>
  /\ pc = "iterate"

InCall == frames # <<>>
Top    == frames[Len(frames)]

-----------------------------------------------------------------------------
(* Effects shared by several actions. *)

SilencedMutant(v, D) == v

\* call_state_changed, state "Error", of each call in D: it rings no more.
Silenced(v, D) ==
  [i \in DOMAIN v |-> IF v[i].call \in D THEN [v[i] EXCEPT !.status = 0] ELSE v[i]]

ErasedMutant(v, c) == IF c \in ToSet(v) THEN Front(v) ELSE v

\* call_state_changed, state "Error": the call leaves the active calls.
Erased(v, c) == IF c \in ToSet(v) THEN RemoveAt(v, CHOOSE i \in DOMAIN v : v[i] = c) ELSE v

\* The library ends call c and calls call_state_changed.
EndCall(c) ==
  /\ callState' = [callState EXCEPT ![c] = "Error"]
  /\ incomingCallsVector' = Silenced(incomingCallsVector, {c})
  /\ callsVector' = Erased(callsVector, c)
  /\ remoteHungUp' = c

\* Calls whose media are not settled yet.
Settling == {c \in Calls : callState[c] \in {"OutgoingInit", "Accepted", "Resuming"}}

SetupAllowed == OneSetupAtATime => Settling = {}

\* The library starts call c in state s, pausing the running call first.
\* The calls in D are declined on the way.
Started(c, s, D) ==
  [d \in Calls |->
     IF d = c THEN s
     ELSE IF d \in D THEN "Error"
     ELSE IF callState[d] \in {"Connected", "End"} THEN "Paused"
     ELSE callState[d]]

\* call_loop entered for call c.
NewFrame(c, own) ==
  [call |-> c, auxCall |-> c, own |-> own, aux |-> TRUE, isOnHold |-> FALSE]

AfterCommandMutant == "iterate"

\* Where a command handler continues when it returns 0.
AfterCommand == IF InCall THEN "lookup" ELSE "iterate"

ForgetIncomingMutant == incomingCallsVector' = <<>> /\ UNCHANGED order

\* accept and decline start the list of incoming calls and its numbers afresh.
ForgetIncoming == incomingCallsVector' = <<>> /\ order' = 0

RestoredMutant(f) == f
RestoredFromGlobal(f) == [f EXCEPT !.call = incomingCall]

\* call_loop takes its own call up again.
Restored(f) == [f EXCEPT !.call = f.auxCall]

ClearsActiveMutant == Top.own

\* irc_bot_main.cpp clears callsVector when the command call returns.
ClearsActive == Len(frames) = 1 /\ Top.own

-----------------------------------------------------------------------------
(* The library, inside linphone_core_iterate. *)

Iterating == pc \in {"iterate", "browse", "register"}

IncomingReceived(c) ==
  /\ Iterating
  /\ callState[c] = "Idle"
  /\ callState' = [callState EXCEPT ![c] = "IncomingReceived"]
  /\ incomingCallMessage' = c
  /\ incomingCall' = c
  /\ incomingCallsVector' = Append(incomingCallsVector, [call |-> c, status |-> 1])
  /\ UNCHANGED <<callsVector, remoteHungUp, order, loopVars, pc>>

\* A ringing or live call is over: the remote hung up, cancelled or refused.
RemoteEnds(c) ==
  /\ Iterating
  /\ callState[c] \in Live \cup {"IncomingReceived"}
  /\ EndCall(c)
  /\ UNCHANGED <<incomingCall, incomingCallMessage, order, loopVars, pc>>

\* A dialled call fails.  The callback pops the newest active call, whichever
\* it is; pop_back of an empty vector is undefined and ends the program.
Failed(c) ==
  /\ Iterating
  /\ callState[c] = "OutgoingInit"
  /\ callState' = [callState EXCEPT ![c] = "Referred"]
  /\ IF callsVector = <<>>
       THEN pc' = "crashed" /\ UNCHANGED callsVector
       ELSE callsVector' = Front(callsVector) /\ UNCHANGED pc
  /\ UNCHANGED <<incomingVars, noticeVars, loopVars>>

\* State changes of a call the callback takes no notice of.
Moves == {<<"Error", "Updating">>, <<"Referred", "Updating">>,
          <<"OutgoingInit", "Connected">>, <<"Accepted", "Connected">>,
          <<"Resuming", "Connected">>,
          <<"Connected", "End">>, <<"End", "Connected">>}

Moved(c) ==
  /\ Iterating
  /\ \E m \in Moves : /\ callState[c] = m[1]
                      /\ callState' = [callState EXCEPT ![c] = m[2]]
  /\ UNCHANGED <<callsVector, incomingVars, noticeVars, loopVars, pc>>

Library == \E c \in Calls : IncomingReceived(c) \/ RemoteEnds(c) \/ Failed(c) \/ Moved(c)

-----------------------------------------------------------------------------
(* One turn of the main loop or of call_loop, up to reading a command. *)

\* The waiting notices are shown; a new call gets the next number.
ShowNotices ==
  /\ order' = IF incomingCallMessage = Null THEN order ELSE order + 1
  /\ incomingCallMessage' = Null
  /\ remoteHungUp' = Null
  /\ pc' = "recv"

MainTurn ==
  /\ pc = "iterate" /\ ~InCall
  /\ ShowNotices
  /\ UNCHANGED <<callState, callsVector, incomingVars, loopVars>>

\* A loop that has seen its call in state s: the connection is announced once,
\* a hold by the remote and its end each time.
Noticed(f, s) ==
  [f EXCEPT !.aux = f.aux /\ s # "Connected",
            !.isOnHold = (f.isOnHold \/ s = "End") /\ s # "Connected"]

\* call_loop: announce the connection and open the chat room once, follow the
\* remote's holds, then check_messages_during_call.
CallTurn ==
  /\ pc = "iterate" /\ InCall
  /\ callState[Top.call] # "Updating"
  /\ LET s == callState[Top.call] IN
       /\ frames' = [frames EXCEPT ![Len(frames)] = Noticed(Top, s)]
       /\ callChat' = IF Top.aux /\ s = "Connected" THEN Top.call ELSE callChat
  /\ ShowNotices
  /\ UNCHANGED <<callState, callsVector, incomingVars, outgoingCallee, micEnabled>>

\* call_loop: the call is gone, "Could not call", break.
CouldNotCall ==
  /\ pc = "iterate" /\ InCall
  /\ callState[Top.call] = "Updating"
  /\ pc' = "return"
  /\ UNCHANGED <<callState, callsVector, incomingVars, noticeVars, loopVars>>

\* call_loop: go on only if the loop's own call is still an active one.
Lookup ==
  /\ pc = "lookup"
  /\ IF Top.auxCall \in ToSet(callsVector)
       THEN /\ frames' = [frames EXCEPT ![Len(frames)] = Restored(Top)]
            /\ outgoingCallee' = Top.auxCall
            /\ pc' = IF callState[Top.auxCall] = "Error" THEN "return" ELSE "iterate"
       ELSE /\ pc' = "return"
            /\ UNCHANGED <<frames, outgoingCallee>>
  /\ UNCHANGED <<callState, callsVector, incomingVars, noticeVars, callChat, micEnabled>>

\* call_loop, then call or accept, return.  A loop that accept started leaves
\* its call in the caller's variable; main clears callsVector after call.
Return ==
  /\ pc = "return"
  /\ frames' = LET outer == Front(frames) IN
       IF outer # <<>> /\ ~Top.own
         THEN [outer EXCEPT ![Len(outer)].call = Top.call]
         ELSE outer
  /\ callsVector' = IF ClearsActive THEN <<>> ELSE callsVector
  /\ pc' = IF Len(frames) = 1 THEN "iterate" ELSE "lookup"
  /\ UNCHANGED <<callState, incomingVars, noticeVars, outgoingCallee, callChat, micEnabled>>

-----------------------------------------------------------------------------
(* The commands, read once per turn. *)

\* recv timed out, or a command that leaves the calls alone: status, help,
\* mess, -m, the address book, hangup without a call, a refused call or hold.
NoCommand ==
  /\ pc = "recv"
  /\ pc' = AfterCommand
  /\ UNCHANGED <<callState, callsVector, incomingVars, noticeVars, loopVars>>

Call(c) ==
  /\ pc = "recv"
  /\ callState[c] = "Idle"
  /\ SetupAllowed
  /\ callState' = Started(c, "OutgoingInit", {})
  /\ callsVector' = Append(callsVector, c)
  /\ outgoingCallee' = c
  /\ frames' = Append(frames, NewFrame(c, TRUE))
  /\ pc' = "iterate"
  /\ UNCHANGED <<incomingVars, noticeVars, callChat, micEnabled>>

\* The number names a ringing call.
Acceptable(n) ==
  /\ pc = "recv"
  /\ incomingCall # Null
  /\ n \in DOMAIN incomingCallsVector
  /\ incomingCallsVector[n].status = 1

Ringing(v) == {v[i].call : i \in {j \in DOMAIN v : v[j].status = 1}}

DeclinedMutant(R) == {{}}

\* Which of the calls in R the library may have ended when told to decline all.
Declined(R) == IF MayRefuse THEN SUBSET R ELSE {R}

\* The accepted call becomes active and every other ringing call is declined;
\* the answer of linphone_call_decline is not looked at, so those it refuses
\* to decline ring on.
Accept(n) ==
  /\ Acceptable(n)
  /\ SetupAllowed
  /\ LET c == incomingCallsVector[n].call IN
       /\ callState[c] = "IncomingReceived"
       /\ \E D \in Declined(Ringing(incomingCallsVector) \ {c}) :
            callState' = Started(c, "Accepted", D)
       /\ outgoingCallee' = c
       /\ callsVector' = Append(callsVector, c)
       /\ frames' = Append(IF InCall THEN [frames EXCEPT ![Len(frames)].call = c]
                                     ELSE frames,
                           NewFrame(c, FALSE))
  /\ incomingCall' = Null
  /\ ForgetIncoming
  /\ remoteHungUp' = Null
  /\ pc' = "iterate"
  /\ UNCHANGED <<incomingCallMessage, callChat, micEnabled>>

\* linphone_call_accept reports an error after the entry was marked inactive.
AcceptRefused(n) ==
  /\ Acceptable(n)
  /\ MayRefuse \/ ~SetupAllowed
  /\ incomingCallsVector' = [incomingCallsVector EXCEPT ![n].status = 0]
  /\ incomingCall' = incomingCallsVector[n].call
  /\ outgoingCallee' = incomingCallsVector[n].call
  /\ pc' = AfterCommand
  /\ UNCHANGED <<callState, callsVector, noticeVars, callChat, micEnabled, frames>>

\* "accept 0" reads the element before the first one, which is undefined: the
\* program dies or takes what it finds for a null call; "accept x" makes stoi
\* throw, which nothing catches.
AcceptNoNumber ==
  /\ pc = "recv"
  /\ incomingCall # Null
  /\ \/ pc' = "crashed" /\ UNCHANGED incomingCall
     \/ pc' = AfterCommand /\ incomingCall' = Null
  /\ UNCHANGED <<callState, callsVector, incomingCallsVector, noticeVars, loopVars>>

\* Every call in D is declined.
WithDeclined(D) == [c \in Calls |-> IF c \in D THEN "Error" ELSE callState[c]]

DeclineAll ==
  /\ callState' = WithDeclined(Ringing(incomingCallsVector))
  /\ ForgetIncoming

\* The library refuses to decline the k-th call: the ones before it are gone,
\* the rest is left alone.
DeclineStopsAt(k) ==
  LET gone == {incomingCallsVector[i].call :
                 i \in {j \in 1..(k - 1) : incomingCallsVector[j].status = 1}} IN
  /\ MayRefuse
  /\ incomingCallsVector[k].status = 1
  /\ callState' = WithDeclined(gone)
  /\ incomingCallsVector' = Silenced(incomingCallsVector, gone)
  /\ UNCHANGED order

\* decline: end every ringing call, stop at the first the library refuses.
Decline ==
  /\ pc = "recv"
  /\ incomingCall # Null
  /\ incomingCall' = Null
  /\ remoteHungUp' = Null
  /\ DeclineAll \/ \E k \in DOMAIN incomingCallsVector : DeclineStopsAt(k)
  /\ pc' = AfterCommand
  /\ UNCHANGED <<callsVector, incomingCallMessage, loopVars>>

\* hangup during a call takes the newest active call, whichever loop runs;
\* back() of an empty vector is undefined and ends the program.
Hangup ==
  /\ pc = "recv" /\ InCall
  /\ IF callsVector = <<>>
       THEN /\ pc' = "crashed"
            /\ UNCHANGED <<callState, callsVector, incomingCallsVector, remoteHungUp, frames>>
       ELSE LET c == Last(callsVector) IN
            /\ frames' = [frames EXCEPT ![Len(frames)].call = c]
            /\ pc' = "return"
            /\ IF callState[c] \in Live
                 THEN EndCall(c)
                 ELSE UNCHANGED <<callState, callsVector, incomingCallsVector, remoteHungUp>>
  /\ UNCHANGED <<incomingCall, incomingCallMessage, order, outgoingCallee, callChat, micEnabled>>

\* hold: the answer of linphone_call_pause is not looked at.
Hold ==
  /\ pc = "recv" /\ InCall
  /\ callState[Top.call] = "Connected"
  /\ \E s \in {"Connected", "Paused"} : callState' = [callState EXCEPT ![Top.call] = s]
  /\ micEnabled' = FALSE
  /\ pc' = AfterCommand
  /\ UNCHANGED <<callsVector, incomingVars, noticeVars, outgoingCallee, callChat, frames>>

\* resume: tried in every state but "Connected", whatever comes of it.
Resume ==
  /\ pc = "recv" /\ InCall
  /\ callState[Top.call] # "Connected"
  /\ \/ UNCHANGED callState
     \/ /\ callState[Top.call] = "Paused" /\ SetupAllowed
        /\ callState' = Started(Top.call, "Resuming", {})
  /\ micEnabled' = TRUE
  /\ pc' = AfterCommand
  /\ UNCHANGED <<callsVector, incomingVars, noticeVars, outgoingCallee, callChat, frames>>

\* -con, -reg: browsing iterates the library and shows no notices until exit.
Browse ==
  /\ pc = "recv"
  /\ pc' = "browse"
  /\ UNCHANGED <<callState, callsVector, incomingVars, noticeVars, loopVars>>

\* register, unregister, outside calls only: iterate until the proxy answers.
Register ==
  /\ pc = "recv" /\ ~InCall
  /\ pc' = "register"
  /\ UNCHANGED <<callState, callsVector, incomingVars, noticeVars, loopVars>>

LeaveLoop ==
  /\ pc \in {"browse", "register"}
  /\ pc' = AfterCommand
  /\ UNCHANGED <<callState, callsVector, incomingVars, noticeVars, loopVars>>

\* end, or ERROR from the server, outside calls only.
End ==
  /\ pc = "recv" /\ ~InCall
  /\ pc' = "ended"
  /\ UNCHANGED <<callState, callsVector, incomingVars, noticeVars, loopVars>>

Command ==
  \/ NoCommand \/ AcceptNoNumber \/ Decline \/ Hangup \/ Hold \/ Resume
  \/ Browse \/ Register \/ End
  \/ \E c \in Calls : Call(c)
  \/ \E n \in DOMAIN incomingCallsVector : Accept(n) \/ AcceptRefused(n)

Program == MainTurn \/ CallTurn \/ CouldNotCall \/ Lookup \/ Return

Next == Library \/ Program \/ Command \/ LeaveLoop

\* linphone_core_iterate returns and recv gives up after 5 ms, so the program's
\* own steps are fair.  Nothing is assumed of the library's events, nor of the
\* user, who may browse for ever.
Fairness == WF_vars(Program) /\ WF_vars(Command)

Spec == Init /\ [][Next]_vars

FairSpec == Spec /\ Fairness

-----------------------------------------------------------------------------
(* Safety. *)

\* No number shown, nor the one about to be, exceeds the list that accept
\* indexes: order restarts exactly when incomingCallsVector is cleared, in
\* accept and in decline, and no call comes in between the two.
NumberInRange ==
  order + (IF incomingCallMessage = Null THEN 0 ELSE 1) <= Len(incomingCallsVector)

\* An entry marked as ringing is a call that rings in the library, whatever
\* calls ended, were declined or were accepted since; accept and decline work
\* on the entries and never look at the call.
RingingEntriesRing ==
  \A c \in Ringing(incomingCallsVector) : callState[c] = "IncomingReceived"

\* Each turn of call_loop works on the call it was entered with and names that
\* call to the user, although loops nested in it overwrite the variable (accept
\* passes it on by reference, hangup assigns it) and outgoingCallee is shared.
LoopDrivesOwnCall ==
  pc = "iterate" /\ InCall => Top.call = Top.auxCall /\ outgoingCallee = Top.auxCall

\* While its own call is live, the loop that reads commands has the newest
\* active call: hangup, which takes callsVector.back(), ends the call the user
\* is talking in, not one that waits below it.
HangupEndsOwnCall ==
  pc = "recv" /\ InCall /\ callState[Top.auxCall] \in Live =>
    callsVector # <<>> /\ Last(callsVector) = Top.auxCall

Owned(c) == \E i \in DOMAIN frames : frames[i].auxCall = c

\* A live call is one of the active calls and has a call_loop to drive it: no
\* call is left running that the user cannot reach any more.
NoOrphanCall ==
  \A c \in Calls : callState[c] \in Live => c \in ToSet(callsVector) /\ Owned(c)

\* When a dialled call fails, the entry the callback pops is its own: the
\* callback pops the last one and never looks at which call failed.
FailurePopsItself ==
  \A c \in Calls : callState[c] = "OutgoingInit" =>
    callsVector # <<>> /\ Last(callsVector) = c

\* A call that rings is listed as ringing, so the user can accept or decline it.
RingingListed ==
  \A c \in Calls : callState[c] = "IncomingReceived" => c \in Ringing(incomingCallsVector)

\* A call_loop begins a turn, shows notices and reads a command, only for a call
\* that is live: ended and failed calls leave callsVector in the callback, so no
\* loop, however many nested calls ended meanwhile, finds a dead call there.
TurnsOnlyWhileLive ==
  [][pc # "iterate" /\ pc' = "iterate" /\ InCall' => callState'[Top'.auxCall] \in Live]_vars

Stack == INSTANCE CallStack WITH
  seen    <- {c \in Calls : callState[c] # "Idle"},
  ringing <- Ringing(incomingCallsVector),
  up      <- {c \in Calls : callState[c] \in Live},
  stack   <- callsVector

\* callsVector is the stack of the calls that are up: every event and command,
\* the nested loops and main's clear() included, is one of its steps or none.
RefinesCallStack == Stack!Spec

-----------------------------------------------------------------------------
(* What the manual and the comments say and the code does not do. *)

\* manual.txt, -m: "Sends a direct message to the user you are in call with":
\* the chat room belongs to the connected call whose loop reads the command.
MessageReachesPeer ==
  pc = "recv" /\ InCall /\ callState[Top.call] = "Connected" => callChat = Top.call

\* manual.txt, accept: "<number> is the order of the call in which the call
\* comes.  The order is displayed to the user": the number shown with a call is
\* that call's position.
NumberNamesCall ==
  [][order' > order => incomingCallsVector[order'].call = incomingCallMessage]_vars

\* manual.txt, hold: "Puts the current call on hold": no other call is affected,
\* so a call just announced as established has its microphone.
EstablishedWithMic == [][callChat' # callChat => micEnabled]_vars

-----------------------------------------------------------------------------
(* Liveness. *)

SomeLive == \E c \in Calls : callState[c] \in Live

\* How many steps of its own the program is at most away from the main loop
\* when no call is live: the rest of the innermost loop's turn, and for every
\* loop its return and its caller's lookup.
StepsLeft ==
  5 * Len(frames) + (CASE pc = "iterate" -> 4
                       [] pc = "recv" -> 3
                       [] pc \in {"browse", "register"} -> 2
                       [] pc = "lookup" -> 1
                       [] OTHER -> 0)

\* While no call is live, nothing brings a nested loop back to an earlier place
\* or enters another: whatever the user types and the library reports, every
\* step of the program brings it nearer to the main loop.
NestedLoopsShrink ==
  [][InCall /\ ~SomeLive /\ ~SomeLive' => StepsLeft' < StepsLeft \/ UNCHANGED <<pc, frames>>]_vars

\* When no call is live the nested loops unwind to the main loop, where register
\* and end work again, unless the user browses or the program is over.
LoopsUnwind ==
  []<>(frames = <<>> \/ SomeLive \/ pc \in {"browse", "ended", "crashed"})
=============================================================================
