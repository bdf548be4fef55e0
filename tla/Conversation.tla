---------------------------- MODULE Conversation ----------------------------
(***************************************************************************)
(* The bot's conversation with its user: the lines it reads and the text   *)
(* messages it passes on.  text_received, called inside iterate, puts a    *)
(* text into the one string incomingChatMessage.  A turn of main or of a   *)
(* call_loop iterates, shows the text if there is one, and reads; the      *)
(* browsing mode and the waits for the proxy iterate too and show nothing. *)
(***************************************************************************)
EXTENDS IrcInput

CONSTANT MaxTexts  \* bound on the texts received

ASSUME SomeTexts == MaxTexts \in Nat

VARIABLES
  arrived,               \* how many texts came in; a text is its number
  incomingChatMessage,   \* the text not yet shown; 0 is the empty string
  shown                  \* the texts shown to the user

textVars == <<arrived, incomingChatMessage, shown>>
vars     == <<inputVars, textVars>>

Init ==
  /\ InputInit
  /\ arrived = 0 /\ incomingChatMessage = 0 /\ shown = <<>>

\* text_received, for each text that comes in during an iterate: what the slot
\* holds after text k, the last one of them.
text_received(k) == IF k > arrived THEN k ELSE incomingChatMessage

AfterShowingMutant == incomingChatMessage
\* incomingChatMessage.clear()
AfterShowing == 0

ShowMutant(text) == incomingChatMessage' = AfterShowing /\ shown' = Append(shown, text)
Show(text) ==
  IF text # 0
  THEN incomingChatMessage' = AfterShowing /\ shown' = Append(shown, text)
  ELSE incomingChatMessage' = 0 /\ UNCHANGED shown

Keep(text) == incomingChatMessage' = text /\ UNCHANGED shown

IterateMutant(shows) ==
  \E k \in arrived..MaxTexts :
    /\ arrived' = k
    /\ IF shows /\ mode = "call" THEN Show(text_received(k)) ELSE Keep(text_received(k))
\* iterate, whose texts are shown only in main and in a call_loop.
Iterate(shows) ==
  \E k \in arrived..MaxTexts :
    /\ arrived' = k
    /\ IF shows THEN Show(text_received(k)) ELSE Keep(text_received(k))

\* A turn of a loop, and one in which recv returned nothing.
Turn == Receive /\ Iterate(~browsing)

IdleTurn ==
  /\ mode \in {"main", "call"}
  /\ Iterate(~browsing)
  /\ UNCHANGED inputVars

\* A turn of a wait for the proxy, and the last turns of a wait or a call.
WaitTurn == mode = "wait" /\ Iterate(FALSE) /\ UNCHANGED inputVars

LoopOver == (WaitOver \/ CallEnds) /\ Iterate(FALSE)

Next ==
  \/ Turn
  \/ IdleTurn
  \/ WaitTurn
  \/ LoopOver
  \/ (\E l \in Lines : Send(l)) /\ UNCHANGED textVars

Spec == Init /\ [][Next]_vars

\* There is something to read and a loop that reads.
CanRead == mode \in {"main", "call"} /\ read < Len(sent)

\* The loops take their turns, so that what can be read is read on, and the
\* proxy answers; nothing is assumed of the server, the user, the peers and the
\* calls.
FairSpec ==
  /\ Spec
  /\ []<>~CanRead \/ []<><<read' # read>>_vars
  /\ WF_vars(incomingChatMessage # 0 /\ IdleTurn)
  /\ WF_vars(WaitOver /\ Iterate(FALSE))

-----------------------------------------------------------------------------
TypeOK ==
  /\ InputTypeOK
  /\ arrived \in 0..MaxTexts
  /\ incomingChatMessage \in 0..MaxTexts
  /\ shown \in Seq(1..MaxTexts)

\* A text can be lost to a newer one, but never the newest: it is shown or will
\* be.  None is shown twice or after a newer one.
NewestTextKept ==
  /\ arrived > 0 => \/ incomingChatMessage = arrived
                    \/ incomingChatMessage = 0 /\ shown # <<>> /\ Last(shown) = arrived
  /\ \A i, j \in DOMAIN shown : i < j => shown[i] < shown[j]
  /\ incomingChatMessage # 0 => \A i \in DOMAIN shown : shown[i] < incomingChatMessage

PingWaits == \E p \in LineStarts : sent[p] = "PING" /\ ~Answered(p, "PONG", sent[p + 1])

\* While lines come one by one every PING gets its PONG in the end, also one
\* sent during a call, while the user browses, or while a command waits for
\* the proxy and nobody reads.
PingsAnswered ==
  PingWaits ~> ~PingWaits \/ ~Alive \/ overread \/ ~aligned

\* A text that came in while nothing was shown is shown once the user has left
\* the browsing mode, if ever.
TextsShown ==
  incomingChatMessage # 0 ~> incomingChatMessage = 0 \/ browsing \/ ~Alive
=============================================================================
