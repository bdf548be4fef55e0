------------------------------ MODULE CallStack ------------------------------
(***************************************************************************)
(* What the call control promises: the calls a user is in are a stack.  A  *)
(* call dialled or answered goes on top; any call may finish, and then the *)
(* others keep their order; a call that is over never comes back.  The     *)
(* calls on the stack are exactly the ones that are up.                    *)
(***************************************************************************)
EXTENDS Integers, SequencesExt

CONSTANT Calls

VARIABLES
  seen,     \* calls dialled or offered so far
  ringing,  \* calls offered to the user
  up,       \* calls that are up
  stack     \* the calls the user is in, the one talked in last

vars == <<seen, ringing, up, stack>>

Init == seen = {} /\ ringing = {} /\ up = {} /\ stack = <<>>

Offer(c) ==
  /\ c \notin seen
  /\ seen' = seen \cup {c}
  /\ ringing' = ringing \cup {c}
  /\ UNCHANGED <<up, stack>>

\* Calls ring no more: they gave up, or the user declined them.
Silence(D) ==
  /\ D \subseteq ringing
  /\ ringing' = ringing \ D
  /\ UNCHANGED <<seen, up, stack>>

Push(c) ==
  /\ up' = up \cup {c}
  /\ stack' = Append(stack, c)

Dial(c) ==
  /\ c \notin seen
  /\ seen' = seen \cup {c}
  /\ Push(c)
  /\ UNCHANGED ringing

\* Answering one call declines the others.
Answer(c) ==
  /\ c \in ringing
  /\ ringing' = {}
  /\ Push(c)
  /\ UNCHANGED seen

Finish(c) ==
  /\ c \in up
  /\ up' = up \ {c}
  /\ \E i \in DOMAIN stack : stack[i] = c /\ stack' = RemoveAt(stack, i)
  /\ UNCHANGED <<seen, ringing>>

Next ==
  \/ \E c \in Calls : Offer(c) \/ Dial(c) \/ Answer(c) \/ Finish(c)
  \/ \E D \in SUBSET ringing : Silence(D)

Spec == Init /\ [][Next]_vars
=============================================================================
