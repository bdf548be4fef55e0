# IRCPhone: specification and verification

IRCPhone is a bot that lets one IRC user make SIP calls.  The user sends
commands as private messages; the bot drives the linphone library and answers
with short messages.  This directory holds TLA+ models of the program's own
logic, the TLC configurations that check them, and proofs checked by TLAPS.
Paths below are relative to `src/src/`.

## 1. The system

| Component | Source | State it keeps | Operations |
|---|---|---|---|
| call control | `irc_bot_main.cpp`, `irc_bot.cpp`, `irc_bot_core.cpp`, `irc_bot_call.cpp` | `callsVector` (active calls), `incomingCallsVector` (calls that rang), `incomingCall`, the notices `incomingCallMessage` and `remoteHungUp`, the number `order`, `outgoingCallee`, the chat room of the current call, one `call_loop` activation per call | callback `call_state_changed`; commands call, accept, decline, hangup, hold, resume, -m; the loops `main` and `call_loop` |
| address book tables | `addr_book.cpp` | two SQLite tables, statements left open, `dbMessage`, the outputs `contactUri`, `regUri`, `passw` | -c, -dropdb, -ic, -ir, -uc, -ur, -rc, -rr, the lookups of call -a, mess -a and register -a; start and end |
| address book browsing | `irc_bot.cpp` (`addr_book_print`, `print`) | page start, page end, page number | next, prev, exit |
| registration | `irc_bot_proxy.cpp`, `irc_bot_main.cpp`, `irc_bot.cpp` (`bot_terminate`, `print_status`) | `proxy_cfg`, credentials, `sipUsername`; the library's list of proxies and its default | register, unregister, end, ERROR, SIGINT |
| IRC input | `irc_bot_main.cpp`, `irc_bot.cpp`, `my_string.cpp` | the words of the last chunk received | PING, ERROR, MODE, recognising a command |
| notices and text messages | `irc_bot_core.cpp` (`text_received`), `irc_bot_message.cpp` | one slot per kind of notice, two chat rooms | showing notices, mess, -m |
| NAT policy | `irc_bot_core.cpp` | the library's NAT policy | -s, -sd |
| ENUM lookup | `addr_book.cpp` (`get_enum_uri`) | none | call -e |
| status and help | `irc_bot.cpp` | none | status, help |
| SIP library, SQLite | external | states of calls, microphone; tables, open statements | callbacks; SQL |

How they interact.  The program has one thread.  The library changes calls and
runs the callbacks only inside `linphone_core_iterate`, which the program calls
once per turn of its main loop, of the innermost `call_loop`, of the browsing
mode and of the waits for the proxy.  The callbacks and the loops share global
vectors and strings, without locks since there is one thread, but with an
interleaving all the same: any number of events between two commands.  The
commands call and accept, typed during a call, start a `call_loop` inside the
running one, so that a stack of loops works on the same vectors.  The tables
outlive the process.

What is hard: events between a notice and the command that answers it; the
nested loops and the variables they share (`call`, `outgoingCallee`, the chat
room); the callback for a failed call, which pops the newest entry of the active
calls without looking; a library that refuses an accept or a decline half-way;
long sequences of address book commands over several runs of the program; index
arithmetic at the first and last page; a byte stream read without looking for the
end of a line; waits for a proxy in which nothing is read; a signal handler that
destroys the core wherever the program is.

What makes each component correct:

- call control: the active calls are the calls that are up; each has a loop that
  drives it; a loop drives its own call; an entry marked as ringing rings; a
  number shown can be used; hangup and failure take the call they mean; the
  loops end when the calls do.
- tables: unique names; each command changes the one entry it names; a restart
  changes nothing.
- browsing: what is shown is a page of the data, and the page the numbers typed lead to.
- registration: status names the identity that is registered, however many
  attempts failed; the core registers with no proxy the program has let go of; a
  wait ends when the proxy answers, whatever it answers; the program unregisters
  before it destroys the core; nothing registers it again after that; CTRL+C ends it
  in any wait; without CTRL+C no command does anything undefined.
- NAT policy: when status says STUN is on, so is ICE, with a server that resolves.
- IRC input: what arrives line by line is answered, PINGs and commands of the user,
  in whichever loop, and nothing else is executed; however the lines are cut, a
  command is executed once and in order, read from one line, and a PONG answers a
  PING, or what a cut left of a longer word.
- text messages: the newest one is never lost, none is shown twice.

## 2. Modules

| Module | What it is |
|---|---|
| `CallControl` | the call control: state, library events, loops, commands, properties |
| `CallStack` | abstract: the calls a user is in are a stack |
| `CallControlProofs` | theorems about `CallControl`: types, numbers, ringing entries, the call a loop works on |
| `CallStackProofs` | theorems about its nested loops |
| `CallStackRefinement` | `CallControl` implements `CallStack` |
| `MCCallControl` | `CallControl` for TLC, with the symmetry of calls |
| `AddrBook` | the two tables and the commands on them |
| `Directory` | abstract: a directory of names |
| `AddrBookProofs` | theorems about `AddrBook`, and that it implements `Directory` |
| `MCAddrBook` | `AddrBook` for TLC |
| `Browser` | the browsing mode |
| `Pager` | abstract: rows in pages of five, turned as many at a time as asked |
| `BrowserProofs` | theorems about `Browser`, and that it implements `Pager` |
| `MCBrowser` | `Browser` for TLC |
| `Registration` | registering at a proxy, its waits, and the end of the program |
| `Account` | abstract: an identity asked for, registered, withdrawn |
| `NatPolicy` | -s and -sd |
| `Settings` | `Registration` and `NatPolicy` together, as main runs them |
| `SettingsProofs` | theorems about `Settings`, and that it implements `Account` |
| `MCSettings` | `Settings` for TLC |
| `IrcInput` | the bytes of the server, and the words and commands made of them |
| `Conversation` | `IrcInput` with the text messages and the loops' turns |
| `ConversationProofs` | the theorem about the text messages |
| `InputProofs` | theorems about `IrcInput`, and the types of `Conversation` |
| `MCConversation` | `Conversation` for TLC, with the lines the code tells apart |

`CallControl` INSTANCEs `CallStack` (property `RefinesCallStack`); `AddrBook`
INSTANCEs `Directory` once per table (`ContactsAreDirectory`,
`IdentitiesAreDirectory`), `Browser` INSTANCEs `Pager` (`RefinesPager`) and
`Registration` INSTANCEs `Account` (`RefinesAccount`).  Operators named `...Mutant` (and `RestoredFromGlobal`,
`UpdatedSwapped`) are wrong versions of the operator that follows; no action uses
them.  They show that the properties notice such a mistake, and `PROJECT.json`
says which one notices which.

### CallControl

The variables have the names of the source.  `callState` is what
`linphone_call_get_state` returns, under the names the source compares with.  The
program is compiled with a header that has one state more than the library it
runs on (the comment at `irc_bot_core.cpp:49`, "Some of the states are off
sometimes"), so the names are shifted; the module's head lists what they mean.
`frames` is the C++ stack of `call_loop` activations: the variable `call` (passed
by reference, so that accept and hangup overwrite it), the loop's copy `auxCall`,
its flags.  `pc` says where the innermost loop is.

| Actions | Code |
|---|---|
| `IncomingReceived`, `RemoteEnds`, `Failed`, `Moved` | `call_state_changed`, inside `iterate` |
| `MainTurn` | one turn of `main` up to `recv` |
| `CallTurn`, `CouldNotCall`, `Lookup`, `Return` | `call_loop`: turn, the break on a failed call, the search in `callsVector`, leaving |
| `Call`, `Accept`, `AcceptRefused`, `AcceptNoNumber`, `Decline`, `Hangup`, `Hold`, `Resume` | the commands |
| `NoCommand` | nothing was received, or a command that leaves the calls alone |
| `Browse`, `Register`, `LeaveLoop` | loops that iterate the library and show no notices |
| `End` | end, and ERROR from the server |

Two constants describe the library.  `OneSetupAtATime`: it refuses to dial, accept
or resume while another call is being set up.  `MayRefuse`: accept and decline may
fail at any time.  The runs use both values.  Undefined behaviour is a choice of
outcomes: `accept 0` reads the element before the first one, `hangup` reads
`back()` of an empty vector.

### AddrBook

A table is a set of rows; the ID is any one not in use, as SQLite gives it.
`leaked` is the statement `addr_book_check` leaves open when it finds a row
(`addr_book.cpp:80`) and `addr_book_create` when the tables exist (`:111`); SQLite
refuses to drop a table while one is open.  `Close` and `Killed` end the process,
`Start` is `main` up to the creation of the tables.  A SELECT on a dropped table
makes the code build a `string` from a null pointer, which ends the program
(`NoTable`).  Names and values are text without quotes; a wildcard search only
reads.

### Browser

The state is that of `addr_book_print`: the first row `n`, the end `x`, the page
number `pact`.  The arithmetic wraps at `IntMax` as two's complement does; with
32-bit ints, next with a number of 429496730 or more makes the start negative, `at`
throws and nothing catches it (outcome "crashed").

### Registration, NatPolicy, Settings

`proxy_cfg` is the config the program holds, `proxies` and `defaultProxy` are the
library's; `regState` is `linphone_proxy_config_get_state` of each config.  A
config is created by each register and never used for a second one, so that
`Configs` bounds the number of registers.

| Actions | Code |
|---|---|
| `Register`, `RegisterInvalid` | main, register with `set_credentials` and `bot_register`: a valid identity, and one that does not parse |
| `RegisterTurn`, `UnregisterTurn`, `EndTurn` | one turn of the three waits |
| `Unregister` | main, unregister with `bot_unregister` |
| `End`, `CtrlC` | end and ERROR, and the handler `stop`: `bot_terminate` |
| `Quit` | the farewell and exit |
| `Refresh` | the library, while main or a call loop runs: refreshes, fails, tries again |
| `Dies` | a command that ends the program by undefined behaviour, such as `-s x -t` |
| `SetStun`, `SetTurn`, `DisableNat` | -s, -s -t, -sd |

`CtrlC` may come in every state, and its handler never returns to what it
interrupted.  Either `bot_terminate` runs on what it finds, or the behaviour is
undefined (outcome "crashed"; the program may stop, hang or go on): the signal can
hit `linphone_core_iterate`, `bot_register`, `malloc` or SQLite, which the handler
then enters again or whose core and database it destroys under way
(`irc_bot_main.cpp:32`, installed at `:45`), or a program that ends already.  A signal
within a step leaves what the step leaves before or after it, or is undefined.
`bot_unregister` takes the default proxy of the core; there is none once a first
unregistration has cleared the list, and editing a null config is undefined too.

The NAT policy is the object the core uses, so a setting works at once.  Whether a
name resolves is a choice.  `Settings` composes both: -s and -sd are read by main
and call no other code of the registration, so they interleave with everything main
does between two commands and with nothing of the waits.

### IrcInput and Conversation

`sent` is all the server sent, a sequence of words and ends of lines; `read` says
how much of it `recv` has returned, and `torn` how often it stopped inside the word
or the end of line that is next.  `Receive` returns any chunk.  The words of a chunk
are what trimming two characters and splitting at spaces leave.  An end of line
within a chunk glues two words to one no command knows (`Glued`, `Junk`).  The first
word of a chunk may be an end or a middle of one, and the last word loses what is
trimmed (`Spoilt`): such a word is any of its parts (`PartsOf`), one that the code does
not know or one of those the constant `Parts` names.  So `:-con` at the end of a chunk
can be `:-c`, which is another command, and the end of a torn `SHIPPING` can be `PING`.
Then the code looks for MODE (main), ERROR (main), PING, and for PRIVMSG from the
user to the bot, in this order, in each of the three loops.  A command is followed
only as far as it changes which loop reads; the command's own effects are in the
other modules.

Words that are not there (`Overreads`): after a PING the vector is cleared and its
second element is compared all the same, and a short PRIVMSG has no fourth word.
The outcome is a choice: nothing, a crash, or a command still found in that memory.

`Conversation` adds the one string for a received text, which `text_received`
overwrites inside iterate, and which main and `call_loop` show once per turn, while
browsing and the waits for the proxy iterate and show nothing.

## 3. What TLC checks

| Run | Instance | Question | Answer |
|---|---|---|---|
| `one_setup` | 3 calls, `OneSetupAtATime`, `MayRefuse` | do vectors, loops and library agree in every interleaving, is `callsVector` a stack, and does every step without a live call lead out of the loops? | holds |
| `free_setup` | 3 calls, neither | can every ringing call be accepted or declined, and does each loop work on its own call? | holds |
| `loops_unwind` | 2 calls, both, fair | do the loops end once no call is live? | holds |
| `lost_ring` | 2 calls, `OneSetupAtATime` | the same as `free_setup` when an accept may be refused | violated |
| `message` | 2 calls | does -m reach the peer of the current call? | violated |
| `number` | 2 calls | does the number shown with a call name it? | violated |
| `mic` | 2 calls | does a new call have its microphone? | violated |
| `tables` | 2 names, 2 IDs, 1 URI, 1 password per table | do the tables stay directories with unique names? | holds |
| `drop` | 1 name, 1 ID | can the tables always be dropped? | violated |
| `pages` | results of 1 to 26 rows, steps of 0 to 7 | is what is shown a page of the data, and the one asked for? | holds |
| `settings` | 3 configs, a valid and an invalid identity, 2 servers, 1 TURN user, fair | does status tell the truth, do waits end, does the end unregister, does CTRL+C end the program, is all defined without it, is what is registered what was asked for? | holds |
| `conversation` | 2 lines out of 7 kinds, 2 words with parts, 2 texts, fair | is what is executed read from one line, once and in order, is what came in whole lines answered, does a PONG answer something, and are texts shown? | holds |

Bounds.  A call object is used once, so the number of calls bounds the length of a
behaviour: with three there is a call under another one, under a third, a dialled,
an accepted and a ringing call at once, and two calls to choose from when one is
declined.  With two names and two rows a table can hold two rows of one name if
the checks fail to prevent it.  26 rows are five pages and a partial one, and every
remainder of five; seven pages exceed them from either end.  Three configs are two
registers that fail, at once or later, and one that works, or the other way round;
two servers are one that resolved and one that did not.  Two lines of up to five words
can be cut at any word, inside any word (once, `MaxTears`) and inside the end of line,
received as one, and read by any two loops one after the other: a line that starts a
call, a wait or the browsing mode and one that is read there.  One line has a word that
ends with PING, one a command that the trim makes another one, one a MODE, which main
answers with JOIN, and one a text with ERROR; the proofs have any words and parts.  Two texts are one that overwrites the
other, or one before and one after a turn.

Fairness.  `loops_unwind` assumes weak fairness of the program's own steps:
`linphone_core_iterate` returns and `recv` gives up after 5 ms
(`irc_bot_main.cpp:95`).  Nothing is assumed of the library's events, of the user's
commands, nor of leaving the browsing mode.  `settings` assumes that a wait sees its
registration answered again and again (linphone gives every REGISTER an answer or a
timeout, and the wait does nothing but iterate) and that the program, once the core
is gone, gets to its exit; `WaitsEnd` is still more than that assumption, since a
refused registration is tried again for ever and the wait has to stop at the
refusal.  `conversation` assumes that a turn that could read is taken (`recv` returns
what is there; written as infinitely often nothing to read or something read, which
is weak fairness of `Turn`, since a turn always can be taken then and always reads on
or stops within a word, at most `MaxTears` times), that a turn with a text waiting is taken, and that the proxy answers
a wait.  Nothing is assumed of the server, the user, the peers, or of calls ending.

What the violations show is told in `PROJECT.json`, "findings": an accept the
library refuses loses the call (`irc_bot.cpp:753`); the chat room stays with the
inner call (`:589`); one notice for two calls (`irc_bot_core.cpp:57`); a microphone
muted for all calls (`irc_bot.cpp:513`); a -dropdb that never works on a database
found at start (`addr_book.cpp:80`).

Other limits of the code are part of the models, without a run of their own:

- when set-ups may overlap, a failed call can pop another call's entry
  (`irc_bot_core.cpp:81`): `NoOrphanCall`, `FailurePopsItself` and the refinement
  are checked with `OneSetupAtATime` and fail without it; `LoopsUnwind` fails
  without it too, with three calls;
- in the turn after the innermost call ended, hangup takes the call below
  (`irc_bot.cpp:496`): `HangupEndsOwnCall` therefore asks that the loop's own call
  is live;
- `accept 0` and `accept x`, hangup with no active call, and any command on a
  dropped table can end the program;
- the page number printed can be one less than the page's (`irc_bot.cpp:949`):
  `LabelOffByAtMostOne` says that it never gets worse;
- with a multiple of five rows, next on the last page shows an empty page
  (`irc_bot.cpp:841`): `ShowsOnePage` allows a page that starts at the end;
- a number typed after next can overflow (`irc_bot.cpp:919`) and end the program;
- CTRL+C can be undefined wherever it comes, since the handler does much more than a
  signal handler may (`irc_bot_main.cpp:32`), and it certainly is while unregister waits
  with the registration still up (`irc_bot_proxy.cpp:73`).  The properties say what holds
  when it hits none of that, and `UnregisterFindsProxy` that nothing else is undefined
  here; a hang of an interrupted library call counts as undefined for `CtrlCEnds`;
- during a refresh the registration is not "Ok": register starts a second one and
  unregister says "Not registered!" (`irc_bot_main.cpp:342`, `:417`), and the end does
  not unregister; the properties speak of the state the library reports;
- TURN stays on, with its user, when -s names another server (`irc_bot_core.cpp:153`),
  and -sd switches IPv6 off, which was on at start (`:132`, `:228`);
- of several lines received at once at most the first command is executed and the
  rest is dropped (`irc_bot_main.cpp:176`), so that a command may stay without an
  answer: `WholeLinesAnswered` and `PingsAnswered` ask for one line per chunk;
- the last two characters of what `recv` returned are dropped whether they end a line
  or not (`irc_bot_main.cpp:176`), so that a command or the sender's name can be read as
  a shorter one, and what `recv` left of a word may be PING, ERROR or MODE:
  `CommandsOnceInOrder` and `PongsAnswerPings` promise no more than that, and what was
  sent only for one line per chunk;
- PING in the text of a message, or a message without text, makes the bot act on
  memory it does not own (`irc_bot_main.cpp:205`); ERROR in a text ends it (`:186`),
  and during a call ERROR is not looked for;
- a text that comes in while another waits replaces it (`irc_bot_core.cpp:126`):
  `NewestTextKept` promises the newest only.

## 4. What is proved

TLC looks at three calls, two names, 26 rows; the theorems hold for any number.

`CallControlProofs`, for any set of calls, any `Null` that is not a call and both
values of the flags (assumptions `NullIsNoCall`, `Flags`):

- `TypeCorrect`: `Spec => []TypeOK`.  `TypeOK` is not inductive: the actions at
  "lookup" and "return" use the top frame, so the invariant is
  `TypeInv == TypeOK /\ LoopRuns`, where `LoopRuns` says that a loop runs there.
  The lemmas before it give the type of each helper on sequences.
- `NumbersStayInRange`: `Spec => []NumberInRange`.  The inductive invariant adds
  that no notice waits while a command is read, since accept and decline set
  `order` to 0 and empty the list at that point and leave the notice alone.
- `RingingMarksAreTrue`: `Spec => []RingingEntriesRing`, inductive on top of
  `TypeInv`.  Two lemma steps carry it: a step that leaves the list and the ringing
  calls alone, and a step that ends calls and silences exactly their entries.
- `RingingCallsAreListed`: its converse, `Spec => []RingingListed`, for a library that
  never refuses (`~MayRefuse`, `~OneSetupAtATime`; `lost_ring` shows that it fails
  otherwise).  The same steps, and one more: accept and decline forget the list only
  when they have ended every ringing call in it.

- `LoopsDriveTheirCalls`: `Spec => []LoopDrivesOwnCall`, inductive on top of `TypeInv`
  and without a condition on the library: accept and hangup overwrite the `call` of the
  outer loop only on the way to its lookup, which restores it (`Restored`) or leaves
  the loop, and a new loop begins with its own call (`NewLoopDrives`).

`CallStackProofs`, for any set of calls and both values of `MayRefuse`, if
`OneSetupAtATime` (without it the properties are false, see above):

- `HangupEndsTheCallTalkedIn`, `NoCallIsOrphaned`, `FailurePopsTheFailed`.  None of the
  three is inductive.  They follow from one
  invariant, `StackInv`: the active calls are live (`ActiveLive`); every live call
  is active and has a loop (`LiveHeld`); the active calls stand in the order of
  their loops (`SameOrder`), which also makes them distinct and puts the top loop's
  call last; a loop's call is never idle or ringing again (`LoopsStarted`), so it
  cannot be pushed twice; a dialled call is last (`DialledIsLast`); a loop is left
  only when its call is over (`LeftWhenOver`), so that the vector main clears is
  empty already.  Every action is one of four changes (nothing noticed, a call
  leaves, a call enters, a loop is left), each a lemma.  The marks of the ringing
  entries are needed too: accept and decline end the calls they find there.

- `NoTurnForADeadCall` (`TurnsOnlyWhileLive`) and `LoopsShrink` (`NestedLoopsShrink`),
  action properties, from the same invariant.  What lookup finds in the active calls is
  live (`FoundIsLive`), a loop that a command enters has a live call (`EnteredIsLive`),
  and a loop without a live call can only be left.  So while no call is live each step
  of the program lowers `StepsLeft`, five for each loop and one for each place in a
  turn.  That is the safety half of `LoopsUnwind`; that the steps are taken is
  fairness, and stays with TLC.

`CallStackRefinement`, under the same condition:

- `ImplementsCallStack`: `Spec => RefinesCallStack`.  A call ending or failing is
  `Finish`, since the element erased or popped is that call by the invariant; call
  and accept are `Dial` and `Answer`; a call that comes in is `Offer`; the other
  steps silence some ringing calls or none.

`AddrBookProofs`, for any names, values and row IDs (assumption `ValuesApart`):

- `TypeCorrect`; `NamesStayUnique`, inductive on top of the types;
- `DashIsNeverStored`, an action property: no update replaces a stored value of an
  identity by "-".  It needs unique names, or an update could be seen as another
  row's; that the other rows stay is part of `IdentitiesRefine`;
- `ContactsRefine`, `IdentitiesRefine`: each table implements `Directory`.  The
  lemmas `AddsEntry`, `RemovesEntry`, `ChangesEntry` say what a change of one row
  does to the book when names are unique.

`BrowserProofs`, for any number of rows and any numbers typed, if no product
overflows (`Fits`; otherwise the program can crash):

- `IndicesStayNatural`, `PagesAreShown`, `LabelStaysClose`: all from `PageInv`, the
  conjunction of the last two with the type of the size and of `pc`.  The first says
  that nothing becomes negative, the second that no index makes `at` throw.
- `BrowsingPages`: `Spec => RefinesPager`, under the same condition.  The page shown is
  `n \div 5`; `n` is a multiple of five by `PageInv`, and the corrections at both ends
  of the data, made on indices, are those of the abstract pager, made on pages
  (`PageAhead`, `PageBehind`).

`SettingsProofs`, for any configs, identities, servers and users (assumptions
`NullIsNoUser`, `ValidUsers`, `NoNameIsNoServer`):

- `TypeCorrect`, `StatusIsTrue`, `CoreHasOwnProxy`, `UnregisteredAtEnd` and the action
  property `CommandsAreDefined` (`UnregisterFindsProxy`) follow from one invariant,
  `RegInv`.  None is
  inductive by itself: that the name shown is the registered one needs
  that a config in the list carries the name shown (`ListedIsNamed`), since any of its
  later states may be "Ok"; this needs that the list holds at most the program's own
  config, and that register clears the list before it can fail; that the list is empty
  while unregister or the end waits is what makes the state the wait reads final.
- `RegisteringIsAnAccount`: `SettingsSpec => RefinesAccount`, from `AccountInv`: `RegInv`
  and that there is no default proxy while unregister or the end waits
  (`NoDefaultLeft`), or a CTRL+C there could unregister a second time.  The hard cases
  are the library's steps in the background: a config that becomes registered is the
  program's and carries the name asked for last; one that was taken out of the list can
  only lose its registration (`LeavingLoses`).
- `PolicyTyped`, `StunIsUsable`: from `NatInv`, their conjunction.

`ConversationProofs`, for any lines, cuts and number of texts:

- `NewestIsKept`: `Spec => []NewestTextKept`, from `TextInv`, which adds the types of
  the slot and of what was shown.  The proof does not look at the input at all: no
  way of reading can lose a text.

`InputProofs`, for any lines of at least two words (assumption `LinesHaveWords`), any
number of them, any words known among the parts of others (`PartsAreWords`) and any
cuts:

- `CommandsAreExecutedOnce`, `WholeLinesAreAnswered`, `ConversationTypes`.  The
  inductive invariant is `InputInv`.  To the types it adds that what was sent are
  complete lines, none empty (`CompleteLines`); that a command executed began at or
  before what was read (`Executed`), so that the next one comes after it; and that
  after whole lines the next chunk begins with a line (`BetweenLines`).
- The split has no recursion: the k-th word is the k-th member of the set of places
  where one starts (`Nth`).  `NthType`, `NthLeast` and `NthFirst` say which member that
  is, by counting.  From them `CommandWords`: if the first four words of a chunk are a
  command, it begins with four words of which the second and third came whole, and the
  first and fourth are parts of what was sent; and `LineWords`: a chunk that is one line
  has its words.
- `CommandsOnceInOrder` and `WholeLinesAnswered` assume `~overread`.  What the code does
  with a word that is not there is a choice of the model, and neither run nor proof says
  anything of commands after it.
- `PongsAreEarned`: `Spec => []PongsAnswerPings`, without that condition, inductive on
  top of `InputInv`.  A PING found by the code is one that was cut nowhere, or a part
  of a word cut by this chunk (`PingReceived`), a chunk is answered with at most one PONG (`HandleEarns`), and the
  PINGs answered before lie in earlier chunks (`PongAdds`).

Every invariant, action property and refinement that a passing run checks is proved,
some under the conditions above.
Only model-checked are the liveness properties (`LoopsUnwind`, `WaitsEnd`, `CtrlCEnds`,
`PingsAnswered`, `TextsShown`): they need fairness and ENABLED, which are out of the
prover's reach.

## 5. Not modelled

- ENUM lookup (`get_enum_uri`): builds a host name, asks the resolver with
  `res_search` (`addr_book.cpp:568`) and parses the answer; it changes no state of the bot.
- help, and the wording of every message; of status, only what it says of the
  registration and of STUN.
- mess: sends a text to an address through a chat room of its own; no state is kept.
- SQL text, quoting, wildcards in searches (they only read).
- Creating the core and connecting to the server: once, before any command; each
  failure ends the program.
- The speaker mute of a single call and reference counts of calls.
- Build files, packages and the test scenarios have no behaviour; `test.py` was read
  for what it expects.

## 6. Plan

Done: all modules above and the theorems about them.  What could follow is one
composition of `Conversation` and `CallControl`, so that the reading loop is the real
stack of call loops instead of the single mode "call".
