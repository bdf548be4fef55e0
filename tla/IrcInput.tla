------------------------------ MODULE IrcInput ------------------------------
(***************************************************************************)
(* How the bot reads the server's lines.  Three loops read: main, a        *)
(* call_loop (check_messages_during_call) and the browsing mode            *)
(* (addr_book_print).  Each takes whatever recv returns, drops the last    *)
(* two characters, splits the rest at spaces and looks for words.  None    *)
(* keeps the rest of a line, or looks for the end of one.                  *)
(*                                                                         *)
(* A line is its words; how long the words are does not matter, save that  *)
(* a chunk can end anywhere, inside a word and inside the end of a line as *)
(* well.  What was sent is never forgotten: "read" says how much of it     *)
(* recv has returned.                                                      *)
(***************************************************************************)
EXTENDS Naturals, SequencesExt

CONSTANTS
  Lines,     \* the lines the server may send, as sequences of words
  MaxLines,  \* bound on their number
  MaxTears,  \* bound on how often recv may stop within the same word
  Parts      \* of some words, the words the code knows among their parts

EOL == "\r\n"

ASSUME LinesHaveWords ==
  \A l \in Lines : l \in Seq(STRING) /\ Len(l) >= 2 /\ \A i \in DOMAIN l : l[i] # EOL
ASSUME SomeLines == MaxLines \in Nat /\ MaxTears \in Nat
ASSUME PartsAreWords == \A x \in DOMAIN Parts : Parts[x] \subseteq STRING

\* The user and the bot, as they stand in the lines.
correct_nick == ":user"
nick         == "bot"

\* A word that is none of those the code looks for: two words around an end of
\* line, or most of what trimming and cutting leave of one.
Junk == "junk"

\* What a beginning, a middle or an end of x can be to the code.
PartsOf(x) == {Junk} \cup (IF x \in DOMAIN Parts THEN Parts[x] ELSE {})

Vocabulary ==
  (UNION {ToSet(l) : l \in Lines}) \cup (UNION {Parts[x] : x \in DOMAIN Parts})
    \cup {EOL, Junk, "#channel"}

VARIABLES
  sent,      \* all words and ends of lines sent by the server
  read,      \* how many of them recv returned completely
  torn,      \* how often recv stopped within the next one
  mode,      \* main, call: the loop running; wait: register or unregister
             \* waits for the proxy; ended; crashed
  browsing,  \* that loop called addr_book_print
  replies,   \* what the bot answered, and to which chunk
  overread,  \* a word past the end of the vector was used
  aligned    \* so far each chunk was one line

inputVars == <<sent, read, torn, mode, browsing, replies, overread, aligned>>

Reader == IF browsing THEN "browse" ELSE mode

Alive == mode \notin {"ended", "crashed"}

LineCount == Cardinality({i \in DOMAIN sent : sent[i] = EOL})

InputInit ==
  /\ sent = <<>> /\ read = 0 /\ torn = 0
  /\ mode = "main" /\ browsing = FALSE
  /\ replies = <<>>
  /\ overread = FALSE /\ aligned = TRUE

\* The server sends a line.
Send(l) ==
  /\ Alive /\ LineCount < MaxLines
  /\ sent' = sent \o l \o <<EOL>>
  /\ UNCHANGED <<read, torn, mode, browsing, replies, overread, aligned>>

-----------------------------------------------------------------------------
(* From the bytes to words                                                 *)

\* recv returns n pieces and, if cut, the beginning of another one.
Chunk(n, cut) == SubSeq(sent, read + 1, read + n + (IF cut THEN 1 ELSE 0))

\* The chunk ends with the end of a line, which is what gets trimmed.
Whole(s, cut) == ~cut /\ Last(s) = EOL /\ ~(torn > 0 /\ Len(s) = 1)

Trimmed(s, cut) == IF Whole(s, cut) THEN Front(s) ELSE s

\* split: the first pieces of the words.  An end of line is no space, so that
\* the words around it are one.
StartsWord(b, i) == b[i] # EOL /\ (i <= 2 \/ b[i - 1] # EOL)

\* The words around an end of line are one, unless all that came of that end of
\* line was trimmed.
Glued(cut, b, i) ==
  \/ i > 1 /\ b[i - 1] = EOL
  \/ i < Len(b) /\ b[i + 1] = EOL /\ ~(cut /\ i + 1 = Len(b))

\* Of the first word an earlier recv may have returned the beginning; the last
\* one loses what is trimmed, unless that is an end of line.
Spoilt(s, cut, b, i) ==
  /\ StartsWord(b, i) /\ ~Glued(cut, b, i)
  /\ \/ i = 1 /\ torn > 0
     \/ i = Len(b) /\ ~Whole(s, cut)
     \/ i = Len(b) - 1 /\ b[Len(b)] = EOL

\* What may be left of the spoilt words.
Remains(s, cut, b) ==
  LET S == {i \in DOMAIN b : Spoilt(s, cut, b, i)} IN
  {left \in [S -> UNION {PartsOf(b[i]) : i \in S}] : \A i \in S : left[i] \in PartsOf(b[i])}

WordAtMutant(cut, b, left, i) == b[i]
WordAt(cut, b, left, i) ==
  IF Glued(cut, b, i) THEN Junk ELSE IF i \in DOMAIN left THEN left[i] ELSE b[i]

\* The k-th member of S, from the least on.
Nth(S, k) == CHOOSE i \in S : Cardinality({j \in S : j < i}) = k - 1

split(s, cut, left) ==
  LET b      == Trimmed(s, cut)
      starts == {i \in DOMAIN b : StartsWord(b, i)}
  IN  [k \in 1..Cardinality(starts) |-> WordAt(cut, b, left, Nth(starts, k))]

\* The words the loop sees.  Trimming two characters of a word can leave
\* nothing of it.
Words(s, cut) ==
  UNION {LET w == split(s, cut, left) IN
         {SubSeq(w, 1, m) : m \in {Len(w)} \cup (IF Whole(s, cut) THEN {} ELSE {Len(w) - 1})}
         : left \in Remains(s, cut, Trimmed(s, cut))}

\* length() - 2 wraps around and resize throws for a single byte, such as one
\* half of an end of line.
MayThrow(s, cut)  == Len(s) = 1 /\ ~Whole(s, cut)
MustThrow(s, cut) == MayThrow(s, cut) /\ s[1] = EOL

-----------------------------------------------------------------------------
(* What the loops do with the words                                        *)

Has(w, word) == \E i \in DOMAIN w : w[i] = word

\* Where main and the other loops can be after a command: one that is refused
\* changes nothing, and so does one that this loop does not know.
Effects(command, r) ==
  {<<mode, browsing>>} \cup
  CASE command = ":end" /\ r = "main"        -> {<<"ended", FALSE>>}
    [] command = ":register" /\ r = "main"   -> {<<"wait", FALSE>>}
    [] command = ":call" /\ r # "browse"     -> {<<"call", FALSE>>}
    [] command = ":-con" /\ r # "browse"     -> {<<mode, TRUE>>}
    [] command = ":exit" /\ r = "browse"     -> {<<mode, FALSE>>}
    [] OTHER                                 -> {}

Commands == {":end", ":register", ":call", ":-con", ":exit"}

\* end and exit are never refused.
Outcomes(command, r) ==
  IF (command = ":end" /\ r = "main") \/ (command = ":exit" /\ r = "browse")
  THEN Effects(command, r) \ {<<mode, browsing>>}
  ELSE Effects(command, r)

UnderstoodMutant(w) == Len(w) >= 4 /\ w[2] = "PRIVMSG" /\ w[3] = nick
\* A private message of the user to the bot.
Understood(w) ==
  Len(w) >= 4 /\ w[1] = correct_nick /\ w[2] = "PRIVMSG" /\ w[3] = nick

\* The code compares words without looking at their number.  After a PING the
\* vector is cleared; the word it then compares is still in memory and is not
\* PRIVMSG, unless PING was a word of a message.  What follows depends on that
\* memory, which may hold an older command of the user; the first word, where
\* there is one, is checked in any case.
Overreads(w) ==
  \/ Len(w) < 2
  \/ /\ Len(w) >= 2 /\ Has(w, "PING")
     /\ w[2] = "PRIVMSG" \/ Last(w) = "PING"
  \/ /\ Len(w) \in {2, 3} /\ w[1] = correct_nick /\ w[2] = "PRIVMSG"
     /\ Len(w) = 3 => w[3] = nick

Reply(kind, arg) == <<[at |-> read + 1, kind |-> kind, arg |-> arg]>>

JoinReply(w, r) ==
  IF r = "main" /\ Has(w, "MODE") THEN Reply("JOIN", "#channel") ELSE <<>>

PingsMutant(r) == r = "main"
\* The loops that answer a PING.
Pings(r) == TRUE

\* PONG with the word after the first PING.
PongReply(w, r) ==
  IF Pings(r) /\ Has(w, "PING")
  THEN LET i == CHOOSE i \in DOMAIN w : w[i] = "PING" /\ \A j \in 1..(i - 1) : w[j] # "PING"
       IN  Reply("PONG", IF i < Len(w) THEN w[i + 1] ELSE Junk)
  ELSE <<>>

Terminates(w, r) == r = "main" /\ Has(w, "ERROR")

Becomes(outcome) == mode' = outcome[1] /\ browsing' = outcome[2]

\* One chunk, whatever loop receives it.
Handle(w, r) ==
  LET answered == replies \o JoinReply(w, r) \o PongReply(w, r) IN
  \/ /\ Terminates(w, r)
     /\ mode' = "ended" /\ browsing' = FALSE
     /\ replies' = replies \o JoinReply(w, r)
     /\ UNCHANGED overread
  \/ /\ ~Terminates(w, r) /\ Overreads(w)
     /\ \/ UNCHANGED <<mode, browsing>>
        \/ mode' = "crashed" /\ UNCHANGED browsing
        \/ /\ w # <<>> => w[1] = correct_nick
           /\ \E c \in Commands : \E o \in Outcomes(c, r) : Becomes(o)
     /\ replies' = answered
     /\ overread' = TRUE
  \/ /\ ~Terminates(w, r) /\ ~Overreads(w)
     /\ Understood(w) /\ ~Has(w, "PING")
     /\ \E o \in Outcomes(w[4], r) : Becomes(o)
     /\ replies' = answered \o Reply("command", w[4])
     /\ UNCHANGED overread
  \/ /\ ~Terminates(w, r) /\ ~Overreads(w)
     /\ ~Understood(w) \/ Has(w, "PING")
     /\ replies' = answered
     /\ UNCHANGED <<mode, browsing, overread>>

Throw == mode' = "crashed" /\ UNCHANGED <<browsing, replies, overread>>

Tears(n, cut) == IF ~cut THEN 0 ELSE IF n = 0 THEN torn + 1 ELSE 1

\* One line, all of it and nothing else.
OneLine(s, cut) ==
  torn = 0 /\ Whole(s, cut) /\ \A i \in 1..(Len(s) - 1) : s[i] # EOL

Receive ==
  /\ mode \in {"main", "call"}
  /\ \E n \in 0..(Len(sent) - read), cut \in BOOLEAN :
       /\ IF cut THEN n < Len(sent) - read ELSE n > 0
       /\ read' = read + n
       /\ torn' = Tears(n, cut) /\ torn' <= MaxTears
       /\ LET s == Chunk(n, cut) IN
            /\ s = <<EOL>> => torn' <= 1  \* its second half is all that is left
            /\ aligned' = (aligned /\ OneLine(s, cut))
            /\ \/ MayThrow(s, cut) /\ Throw
               \/ ~MustThrow(s, cut) /\ \E w \in Words(s, cut) : Handle(w, Reader)
  /\ UNCHANGED sent

\* The last call is over and main reads again.
CallEnds ==
  /\ mode = "call" /\ ~browsing
  /\ mode' = "main"
  /\ UNCHANGED <<sent, read, torn, browsing, replies, overread, aligned>>

\* The proxy answered.
WaitOver ==
  /\ mode = "wait"
  /\ mode' = "main"
  /\ UNCHANGED <<sent, read, torn, browsing, replies, overread, aligned>>

InputNext == (\E l \in Lines : Send(l)) \/ Receive \/ CallEnds \/ WaitOver

InputSpec == InputInit /\ [][InputNext]_inputVars

-----------------------------------------------------------------------------
(* Properties                                                              *)

LineStarts == {p \in DOMAIN sent : sent[p] # EOL /\ (p > 1 => sent[p - 1] = EOL)}

\* A command to the bot as the user sends it, at the beginning of a line.
UserCommand(p) ==
  /\ p \in LineStarts /\ p + 3 \in DOMAIN sent
  /\ sent[p] = correct_nick /\ sent[p + 1] = "PRIVMSG" /\ sent[p + 2] = nick
  /\ sent[p + 3] # EOL

\* Four words of one line of which the bot can have read this command.
ReadAs(x, word) == x # EOL /\ word \in {x} \cup PartsOf(x)

CommandRead(p, command) ==
  /\ p \in DOMAIN sent /\ p + 3 \in DOMAIN sent
  /\ ReadAs(sent[p], correct_nick) /\ sent[p + 1] = "PRIVMSG" /\ sent[p + 2] = nick
  /\ ReadAs(sent[p + 3], command)

Answered(p, kind, arg) ==
  \E i \in DOMAIN replies : replies[i] = [at |-> p, kind |-> kind, arg |-> arg]

InputTypeOK ==
  /\ sent \in Seq(Vocabulary)
  /\ read \in 0..Len(sent) /\ torn \in 0..MaxTears
  /\ torn > 0 => read < Len(sent)
  /\ mode \in {"main", "call", "wait", "ended", "crashed"} /\ browsing \in BOOLEAN
  /\ replies \in Seq([at : Nat, kind : {"JOIN", "PONG", "command"}, arg : Vocabulary])
  /\ overread \in BOOLEAN /\ aligned \in BOOLEAN

\* Unless the code used a word that is not there: what it executes was read from
\* four words sent in a row in one line, each line's once and in the order sent.
\* The two in the middle came whole; of the name and of the command recv's cuts
\* and the trim may have left another word.  As long as every recv returned one
\* line they leave none: the user sent this command.
CommandsOnceInOrder ==
  ~overread =>
    /\ \A i \in DOMAIN replies : replies[i].kind = "command" =>
         /\ CommandRead(replies[i].at, replies[i].arg)
         /\ aligned => /\ UserCommand(replies[i].at)
                       /\ replies[i].arg = sent[replies[i].at + 3]
    /\ \A i, j \in DOMAIN replies : i < j /\ replies[i].kind = "command"
                                          /\ replies[j].kind = "command" =>
         replies[i].at < replies[j].at

\* As long as every recv returns one line, which is what the code is written
\* for, each PING has its PONG, with the right word, and each command of the
\* user was executed, in whichever loop it was read.  (A PING or ERROR in the
\* text of a message counts as a use of a missing word, or as the end.)
WholeLinesAnswered ==
  aligned /\ ~overread /\ Alive =>
    \A p \in LineStarts : p <= read =>
      /\ sent[p] = "PING" => Answered(p, "PONG", sent[p + 1])
      /\ UserCommand(p) => Answered(p, "command", sent[p + 3])

\* Whatever was read past the end of the words, a PONG answers a word of the
\* chunk it was read with: a PING that came whole, which is answered once, or a
\* longer word of which a cut left PING.  As long as every recv returned one
\* line it is a PING.
PongsAnswerPings ==
  \A i \in DOMAIN replies : replies[i].kind = "PONG" =>
    \E p \in DOMAIN sent \cap (replies[i].at..(read + 1)) :
      \/ /\ p <= read /\ sent[p] = "PING"
         /\ \A j \in DOMAIN replies : i < j /\ replies[j].kind = "PONG" => p < replies[j].at
      \/ /\ ~aligned /\ "PING" \in PartsOf(sent[p])
         /\ \A j \in DOMAIN replies : i < j /\ replies[j].kind = "PONG" => p <= replies[j].at
=============================================================================
