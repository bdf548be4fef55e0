--------------------------- MODULE MCConversation ---------------------------
(***************************************************************************)
(* Conversation on the kinds of lines the code tells apart: a PING, the    *)
(* user's commands that change which loop reads, another user's message,   *)
(* whose text has a command and the server's ERROR, and the MODE that main *)
(* answers with JOIN, in a line with a word that ends with PING.           *)
(***************************************************************************)
EXTENDS Conversation

FromUser(word) == <<correct_nick, "PRIVMSG", nick, word>>

\* :-con without its last two letters creates the tables.
MCParts == [x \in {":-con", "SHIPPING"} |-> IF x = ":-con" THEN {":-c"} ELSE {"PING"}]

MCLines == {
  <<"PING", ":server">>,
  <<":server", "MODE", "SHIPPING">>,
  <<":other", "PRIVMSG", nick, ":end", "ERROR">>,
  FromUser(":register"),
  FromUser(":-con"),
  FromUser(":exit"),
  FromUser(":call") }
=============================================================================
