------------------------------ MODULE Directory ------------------------------
(***************************************************************************)
(* What a table of the address book promises its user: a directory of      *)
(* names, each with one entry, that only the commands change.              *)
(***************************************************************************)
CONSTANTS Names, Entries

VARIABLE book  \* from the names that have an entry to their entries

TypeOK == \E S \in SUBSET Names : book \in [S -> Entries]

Empty == [m \in {} |-> Entries]

Init == book = Empty

\* A new name gets an entry; a name that has one keeps it.
Add(name, e) ==
  /\ name \in Names \ DOMAIN book
  /\ book' = [m \in DOMAIN book \cup {name} |-> IF m = name THEN e ELSE book[m]]

Change(name, e) ==
  /\ name \in DOMAIN book
  /\ book' = [book EXCEPT ![name] = e]

Remove(name) ==
  /\ name \in DOMAIN book
  /\ book' = [m \in DOMAIN book \ {name} |-> book[m]]

Clear == book' = Empty

Next ==
  \/ \E name \in Names, e \in Entries : Add(name, e) \/ Change(name, e)
  \/ \E name \in Names : Remove(name)
  \/ Clear

Spec == Init /\ [][Next]_book
=============================================================================
