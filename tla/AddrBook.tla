------------------------------ MODULE AddrBook ------------------------------
(***************************************************************************)
(* The address book of addr_book.cpp: the two tables of an SQLite file,    *)
(* the commands on them, and what outlives the program.                    *)
(*                                                                         *)
(* The tables persist when the program ends or dies; the statements it     *)
(* prepared do not.  A SELECT that stopped at a row and was not finalized  *)
(* stays open until then, and SQLite refuses to drop a table meanwhile.    *)
(* Names and values are text without quotes.                               *)
(***************************************************************************)
EXTENDS FiniteSets

CONSTANTS
  Ids,     \* ID, of which SQLite gives a new row one not in use
  Names,   \* NAME
  Uris,    \* URI, the values a user types
  Passws,  \* PASSW
  Dash,    \* "-", which -ur takes for "leave as it is"
  None     \* the empty string: PASSW of a contact, outputs not yet set

ASSUME ValuesApart == {Dash, None} \cap (Names \cup Uris \cup Passws) = {} /\ Dash # None

VARIABLES
  created,     \* whether the two tables exist in the file
  table,       \* the rows of each table
  leaked,      \* whether a statement of this process stopped at a row, unfinalized
  dbMessage,   \* the feedback of the last command
  contactUri,  \* addr_book_get_contact's result
  registrar,   \* addr_book_get_registrar's result: regUri and passw
  pc           \* running, down (ended), or crashed

vars == <<created, table, leaked, dbMessage, contactUri, registrar, pc>>
outVars == <<contactUri, registrar>>

\* enum Option
Option == {"Contact", "Registrar"}

Row == [id : Ids, name : Names, uri : Uris \cup {Dash}, passw : Passws \cup {Dash, None}]

Message == {None, "exists", "doesnt exist", "created", "deleted", "updated", "found",
            "one attribute", "tables exist", "db created", "db dropped", "locked", "closed"}

TypeOK ==
  /\ created \in BOOLEAN
  /\ table \in [Option -> SUBSET Row]
  /\ leaked \in BOOLEAN
  /\ dbMessage \in Message
  /\ contactUri \in Uris \cup {Dash, None}
  /\ registrar \in (Uris \cup {Dash, None}) \X (Passws \cup {Dash, None})
  /\ pc \in {"running", "down", "crashed"}

Init ==
  /\ created = FALSE
  /\ table = [o \in Option |-> {}]
  /\ leaked = FALSE
  /\ dbMessage = None
  /\ contactUri = None
  /\ registrar = <<None, None>>
  /\ pc = "down"

Rows(o, name) == {r \in table[o] : r.name = name}

PresentMutant(o, name) == FALSE

\* addr_book_check finds a row of that name.
Present(o, name) == Rows(o, name) # {}

\* The values addr_book_insert and addr_book_update are given.
Passwords(o) == IF o = "Contact" THEN {None} ELSE Passws \cup {Dash}

-----------------------------------------------------------------------------
(* SQLite. *)

\* DROP TABLE IF EXISTS, refused while a SELECT of this process is open.
Droppable == ~(created /\ leaked)

\* prepare of a SELECT on a table that is not there; the error text the program
\* makes of it is built from a null pointer, which throws and ends the program.
NoTable ==
  /\ ~created
  /\ pc' = "crashed"
  /\ UNCHANGED <<created, table, leaked, dbMessage, outVars>>

FreeIds(o) == Ids \ {r.id : r \in table[o]}

-----------------------------------------------------------------------------
(* The commands. *)

Running == pc = "running"

\* addr_book_create: the SELECT that finds the tables is not finalized.
CreateTables ==
  IF created
    THEN /\ dbMessage' = "tables exist"
         /\ leaked' = TRUE
         /\ UNCHANGED created
    ELSE /\ created' = TRUE
         /\ dbMessage' = "db created"
         /\ UNCHANGED leaked

Create ==
  /\ Running
  /\ CreateTables
  /\ UNCHANGED <<table, outVars, pc>>

Drop ==
  /\ Running
  /\ IF Droppable
       THEN /\ created' = FALSE
            /\ table' = [o \in Option |-> {}]
            /\ dbMessage' = "db dropped"
       ELSE dbMessage' = "locked" /\ UNCHANGED <<created, table>>
  /\ UNCHANGED <<leaked, outVars, pc>>

\* addr_book_insert
Insert(o, name, u, p) ==
  /\ Running
  /\ \/ NoTable
     \/ /\ created /\ Present(o, name)
        /\ leaked' = TRUE
        /\ dbMessage' = "exists"
        /\ UNCHANGED <<created, table, outVars, pc>>
     \/ /\ created /\ ~Present(o, name)
        /\ \E i \in FreeIds(o) :
             table' = [table EXCEPT ![o] =
                         @ \cup {[id |-> i, name |-> name, uri |-> u, passw |-> p]}]
        /\ dbMessage' = "created"
        /\ UNCHANGED <<created, leaked, outVars, pc>>

\* addr_book_delete and addr_book_update first check that the name is there;
\* addr_book_check leaves its SELECT open when it finds a row.
NotThere(o, name) ==
  \/ NoTable
  \/ /\ created /\ ~Present(o, name)
     /\ dbMessage' = "doesnt exist"
     /\ UNCHANGED <<created, table, leaked, outVars, pc>>

Delete(o, name) ==
  /\ Running
  /\ \/ NotThere(o, name)
     \/ /\ created /\ Present(o, name)
        /\ leaked' = TRUE
        /\ table' = [table EXCEPT ![o] = @ \ Rows(o, name)]
        /\ dbMessage' = "deleted"
        /\ UNCHANGED <<created, outVars, pc>>

UpdatedSwapped(o, r, u, p) == [r EXCEPT !.uri = p, !.passw = u]
UpdatedMutant(o, r, u, p) == [r EXCEPT !.uri = u, !.passw = p]

\* The UPDATE of a contact sets the URI, whatever is typed; that of an identity
\* leaves what is given as "-".
Updated(o, r, u, p) ==
  IF o = "Contact"
    THEN [r EXCEPT !.uri = u]
    ELSE [r EXCEPT !.uri = IF u = Dash THEN @ ELSE u, !.passw = IF p = Dash THEN @ ELSE p]

UpdatedRowsMutant(o, name, u, p) == {Updated(o, r, u, p) : r \in table[o]}

\* The table after an UPDATE of the rows of one name.
UpdatedRows(o, name, u, p) ==
  (table[o] \ Rows(o, name)) \cup {Updated(o, r, u, p) : r \in Rows(o, name)}

\* addr_book_update
Update(o, name, u, p) ==
  /\ Running
  /\ \/ NotThere(o, name)
     \/ /\ created /\ Present(o, name)
        /\ leaked' = TRUE
        /\ IF o = "Registrar" /\ u = Dash /\ p = Dash
             THEN dbMessage' = "one attribute" /\ UNCHANGED table
             ELSE /\ dbMessage' = "updated"
                  /\ table' = [table EXCEPT ![o] = UpdatedRows(o, name, u, p)]
        /\ UNCHANGED <<created, outVars, pc>>

\* The row a SELECT of one name steps to first.
FirstRow(o, name) == CHOOSE r \in Rows(o, name) : TRUE

\* addr_book_get_contact
GetContact(name) ==
  /\ Running
  /\ \/ NotThere("Contact", name)
     \/ /\ created /\ Present("Contact", name)
        /\ leaked' = TRUE
        /\ contactUri' = FirstRow("Contact", name).uri
        /\ UNCHANGED <<created, table, dbMessage, registrar, pc>>

\* addr_book_get_registrar
GetRegistrar(name) ==
  /\ Running
  /\ \/ NotThere("Registrar", name)
     \/ /\ created /\ Present("Registrar", name)
        /\ leaked' = TRUE
        /\ registrar' = LET r == FirstRow("Registrar", name) IN <<r.uri, r.passw>>
        /\ UNCHANGED <<created, table, dbMessage, contactUri, pc>>

\* addr_book_get_data: a SELECT run to its end and finalized.
GetData == Running /\ NoTable

\* addr_book_close at the end of the program, or the program dies: what it
\* holds in memory is gone, the tables stay.
Close ==
  /\ Running
  /\ pc' = "down"
  /\ dbMessage' = "closed"
  /\ UNCHANGED <<created, table, leaked, outVars>>

Killed == Running /\ pc' = "down" /\ UNCHANGED <<created, table, leaked, dbMessage, outVars>>

\* main: open the database, create the tables if they are not there.
Start ==
  /\ ~Running
  /\ pc' = "running"
  /\ created' = TRUE
  /\ leaked' = created
  /\ dbMessage' = IF created THEN "tables exist" ELSE "db created"
  /\ contactUri' = None
  /\ registrar' = <<None, None>>
  /\ UNCHANGED table

Next ==
  \/ Create \/ Drop \/ GetData \/ Close \/ Killed \/ Start
  \/ \E o \in Option, name \in Names :
       \/ Delete(o, name)
       \/ \E u \in Uris \cup {Dash}, p \in Passwords(o) :
            Insert(o, name, u, p) \/ Update(o, name, u, p)
  \/ \E name \in Names : GetContact(name) \/ GetRegistrar(name)

Spec == Init /\ [][Next]_vars

-----------------------------------------------------------------------------
\* manual.txt, "All <name> attributes ARE unique within each table": no command,
\* in any order and across restarts, leaves two rows of a table with one name;
\* the tables have no such constraint, every insert checks first.
NamesUnique ==
  \A o \in Option : \A r, s \in table[o] : r.name = s.name => r = s

\* manual.txt, -ur: "If you wish to not update an attribute, type "-" instead":
\* an update never replaces a stored value by "-".
DashNeverStored ==
  [][\A r \in table["Registrar"], s \in table'["Registrar"] :
       r.id = s.id /\ r.name = s.name =>
         (r.uri # Dash => s.uri # Dash) /\ (r.passw # Dash => s.passw # Dash)]_vars

\* The entry a user sees under each name of the table T.
Book(T) ==
  [m \in {r.name : r \in T} |-> LET r == CHOOSE q \in T : q.name = m IN <<r.uri, r.passw>>]

Entries == (Uris \cup {Dash}) \X (Passws \cup {Dash, None})

Contacts   == INSTANCE Directory WITH book <- Book(table["Contact"])
Identities == INSTANCE Directory WITH book <- Book(table["Registrar"])

\* Each table is a directory of names: every command adds, changes or removes
\* the one entry it names, or clears the book, and a restart changes nothing.
ContactsAreDirectory   == Contacts!Spec
IdentitiesAreDirectory == Identities!Spec

\* manual.txt, -dropdb: "Drops the tables": it is never refused.
DropNeverRefused == dbMessage # "locked"
=============================================================================
