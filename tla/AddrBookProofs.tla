--------------------------- MODULE AddrBookProofs ---------------------------
(***************************************************************************)
(* Theorems about AddrBook, for any names, values and number of rows.      *)
(***************************************************************************)
EXTENDS AddrBook, TLAPS

-----------------------------------------------------------------------------
(* Types. *)

LEMMA EmptyTables == [o \in Option |-> {}] \in [Option -> SUBSET Row]
OBVIOUS

LEMMA NoResult == <<None, None>> \in (Uris \cup {Dash, None}) \X (Passws \cup {Dash, None})
OBVIOUS

LEMMA InitType == Init => TypeOK
BY EmptyTables, NoResult DEF Init, TypeOK, Message

\* What an update makes of a row is a row of the same name.
LEMMA UpdatedType ==
  ASSUME NEW o \in Option, NEW r \in Row,
         NEW u \in Uris \cup {Dash}, NEW p \in Passwords(o)
  PROVE  Updated(o, r, u, p) \in Row /\ Updated(o, r, u, p).name = r.name
BY DEF Updated, Row, Passwords, Option

LEMMA UpdatedRowsType ==
  ASSUME TypeOK, NEW o \in Option, NEW name \in Names,
         NEW u \in Uris \cup {Dash}, NEW p \in Passwords(o)
  PROVE  UpdatedRows(o, name, u, p) \in SUBSET Row
<1>1. table[o] \in SUBSET Row
  BY DEF TypeOK
<1>2. QED
  BY <1>1, UpdatedType DEF UpdatedRows, Rows

\* The row a lookup takes is one of the table's.
LEMMA FirstRowType ==
  ASSUME TypeOK, NEW o \in Option, NEW name \in Names, Present(o, name)
  PROVE  FirstRow(o, name) \in Row
<1>1. table[o] \in SUBSET Row
  BY DEF TypeOK
<1>2. FirstRow(o, name) \in Rows(o, name)
  BY DEF Present, FirstRow
<1>3. QED
  BY <1>1, <1>2 DEF Rows

LEMMA NotThereType ==
  ASSUME TypeOK, NEW o \in Option, NEW name \in Names, NotThere(o, name)
  PROVE  TypeOK'
BY DEF NotThere, NoTable, TypeOK, outVars, Message

LEMMA NextType == TypeOK /\ [Next]_vars => TypeOK'
<1> SUFFICES ASSUME TypeOK, [Next]_vars
             PROVE  TypeOK'
  OBVIOUS
<1>0. CASE Create \/ GetData \/ Close \/ Killed
  BY <1>0 DEF Create, CreateTables, GetData, NoTable, Close, Killed, TypeOK, outVars, Message
<1>1. CASE Drop \/ Start
  BY <1>1, EmptyTables, NoResult DEF Drop, Start, TypeOK, outVars, Message
<1>2. ASSUME NEW o \in Option, NEW name \in Names, Delete(o, name)
      PROVE  TypeOK'
  BY <1>2, NotThereType DEF Delete, TypeOK, outVars, Message
<1>3. ASSUME NEW o \in Option, NEW name \in Names,
             NEW u \in Uris \cup {Dash}, NEW p \in Passwords(o), Insert(o, name, u, p)
      PROVE  TypeOK'
  <2>1. CASE NoTable
    BY <2>1 DEF NoTable, TypeOK, outVars
  <2>2. CASE UNCHANGED table
    BY <1>3, <2>1, <2>2 DEF Insert, TypeOK, outVars, Message
  <2>3. ASSUME NEW i \in FreeIds(o),
               table' = [table EXCEPT ![o] =
                           @ \cup {[id |-> i, name |-> name, uri |-> u, passw |-> p]}]
        PROVE  table' \in [Option -> SUBSET Row]
    <3>1. [id |-> i, name |-> name, uri |-> u, passw |-> p] \in Row
      BY DEF Row, FreeIds, Passwords
    <3>2. QED
      BY <2>3, <3>1 DEF TypeOK
  <2>4. QED
    BY <1>3, <2>1, <2>2, <2>3 DEF Insert, TypeOK, outVars, Message
<1>4. ASSUME NEW o \in Option, NEW name \in Names,
             NEW u \in Uris \cup {Dash}, NEW p \in Passwords(o), Update(o, name, u, p)
      PROVE  TypeOK'
  <2>1. CASE NotThere(o, name)
    BY <2>1, NotThereType
  <2>2. CASE UNCHANGED table
    BY <1>4, <2>1, <2>2 DEF Update, TypeOK, outVars, Message
  <2>3. CASE table' = [table EXCEPT ![o] = UpdatedRows(o, name, u, p)]
    <3>1. table' \in [Option -> SUBSET Row]
      BY <2>3, UpdatedRowsType DEF TypeOK
    <3>2. QED
      BY <1>4, <2>1, <3>1 DEF Update, TypeOK, outVars, Message
  <2>4. QED
    BY <1>4, <2>1, <2>2, <2>3 DEF Update
<1>5. ASSUME NEW name \in Names, GetContact(name)
      PROVE  TypeOK'
  <2>1. "Contact" \in Option
    BY DEF Option
  <2>2. CASE NotThere("Contact", name)
    BY <2>1, <2>2, NotThereType
  <2>3. CASE ~NotThere("Contact", name)
    <3>1. FirstRow("Contact", name).uri \in Uris \cup {Dash}
      BY <1>5, <2>1, <2>3, FirstRowType DEF GetContact, Row
    <3>2. QED
      BY <1>5, <2>3, <3>1 DEF GetContact, TypeOK
  <2>4. QED
    BY <2>2, <2>3
<1>6. ASSUME NEW name \in Names, GetRegistrar(name)
      PROVE  TypeOK'
  <2>1. "Registrar" \in Option
    BY DEF Option
  <2>2. CASE NotThere("Registrar", name)
    BY <2>1, <2>2, NotThereType
  <2>3. CASE ~NotThere("Registrar", name)
    <3>1. FirstRow("Registrar", name) \in Row
      BY <1>6, <2>1, <2>3, FirstRowType DEF GetRegistrar
    <3>2. registrar' = <<FirstRow("Registrar", name).uri, FirstRow("Registrar", name).passw>>
      BY <1>6, <2>3 DEF GetRegistrar
    <3>3. registrar' \in (Uris \cup {Dash, None}) \X (Passws \cup {Dash, None})
      BY <3>1, <3>2 DEF Row
    <3>4. QED
      BY <1>6, <2>3, <3>3 DEF GetRegistrar, TypeOK
  <2>4. QED
    BY <2>2, <2>3
<1>7. CASE UNCHANGED vars
  BY <1>7 DEF vars, outVars, TypeOK
<1>8. QED
  BY <1>0, <1>1, <1>2, <1>3, <1>4, <1>5, <1>6, <1>7 DEF Next

\* Every reachable state is well typed: what the tables hold are rows, and a
\* lookup returns what a row holds.
THEOREM TypeCorrect == Spec => []TypeOK
BY InitType, NextType, PTL DEF Spec

-----------------------------------------------------------------------------
(* Names. *)

LEMMA UniqueInit == Init => NamesUnique
BY DEF Init, NamesUnique

\* It is enough that each table has, before and after, rows of the same names,
\* at most one of each.
LEMMA UniqueStep == TypeOK /\ NamesUnique /\ [Next]_vars => NamesUnique'
<1> SUFFICES ASSUME TypeOK, NamesUnique, [Next]_vars
             PROVE  NamesUnique'
  OBVIOUS
<1>a. ASSUME UNCHANGED table PROVE NamesUnique'
  BY <1>a DEF NamesUnique
<1>1. CASE Create \/ GetData \/ Close \/ Killed \/ Start
  BY <1>1, <1>a DEF Create, GetData, NoTable, Close, Killed, Start
<1>2. CASE Drop
  BY <1>2 DEF Drop, NamesUnique
<1>3. ASSUME NEW o \in Option, NEW name \in Names, Delete(o, name)
      PROVE  NamesUnique'
  <2>1. CASE table' = [table EXCEPT ![o] = @ \ Rows(o, name)]
    BY <2>1 DEF NamesUnique, TypeOK
  <2>2. QED
    BY <1>3, <1>a, <2>1 DEF Delete, NotThere, NoTable
<1>4. ASSUME NEW o \in Option, NEW name \in Names,
             NEW u \in Uris \cup {Dash}, NEW p \in Passwords(o), Insert(o, name, u, p)
      PROVE  NamesUnique'
  <2>1. ASSUME NEW i, ~Present(o, name),
               table' = [table EXCEPT ![o] =
                           @ \cup {[id |-> i, name |-> name, uri |-> u, passw |-> p]}]
        PROVE  NamesUnique'
    <3> DEFINE new == [id |-> i, name |-> name, uri |-> u, passw |-> p]
    <3>1. new.name = name
      OBVIOUS
    <3>2. \A r \in table[o] : r.name # name
      BY <2>1 DEF Present, Rows
    <3>3. table' = [table EXCEPT ![o] = table[o] \cup {new}]
      BY <2>1
    <3> HIDE DEF new
    <3>4. QED
      BY <3>1, <3>2, <3>3 DEF NamesUnique, TypeOK
  <2>2. QED
    BY <1>4, <1>a, <2>1 DEF Insert, NoTable
<1>5. ASSUME NEW o \in Option, NEW name \in Names,
             NEW u \in Uris \cup {Dash}, NEW p \in Passwords(o), Update(o, name, u, p)
      PROVE  NamesUnique'
  <2>1. CASE table' = [table EXCEPT ![o] = UpdatedRows(o, name, u, p)]
    <3>1. table[o] \in SUBSET Row
      BY DEF TypeOK
    <3>2. \A r \in Rows(o, name) : r \in table[o] /\ r \in Row /\ r.name = name
      BY <3>1 DEF Rows
    <3>3. \A r, s \in Rows(o, name) : r = s
      BY <3>2 DEF NamesUnique
    <3>4. \A s \in UpdatedRows(o, name, u, p) :
            \/ s \in table[o] /\ s.name # name
            \/ s.name = name /\ \E r \in Rows(o, name) : s = Updated(o, r, u, p)
      BY <3>2, UpdatedType DEF UpdatedRows, Rows
    <3>5. \A r, s \in UpdatedRows(o, name, u, p) : r.name = s.name => r = s
      BY <3>3, <3>4 DEF NamesUnique
    <3>6. QED
      BY <2>1, <3>5 DEF NamesUnique, TypeOK
  <2>2. QED
    BY <1>5, <1>a, <2>1 DEF Update, NotThere, NoTable
<1>6. ASSUME NEW name \in Names, GetContact(name) \/ GetRegistrar(name)
      PROVE  NamesUnique'
  BY <1>6, <1>a DEF GetContact, GetRegistrar, NotThere, NoTable
<1>7. CASE UNCHANGED vars
  BY <1>7, <1>a DEF vars
<1>8. QED
  BY <1>1, <1>2, <1>3, <1>4, <1>5, <1>6, <1>7 DEF Next

\* Names stay unique in each table, for any sequence of commands, deaths and
\* restarts: the check before each insert is enough.
THEOREM NamesStayUnique == Spec => []NamesUnique
BY TypeCorrect, UniqueInit, UniqueStep, PTL DEF Spec

LEMMA NeitherDash ==
  ASSUME TypeOK, NamesUnique, Next,
         NEW r \in table["Registrar"], NEW s \in table'["Registrar"],
         r.id = s.id, r.name = s.name
  PROVE  (r.uri # Dash => s.uri # Dash) /\ (r.passw # Dash => s.passw # Dash)
<1> DEFINE Registered == table["Registrar"]
<1>0. "Registrar" \in Option /\ "Contact" # "Registrar"
        /\ table \in [Option -> SUBSET Row] /\ \A q \in Registered : q \in Row
  BY DEF TypeOK, Option
<1>1. \* A row that was there before is the same row.
      ASSUME s \in Registered
      PROVE  r = s
  BY <1>0, <1>1 DEF NamesUnique
<1>2. CASE table'["Registrar"] \subseteq Registered
  BY <1>1, <1>2
<1>3. ASSUME NEW o \in Option, NEW name \in Names,
             NEW u \in Uris \cup {Dash}, NEW p \in Passwords(o), Insert(o, name, u, p)
      PROVE  r = s
  <2>1. CASE UNCHANGED table
    BY <1>1, <2>1
  <2>2. CASE \E i \in FreeIds(o) :
               table' = [table EXCEPT ![o] =
                           @ \cup {[id |-> i, name |-> name, uri |-> u, passw |-> p]}]
    <3>1. PICK i \in FreeIds(o) :
            table' = [table EXCEPT ![o] =
                        @ \cup {[id |-> i, name |-> name, uri |-> u, passw |-> p]}]
      BY <2>2
    <3> DEFINE new == [id |-> i, name |-> name, uri |-> u, passw |-> p]
    <3>2. s \in Registered \/ (o = "Registrar" /\ s = new)
      BY <1>0, <3>1
    <3>3. CASE o = "Registrar" /\ s = new
      <4>1. i \notin {q.id : q \in Registered}
        BY <3>1, <3>3 DEF FreeIds
      <4>2. s.id = i
        BY <3>3
      <4>3. QED
        BY <4>1, <4>2
    <3>4. QED
      BY <1>1, <3>2, <3>3
  <2>3. QED
    BY <1>3, <2>1, <2>2 DEF Insert, NoTable
<1>4. ASSUME NEW o \in Option, NEW name \in Names,
             NEW u \in Uris \cup {Dash}, NEW p \in Passwords(o), Update(o, name, u, p)
      PROVE  (r.uri # Dash => s.uri # Dash) /\ (r.passw # Dash => s.passw # Dash)
  <2>1. CASE UNCHANGED table
    BY <1>1, <2>1
  <2>2. CASE table' = [table EXCEPT ![o] = UpdatedRows(o, name, u, p)]
    <3>1. CASE o # "Registrar"
      BY <1>0, <1>1, <2>2, <3>1
    <3>2. CASE o = "Registrar"
      <4>1. table'["Registrar"] = UpdatedRows("Registrar", name, u, p)
        BY <1>0, <2>2, <3>2
      <4>2. CASE s \in Registered
        BY <1>1, <4>2
      <4>3. CASE \E q \in Rows("Registrar", name) : s = Updated("Registrar", q, u, p)
        <5>1. PICK q \in Registered : s = Updated("Registrar", q, u, p)
          BY <4>3 DEF Rows
        <5>2. q \in Row /\ r \in Row
          BY <1>0, <5>1
        <5>3. s.name = q.name
          BY <5>1, <5>2 DEF Updated, Row
        <5>4. q = r
          BY <1>0, <5>3 DEF NamesUnique
        <5>5. /\ s.uri = IF u = Dash THEN r.uri ELSE u
              /\ s.passw = IF p = Dash THEN r.passw ELSE p
          BY <1>0, <5>1, <5>2, <5>4 DEF Updated, Row
        <5>6. QED
          BY <5>5
      <4>4. QED
        BY <4>1, <4>2, <4>3 DEF UpdatedRows
    <3>3. QED
      BY <3>1, <3>2
  <2>3. QED
    BY <1>4, <2>1, <2>2 DEF Update, NotThere, NoTable
<1>5. ASSUME NEW o \in Option, NEW name \in Names, Delete(o, name)
      PROVE  table'["Registrar"] \subseteq Registered
  BY <1>0, <1>5 DEF Delete, NotThere, NoTable
<1>6. CASE Create \/ Drop \/ GetData \/ Close \/ Killed \/ Start
  <2>1. table'["Registrar"] \subseteq Registered
    BY <1>0, <1>6 DEF Create, CreateTables, Drop, GetData, NoTable, Close, Killed, Start
  <2>2. QED
    BY <1>2, <2>1
<1>7. ASSUME NEW name \in Names, GetContact(name) \/ GetRegistrar(name)
      PROVE  table'["Registrar"] \subseteq Registered
  BY <1>7 DEF GetContact, GetRegistrar, NotThere, NoTable
<1>8. QED
  BY <1>2, <1>3, <1>4, <1>5, <1>6, <1>7 DEF Next

\* An update never replaces a stored value of an identity by "-", for any names,
\* values and row IDs.
THEOREM DashIsNeverStored == Spec => DashNeverStored
<1>1. TypeOK /\ NamesUnique /\ [Next]_vars =>
        [\A r \in table["Registrar"], s \in table'["Registrar"] :
           r.id = s.id /\ r.name = s.name =>
             (r.uri # Dash => s.uri # Dash) /\ (r.passw # Dash => s.passw # Dash)]_vars
  BY NeitherDash
<1>2. QED
  BY <1>1, TypeCorrect, NamesStayUnique, PTL DEF Spec, DashNeverStored

-----------------------------------------------------------------------------
(* Each table is a directory. *)

\* One name, one row.
Unique(T) == \A r, s \in T : r.name = s.name => r = s

\* The steps of Directory, for any book.
DirStep(b, c) ==
  \/ \E name \in Names, e \in Entries :
       \/ /\ name \in Names \ DOMAIN b
          /\ c = [m \in DOMAIN b \cup {name} |-> IF m = name THEN e ELSE b[m]]
       \/ name \in DOMAIN b /\ c = [b EXCEPT ![name] = e]
  \/ \E name \in Names : name \in DOMAIN b /\ c = [m \in DOMAIN b \ {name} |-> b[m]]
  \/ c = [m \in {} |-> Entries]
  \/ c = b

LEMMA BookEntry ==
  ASSUME NEW T, Unique(T), NEW r \in T
  PROVE  Book(T)[r.name] = <<r.uri, r.passw>>
<1>1. (CHOOSE q \in T : q.name = r.name) = r
  BY DEF Unique
<1>2. QED
  BY <1>1 DEF Book

LEMMA BookDomain == ASSUME NEW T PROVE DOMAIN Book(T) = {r.name : r \in T}
BY DEF Book

\* A function with the names of T and the entries of its rows is its book.
LEMMA BookIs ==
  ASSUME NEW T, Unique(T), NEW f,
         f = [m \in {r.name : r \in T} |-> f[m]],
         \A r \in T : f[r.name] = <<r.uri, r.passw>>
  PROVE  Book(T) = f
<1>1. \A m \in {r.name : r \in T} : Book(T)[m] = f[m]
  <2>1. ASSUME NEW r \in T PROVE Book(T)[r.name] = f[r.name]
    <3>1. Book(T)[r.name] = <<r.uri, r.passw>>
      BY BookEntry
    <3>2. QED
      BY <3>1
  <2>2. QED
    BY <2>1
<1>2. Book(T) = [m \in {r.name : r \in T} |-> Book(T)[m]]
  BY DEF Book
<1>3. \A D, g : (\A m \in D : g[m] = f[m]) => [m \in D |-> g[m]] = [m \in D |-> f[m]]
  OBVIOUS
<1>4. QED
  BY <1>1, <1>2, <1>3

LEMMA EmptyBook == Book({}) = [m \in {} |-> Entries]
BY DEF Book

LEMMA AddsEntry ==
  ASSUME NEW T \in SUBSET Row, Unique(T), NEW new \in Row, \A r \in T : r.name # new.name
  PROVE  DirStep(Book(T), Book(T \cup {new}))
<1> DEFINE e == <<new.uri, new.passw>>
           f == [m \in DOMAIN Book(T) \cup {new.name} |-> IF m = new.name THEN e ELSE Book(T)[m]]
           U == T \cup {new}
<1>1. new.name \in Names /\ e \in Entries
  BY DEF Row, Entries
<1>2. new.name \notin DOMAIN Book(T)
  <2>1. DOMAIN Book(T) = {r.name : r \in T}
    BY BookDomain
  <2>2. QED
    BY <2>1
<1>3. Unique(U)
  BY DEF Unique
<1>4. DOMAIN Book(T) \cup {new.name} = {r.name : r \in U}
  <2>1. DOMAIN Book(T) = {r.name : r \in T}
    BY BookDomain
  <2>2. QED
    BY <2>1
<1>5. \A r \in U : f[r.name] = <<r.uri, r.passw>>
  <2>1. f[new.name] = e
    OBVIOUS
  <2>2. ASSUME NEW r \in T PROVE f[r.name] = <<r.uri, r.passw>>
    <3>1. r.name \in DOMAIN Book(T) /\ r.name # new.name
      BY BookDomain
    <3>2. QED
      BY <3>1, BookEntry
  <2>3. QED
    BY <2>1, <2>2
<1>6. Book(U) = f
  <2>1. f = [m \in {r.name : r \in U} |-> f[m]]
    BY <1>4
  <2> HIDE DEF f, U
  <2>2. QED
    BY <1>3, <1>5, <2>1, BookIs, Zenon
<1>7. QED
  BY <1>1, <1>2, <1>6 DEF DirStep

LEMMA RemovesEntry ==
  ASSUME NEW T \in SUBSET Row, Unique(T), NEW r \in T
  PROVE  DirStep(Book(T), Book(T \ {r}))
<1> DEFINE U == T \ {r}
           f == [m \in DOMAIN Book(T) \ {r.name} |-> Book(T)[m]]
<1>1. r.name \in Names /\ r.name \in DOMAIN Book(T)
  <2>1. DOMAIN Book(T) = {s.name : s \in T}
    BY BookDomain
  <2>2. QED
    BY <2>1 DEF Row
<1>2. Unique(U)
  BY DEF Unique
<1>3. \A s \in U : s.name # r.name
  BY DEF Unique
<1>4. DOMAIN Book(T) \ {r.name} = {s.name : s \in U}
  <2>1. DOMAIN Book(T) = {s.name : s \in T}
    BY BookDomain
  <2>2. QED
    BY <1>3, <2>1
<1>5. \A s \in U : f[s.name] = <<s.uri, s.passw>>
  BY <1>4, BookEntry
<1>6. Book(U) = f
  <2>1. f = [m \in {s.name : s \in U} |-> f[m]]
    BY <1>4
  <2> HIDE DEF f, U
  <2>2. QED
    BY <1>2, <1>5, <2>1, BookIs, Zenon
<1>7. QED
  BY <1>1, <1>6 DEF DirStep

LEMMA ChangesEntry ==
  ASSUME NEW T \in SUBSET Row, Unique(T), NEW r \in T, NEW new \in Row, new.name = r.name
  PROVE  DirStep(Book(T), Book((T \ {r}) \cup {new}))
<1> DEFINE e == <<new.uri, new.passw>>
           U == (T \ {r}) \cup {new}
           f == [Book(T) EXCEPT ![r.name] = e]
<1>1. e \in Entries /\ r.name \in Names /\ r.name \in DOMAIN Book(T)
  <2>1. DOMAIN Book(T) = {s.name : s \in T}
    BY BookDomain
  <2>2. QED
    BY <2>1 DEF Row, Entries
<1>2. \A s \in T \ {r} : s.name # r.name
  BY DEF Unique
<1>3. Unique(U)
  BY <1>2 DEF Unique
<1>4. DOMAIN Book(T) = {s.name : s \in U}
  <2>1. DOMAIN Book(T) = {s.name : s \in T}
    BY BookDomain
  <2>2. QED
    BY <2>1
<1>5. f = [m \in DOMAIN Book(T) |-> IF m = r.name THEN e ELSE Book(T)[m]]
  <2>1. \A g, a, v : [g EXCEPT ![a] = v] = [m \in DOMAIN g |-> IF m = a THEN v ELSE g[m]]
    OBVIOUS
  <2> HIDE DEF e
  <2>2. QED
    BY <2>1
<1>6. \A s \in U : f[s.name] = <<s.uri, s.passw>>
  <2>1. f[new.name] = e
    BY <1>1, <1>5
  <2>2. ASSUME NEW s \in T \ {r} PROVE f[s.name] = <<s.uri, s.passw>>
    <3>1. s.name \in DOMAIN Book(T) /\ s.name # r.name
      BY <1>2, BookDomain
    <3>2. QED
      BY <1>5, <3>1, BookEntry
  <2>3. QED
    BY <2>1, <2>2
<1>7. Book(U) = f
  <2>1. f = [m \in {s.name : s \in U} |-> f[m]]
    BY <1>4, <1>5
  <2> HIDE DEF e, f, U
  <2>2. \A m \in {s.name : s \in U} : Book(U)[m] = f[m]
    BY <1>3, <1>6, BookEntry
  <2>3. Book(U) = [m \in {s.name : s \in U} |-> Book(U)[m]]
    BY DEF Book
  <2>4. QED
    BY <2>1, <2>2, <2>3
<1>8. QED
  BY <1>1, <1>7 DEF DirStep

\* One step of AddrBook is a step of the directory of either table, or none:
\* one case per way in which the commands change a table.
LEMMA StepOfDirectory ==
  ASSUME TypeOK, NamesUnique, [Next]_vars, NEW o \in Option
  PROVE  DirStep(Book(table[o]), Book(table[o])')
<1> DEFINE T == table[o]
<1>a. T \in SUBSET Row /\ Unique(T)
  BY DEF TypeOK, NamesUnique, Unique
<1>b. ASSUME UNCHANGED table PROVE DirStep(Book(T), Book(T'))
  BY <1>b DEF DirStep
<1>c. \* A command that puts the rows U into one table.
      ASSUME NEW q \in Option, NEW U, table' = [table EXCEPT ![q] = U],
             q = o => DirStep(Book(T), Book(U))
      PROVE  DirStep(Book(T), Book(T'))
  <2>1. CASE q = o
    <3>1. T' = U
      BY <1>c, <2>1 DEF TypeOK
    <3>2. QED
      BY <1>c, <2>1, <3>1
  <2>2. CASE q # o
    <3>1. T' = T
      BY <1>c, <2>2 DEF TypeOK
    <3>2. QED
      BY <3>1 DEF DirStep
  <2>3. QED
    BY <2>1, <2>2
<1>d. ASSUME NEW name \in Names, Present(o, name)
      PROVE  \E r \in T : r.name = name /\ Rows(o, name) = {r}
  BY <1>a, <1>d DEF Present, Rows, Unique
<1> SUFFICES DirStep(Book(T), Book(T'))
  OBVIOUS
<1>1. CASE Create \/ GetData \/ Close \/ Killed \/ Start
  BY <1>1, <1>b DEF Create, GetData, NoTable, Close, Killed, Start
<1>2. CASE Drop
  <2>1. CASE table' = [q \in Option |-> {}]
    <3>1. T' = {}
      BY <2>1
    <3>2. QED
      BY <3>1, EmptyBook DEF DirStep
  <2>2. QED
    BY <1>2, <1>b, <2>1 DEF Drop
<1>3. ASSUME NEW q \in Option, NEW name \in Names, Delete(q, name)
      PROVE  DirStep(Book(T), Book(T'))
  <2>1. CASE Present(q, name) /\ table' = [table EXCEPT ![q] = @ \ Rows(q, name)]
    <3>1. ASSUME q = o PROVE DirStep(Book(T), Book(table[q] \ Rows(q, name)))
      <4>1. PICK r \in T : Rows(o, name) = {r}
        BY <1>d, <2>1, <3>1
      <4>2. QED
        BY <1>a, <3>1, <4>1, RemovesEntry
    <3>2. table' = [table EXCEPT ![q] = table[q] \ Rows(q, name)]
      BY <2>1
    <3>3. QED
      BY <1>c, <3>1, <3>2
  <2>2. QED
    BY <1>3, <1>b, <2>1 DEF Delete, NotThere, NoTable
<1>4. ASSUME NEW q \in Option, NEW name \in Names,
             NEW u \in Uris \cup {Dash}, NEW p \in Passwords(q), Insert(q, name, u, p)
      PROVE  DirStep(Book(T), Book(T'))
  <2>1. ASSUME NEW i \in FreeIds(q), ~Present(q, name),
               table' = [table EXCEPT ![q] =
                           @ \cup {[id |-> i, name |-> name, uri |-> u, passw |-> p]}]
        PROVE  DirStep(Book(T), Book(T'))
    <3> DEFINE new == [id |-> i, name |-> name, uri |-> u, passw |-> p]
    <3>1. new \in Row /\ new.name = name
      BY DEF Row, FreeIds, Passwords
    <3>2. table' = [table EXCEPT ![q] = table[q] \cup {new}]
      BY <2>1
    <3> HIDE DEF new
    <3>3. ASSUME q = o PROVE DirStep(Book(T), Book(table[q] \cup {new}))
      <4>1. \A r \in T : r.name # new.name
        BY <2>1, <3>1, <3>3 DEF Present, Rows
      <4>2. QED
        BY <1>a, <3>1, <3>3, <4>1, AddsEntry
    <3>4. QED
      BY <1>c, <3>2, <3>3
  <2>2. QED
    BY <1>4, <1>b, <2>1 DEF Insert, NoTable
<1>5. ASSUME NEW q \in Option, NEW name \in Names,
             NEW u \in Uris \cup {Dash}, NEW p \in Passwords(q), Update(q, name, u, p)
      PROVE  DirStep(Book(T), Book(T'))
  <2>1. CASE Present(q, name) /\ table' = [table EXCEPT ![q] = UpdatedRows(q, name, u, p)]
    <3>1. ASSUME q = o PROVE DirStep(Book(T), Book(UpdatedRows(q, name, u, p)))
      <4>1. PICK r \in T : Rows(o, name) = {r}
        BY <1>d, <2>1, <3>1
      <4>2. r \in Row
        BY <1>a
      <4>3. Updated(o, r, u, p) \in Row /\ Updated(o, r, u, p).name = r.name
        BY <3>1, <4>2, UpdatedType
      <4>4. UpdatedRows(o, name, u, p) = (T \ {r}) \cup {Updated(o, r, u, p)}
        BY <4>1 DEF UpdatedRows
      <4>5. QED
        BY <1>a, <3>1, <4>3, <4>4, ChangesEntry
    <3>2. QED
      BY <1>c, <2>1, <3>1
  <2>2. QED
    BY <1>5, <1>b, <2>1 DEF Update, NotThere, NoTable
<1>6. ASSUME NEW name \in Names, GetContact(name) \/ GetRegistrar(name)
      PROVE  DirStep(Book(T), Book(T'))
  BY <1>6, <1>b DEF GetContact, GetRegistrar, NotThere, NoTable
<1>7. CASE UNCHANGED vars
  BY <1>7, <1>b DEF vars
<1>8. QED
  BY <1>1, <1>2, <1>3, <1>4, <1>5, <1>6, <1>7 DEF Next

LEMMA DirectoryInit ==
  ASSUME Init, NEW o \in Option
  PROVE  Book(table[o]) = [m \in {} |-> Entries]
<1>1. table[o] = {}
  BY DEF Init
<1>2. QED
  BY <1>1, EmptyBook

\* The contacts are a directory of names, for any names, values and IDs: every
\* command adds, changes or removes the entry it names, or clears the book.
THEOREM ContactsRefine == Spec => ContactsAreDirectory
<1>1. "Contact" \in Option
  BY DEF Option
<1>2. Init => Contacts!Init
  BY <1>1, DirectoryInit DEF Contacts!Init, Contacts!Empty
<1>3. TypeOK /\ NamesUnique /\ [Next]_vars => [Contacts!Next]_(Book(table["Contact"]))
  <2> SUFFICES ASSUME TypeOK, NamesUnique, [Next]_vars
               PROVE  [Contacts!Next]_(Book(table["Contact"]))
    OBVIOUS
  <2>1. DirStep(Book(table["Contact"]), Book(table["Contact"])')
    BY <1>1, StepOfDirectory
  <2>2. QED
    BY <2>1 DEF DirStep, Contacts!Next, Contacts!Add, Contacts!Change, Contacts!Remove,
                Contacts!Clear, Contacts!Empty
<1>4. QED
  BY <1>2, <1>3, TypeCorrect, NamesStayUnique, PTL DEF Spec, ContactsAreDirectory, Contacts!Spec

\* So are the proxy identities, whose updates leave what is given as "-".
THEOREM IdentitiesRefine == Spec => IdentitiesAreDirectory
<1>1. "Registrar" \in Option
  BY DEF Option
<1>2. Init => Identities!Init
  BY <1>1, DirectoryInit DEF Identities!Init, Identities!Empty
<1>3. TypeOK /\ NamesUnique /\ [Next]_vars => [Identities!Next]_(Book(table["Registrar"]))
  <2> SUFFICES ASSUME TypeOK, NamesUnique, [Next]_vars
               PROVE  [Identities!Next]_(Book(table["Registrar"]))
    OBVIOUS
  <2>1. DirStep(Book(table["Registrar"]), Book(table["Registrar"])')
    BY <1>1, StepOfDirectory
  <2>2. QED
    BY <2>1 DEF DirStep, Identities!Next, Identities!Add, Identities!Change,
                Identities!Remove, Identities!Clear, Identities!Empty
<1>4. QED
  BY <1>2, <1>3, TypeCorrect, NamesStayUnique, PTL
     DEF Spec, IdentitiesAreDirectory, Identities!Spec
=============================================================================
