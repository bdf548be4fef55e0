----------------------------- MODULE InputProofs -----------------------------
(***************************************************************************)
(* What the bot makes of the server's lines, for any lines, in any number, *)
(* and any way recv cuts them.                                             *)
(***************************************************************************)
EXTENDS ConversationProofs, FiniteSetTheorems, SequenceTheorems

-----------------------------------------------------------------------------
(* The members of a set of places in their order. *)

LEMMA PlacesFinite ==
  ASSUME NEW m \in Nat, NEW S \in SUBSET (1..m)
  PROVE  /\ IsFiniteSet(S) /\ Cardinality(S) \in Nat
         /\ \A i \in S : i \in Nat
<1>1. IsFiniteSet(1..m)
  BY FS_Interval
<1>2. IsFiniteSet(S)
  BY <1>1, FS_Subset
<1>3. Cardinality(S) \in Nat
  BY <1>2, FS_CardinalityType
<1>q. QED
  BY <1>2, <1>3

\* Those before a member of an interval's subset can be counted.
LEMMA BeforeFinite ==
  ASSUME NEW m \in Nat, NEW S \in SUBSET (1..m), NEW i \in S
  PROVE  /\ IsFiniteSet({j \in S : j < i}) /\ Cardinality({j \in S : j < i}) \in Nat
         /\ Cardinality({j \in S : j < i}) < Cardinality(S)
<1> DEFINE A == {j \in S : j < i}
<1>1. IsFiniteSet(S) /\ Cardinality(S) \in Nat /\ \A j \in S : j \in Nat
  BY PlacesFinite
<1>2. A \subseteq S /\ A # S
  BY <1>1
<1> HIDE DEF A
<1>3. /\ IsFiniteSet(A) /\ Cardinality(A) <= Cardinality(S)
      /\ Cardinality(S) # Cardinality(A)
  BY <1>1, <1>2, FS_Subset
<1>4. Cardinality(A) \in Nat
  BY <1>3, FS_CardinalityType
<1>5. Cardinality(A) < Cardinality(S)
  BY <1>1, <1>3, <1>4
<1>q. QED
  BY <1>3, <1>4, <1>5 DEF A

\* A greater member has more members before it.
LEMMA BeforeGrows ==
  ASSUME NEW m \in Nat, NEW S \in SUBSET (1..m), NEW i \in S, NEW j \in S, i < j
  PROVE  Cardinality({h \in S : h < i}) < Cardinality({h \in S : h < j})
<1> DEFINE A == {h \in S : h < i}
           B == {h \in S : h < j}
<1>0. \A h \in S : h \in Nat
  BY PlacesFinite
<1>1. A \subseteq B /\ A # B
  <2>1. i \in B /\ i \notin A
    BY <1>0
  <2>2. \A h \in S : h < i => h < j
    BY <1>0
  <2>3. A \subseteq B
    BY <2>2
  <2>q. QED
    BY <2>1, <2>3
<1>2. IsFiniteSet(B) /\ Cardinality(A) \in Nat /\ Cardinality(B) \in Nat
  BY BeforeFinite
<1> HIDE DEF A, B
<1>3. Cardinality(A) <= Cardinality(B) /\ Cardinality(B) # Cardinality(A)
  BY <1>1, <1>2, FS_Subset
<1>4. Cardinality(A) < Cardinality(B)
  BY <1>2, <1>3
<1>q. QED
  BY <1>4 DEF A, B

LEMMA NthType ==
  ASSUME NEW m \in Nat, NEW S \in SUBSET (1..m), NEW k \in 1..Cardinality(S)
  PROVE  Nth(S, k) \in S /\ Cardinality({j \in S : j < Nth(S, k)}) = k - 1
<1> DEFINE before == [i \in S |-> Cardinality({j \in S : j < i})]
           N == Cardinality(S)
<1>1. IsFiniteSet(S) /\ N \in Nat /\ \A i \in S : i \in Nat
  BY PlacesFinite
<1>2. before \in [S -> 0..(N - 1)]
  <2>1. ASSUME NEW i \in S
        PROVE  Cardinality({j \in S : j < i}) \in 0..(N - 1)
    <3>1. /\ Cardinality({j \in S : j < i}) \in Nat
          /\ Cardinality({j \in S : j < i}) < N
      BY BeforeFinite
    <3>q. QED
      BY <1>1, <3>1
  <2>q. QED
    BY <2>1
<1>3. \A i, j \in S : i # j => before[i] # before[j]
  <2> TAKE i, j \in S
  <2> HAVE i # j
  <2>1. CASE i < j
    <3>1. Cardinality({h \in S : h < i}) < Cardinality({h \in S : h < j})
      BY <2>1, BeforeGrows
    <3>q. QED
      BY <1>2, <3>1
  <2>2. CASE j < i
    <3>1. Cardinality({h \in S : h < j}) < Cardinality({h \in S : h < i})
      BY <2>2, BeforeGrows
    <3>q. QED
      BY <1>2, <3>1
  <2>q. QED
    BY <1>1, <2>1, <2>2
<1>4. \A i \in S : before[i] = Cardinality({j \in S : j < i})
  OBVIOUS
<1> HIDE DEF before
<1>5. before \in Injection(S, 0..(N - 1))
  BY <1>2, <1>3 DEF Injection, IsInjective
<1>6. IsFiniteSet(0..(N - 1)) /\ Cardinality(0..(N - 1)) = N
  <2> HIDE DEF N
  <2> DEFINE M == N - 1
  <2>1. M \in Int /\ 0 \in Int /\ (IF 0 > M THEN 0 ELSE M - 0 + 1) = N
    BY <1>1
  <2> HIDE DEF M
  <2>2. IsFiniteSet(0..M) /\ Cardinality(0..M) = IF 0 > M THEN 0 ELSE M - 0 + 1
    BY <2>1, FS_Interval, Zenon
  <2>q. QED
    BY <2>1, <2>2 DEF M
<1>7. before \in Surjection(S, 0..(N - 1))
  <2> HIDE DEF N
  <2>1. Cardinality(S) = Cardinality(0..(N - 1))
    BY <1>6 DEF N
  <2>q. QED
    BY <1>5, <1>6, <2>1, FS_Injection
<1>8. \E i \in S : before[i] = k - 1
  <2>1. k - 1 \in 0..(N - 1)
    BY <1>1
  <2>q. QED
    BY <1>7, <2>1 DEF Surjection
<1>9. \E i \in S : Cardinality({j \in S : j < i}) = k - 1
  BY <1>4, <1>8
<1>q. QED
  BY <1>9 DEF Nth

\* None is before the first one.
LEMMA NthLeast ==
  ASSUME NEW m \in Nat, NEW S \in SUBSET (1..m), NEW j \in S
  PROVE  Nth(S, 1) \in S /\ Nth(S, 1) <= j
<1>1. /\ IsFiniteSet(S) /\ Cardinality(S) \in Nat
      /\ \A i \in S : i \in Nat
  BY PlacesFinite
<1>2. Cardinality(S) # 0
  BY <1>1, FS_EmptySet
<1>3. 1 \in 1..Cardinality(S)
  BY <1>1, <1>2
<1>4. Nth(S, 1) \in S /\ Cardinality({h \in S : h < Nth(S, 1)}) = 1 - 1
  BY <1>3, NthType
<1>5. ~(j < Nth(S, 1))
  <2> SUFFICES ASSUME j < Nth(S, 1) PROVE FALSE
    OBVIOUS
  <2>1. Cardinality({h \in S : h < j}) < Cardinality({h \in S : h < Nth(S, 1)})
    BY <1>4, BeforeGrows
  <2>2. Cardinality({h \in S : h < j}) \in Nat
    BY BeforeFinite
  <2>q. QED
    BY <1>4, <2>1, <2>2
<1>6. Nth(S, 1) \in Nat /\ j \in Nat
  BY <1>1, <1>4
<1>q. QED
  BY <1>4, <1>5, <1>6

\* Where the members begin without a gap, the k-th one is k.
LEMMA NthFirst ==
  ASSUME NEW m \in Nat, NEW S \in SUBSET (1..m), NEW k \in Nat \ {0}, 1..k \subseteq S
  PROVE  Nth(S, k) = k
<1>1. k \in S
  OBVIOUS
<1>0. \A j \in S : j \in 1..m
  OBVIOUS
<1>2. {j \in S : j < k} = 1..(k - 1)
  <2>1. \A j \in S : j < k => j \in 1..(k - 1)
    BY <1>0
  <2>2. \A j \in 1..(k - 1) : j \in 1..k /\ j < k
    OBVIOUS
  <2>3. \A j \in 1..(k - 1) : j \in S /\ j < k
    BY <2>2
  <2>q. QED
    BY <2>1, <2>3
<1>3. Cardinality({j \in S : j < k}) = k - 1
  <2>1. k - 1 \in Int
    OBVIOUS
  <2>2. Cardinality(1..(k - 1)) = IF 1 > k - 1 THEN 0 ELSE k - 1 - 1 + 1
    BY <2>1, FS_Interval
  <2>3. Cardinality(1..(k - 1)) = k - 1
    BY <2>2
  <2>q. QED
    BY <1>2, <2>3, Zenon
<1>4. \A i \in S : Cardinality({j \in S : j < i}) = k - 1 => i = k
  <2> TAKE i \in S
  <2>0. /\ Cardinality({j \in S : j < i}) \in Nat
        /\ i \in Nat
    BY PlacesFinite, BeforeFinite
  <2>1. CASE i < k
    <3>1. Cardinality({j \in S : j < i}) < Cardinality({j \in S : j < k})
      BY <1>1, <2>1, BeforeGrows
    <3>q. QED
      BY <1>3, <2>0, <3>1
  <2>2. CASE k < i
    <3>1. Cardinality({j \in S : j < k}) < Cardinality({j \in S : j < i})
      BY <1>1, <2>2, BeforeGrows
    <3>q. QED
      BY <1>3, <2>0, <3>1
  <2>q. QED
    BY <2>0, <2>1, <2>2
<1>5. (CHOOSE i \in S : Cardinality({j \in S : j < i}) = k - 1) = k
  BY <1>1, <1>3, <1>4
<1>q. QED
  BY <1>5 DEF Nth
-----------------------------------------------------------------------------
(* From a chunk to its words. *)

\* The words the loops look for are no ends of lines, and a spoilt one is none
\* of them.
LEMMA WordsApart ==
  /\ correct_nick # EOL /\ nick # EOL /\ "PRIVMSG" # EOL /\ "PING" # EOL
  /\ correct_nick # Junk /\ nick # Junk /\ "PRIVMSG" # Junk /\ "PING" # Junk
<1>1. correct_nick # EOL /\ nick # EOL /\ "PRIVMSG" # EOL /\ "PING" # EOL
  BY Zenon DEF EOL, correct_nick, nick
<1>2. correct_nick # Junk /\ nick # Junk /\ "PRIVMSG" # Junk /\ "PING" # Junk
  BY Zenon DEF Junk, correct_nick, nick
<1>q. QED
  BY <1>1, <1>2

LEMMA SomeWords == EOL \in Vocabulary /\ Junk \in Vocabulary /\ "#channel" \in Vocabulary
BY DEF Vocabulary

LEMMA PrefixWords ==
  ASSUME NEW S, NEW w \in Seq(S), NEW m \in Int, m <= Len(w)
  PROVE  /\ SubSeq(w, 1, m) \in Seq(S)
         /\ Len(SubSeq(w, 1, m)) = IF m >= 0 THEN m ELSE 0
         /\ \A i \in 1..m : SubSeq(w, 1, m)[i] = w[i]
<1>1. \A i \in 1..m : w[i] \in S
  BY LenProperties
<1>2. 1 \in Int /\ m \in Int
  OBVIOUS
<1>q. QED
  BY <1>1, <1>2, SubSeqProperties

\* What recv may return next.
Readable(k, cut) ==
  /\ k \in 0..(Len(sent) - read) /\ cut \in BOOLEAN
  /\ IF cut THEN k < Len(sent) - read ELSE k > 0

LEMMA ChunkType ==
  ASSUME InputTypeOK, NEW k, NEW cut, Readable(k, cut)
  PROVE  /\ Chunk(k, cut) \in Seq(Vocabulary)
         /\ Len(Chunk(k, cut)) = k + (IF cut THEN 1 ELSE 0)
         /\ Chunk(k, cut) # <<>>
         /\ \A i \in 1..Len(Chunk(k, cut)) : Chunk(k, cut)[i] = sent[read + i]
<1> DEFINE last == read + k + (IF cut THEN 1 ELSE 0)
<1>1. /\ read \in Nat /\ k \in Nat /\ Len(sent) \in Nat
      /\ last \in Int /\ read + 1 \in Int
      /\ last <= Len(sent) /\ read + 1 <= last
      /\ last - (read + 1) + 1 = k + (IF cut THEN 1 ELSE 0)
  BY DEF InputTypeOK, Readable
<1>2. \A i \in (read + 1)..last : sent[i] \in Vocabulary
  <2>1. \A i \in 1..Len(sent) : sent[i] \in Vocabulary
    BY ElementOfSeq DEF InputTypeOK
  <2>q. QED
    BY <1>1, <2>1
<1>3. Chunk(k, cut) = SubSeq(sent, read + 1, last)
  BY DEF Chunk
<1> HIDE DEF last
<1>4. /\ SubSeq(sent, read + 1, last) \in Seq(Vocabulary)
      /\ Len(SubSeq(sent, read + 1, last)) = last - (read + 1) + 1
      /\ \A i \in 1..(last - (read + 1) + 1) :
            SubSeq(sent, read + 1, last)[i] = sent[read + 1 + i - 1]
  BY <1>1, <1>2, SubSeqProperties
<1>5. \A i \in Int : read + 1 + i - 1 = read + i
  BY <1>1
<1>6. last - (read + 1) + 1 > 0
  BY <1>1
<1>7. /\ Chunk(k, cut) \in Seq(Vocabulary)
      /\ Len(Chunk(k, cut)) = k + (IF cut THEN 1 ELSE 0)
      /\ Len(Chunk(k, cut)) > 0
  BY <1>1, <1>3, <1>4, <1>6
<1>8. Chunk(k, cut) # <<>>
  BY <1>7, EmptySeq
<1>9. \A i \in 1..Len(Chunk(k, cut)) : Chunk(k, cut)[i] = sent[read + i]
  <2> TAKE i \in 1..Len(Chunk(k, cut))
  <2>1. i \in 1..(last - (read + 1) + 1)
    BY <1>3, <1>4
  <2>2. Chunk(k, cut)[i] = sent[read + 1 + i - 1]
    BY <1>3, <1>4, <2>1
  <2>3. read + 1 + i - 1 = read + i
    BY <1>5, <2>1
  <2>q. QED
    BY <2>2, <2>3
<1>q. QED
  BY <1>7, <1>8, <1>9

LEMMA TrimmedType ==
  ASSUME NEW s \in Seq(Vocabulary), s # <<>>, NEW cut
  PROVE  /\ Trimmed(s, cut) \in Seq(Vocabulary)
         /\ Len(Trimmed(s, cut)) = IF Whole(s, cut) THEN Len(s) - 1 ELSE Len(s)
         /\ \A i \in 1..Len(Trimmed(s, cut)) : Trimmed(s, cut)[i] = s[i]
<1>1. Len(s) \in Nat \ {0}
  BY EmptySeq
<1>2. CASE Whole(s, cut)
  <2>1. Trimmed(s, cut) = SubSeq(s, 1, Len(s) - 1)
    BY <1>2 DEF Trimmed, Front
  <2>2. Len(s) - 1 \in Int /\ Len(s) - 1 <= Len(s) /\ Len(s) - 1 >= 0
    BY <1>1
  <2>3. /\ SubSeq(s, 1, Len(s) - 1) \in Seq(Vocabulary)
        /\ Len(SubSeq(s, 1, Len(s) - 1)) = Len(s) - 1
        /\ \A i \in 1..(Len(s) - 1) : SubSeq(s, 1, Len(s) - 1)[i] = s[i]
    BY <2>2, PrefixWords
  <2>q. QED
    BY <1>2, <2>1, <2>3
<1>3. CASE ~Whole(s, cut)
  BY <1>3 DEF Trimmed
<1>q. QED
  BY <1>2, <1>3

Starts(b) == {i \in DOMAIN b : StartsWord(b, i)}

LEMMA PartsKnown == \A x : PartsOf(x) \subseteq Vocabulary /\ Junk \in PartsOf(x)
BY DEF PartsOf, Vocabulary

LEMMA RemainsType ==
  ASSUME NEW s, NEW cut, NEW b, NEW left \in Remains(s, cut, b)
  PROVE  /\ \A i : i \in DOMAIN left <=> i \in DOMAIN b /\ Spoilt(s, cut, b, i)
         /\ \A i \in DOMAIN left : left[i] \in PartsOf(b[i])
<1> DEFINE S == {i \in DOMAIN b : Spoilt(s, cut, b, i)}
<1>1. left \in [S -> UNION {PartsOf(b[i]) : i \in S}] /\ \A i \in S : left[i] \in PartsOf(b[i])
  BY DEF Remains
<1>2. DOMAIN left = S
  BY <1>1
<1>q. QED
  BY <1>1, <1>2

LEMMA SplitType ==
  ASSUME NEW s \in Seq(Vocabulary), s # <<>>, NEW cut, NEW left \in Remains(s, cut, Trimmed(s, cut))
  PROVE  LET b == Trimmed(s, cut) IN
         /\ b \in Seq(Vocabulary) /\ Len(b) \in Nat /\ Starts(b) \in SUBSET (1..Len(b))
         /\ split(s, cut, left) \in Seq(Vocabulary)
         /\ Len(split(s, cut, left)) = Cardinality(Starts(b))
         /\ \A k \in 1..Len(split(s, cut, left)) :
               split(s, cut, left)[k] = WordAt(cut, b, left, Nth(Starts(b), k))
<1> DEFINE b == Trimmed(s, cut)
           N == Cardinality(Starts(b))
<1>1. b \in Seq(Vocabulary)
  BY TrimmedType
<1>0. \A i \in DOMAIN left : left[i] \in Vocabulary
  <2>1. \A i \in DOMAIN left : left[i] \in PartsOf(b[i])
    BY RemainsType
  <2>q. QED
    BY <2>1, PartsKnown
<1> HIDE DEF b
<1>2. /\ Len(b) \in Nat /\ DOMAIN b = 1..Len(b)
      /\ \A i \in 1..Len(b) : b[i] \in Vocabulary
  BY <1>1, LenProperties
<1>3. Starts(b) \in SUBSET (1..Len(b))
  BY <1>2 DEF Starts
<1>4. N \in Nat
  BY <1>2, <1>3, PlacesFinite
<1>5. split(s, cut, left) = [k \in 1..N |-> WordAt(cut, b, left, Nth(Starts(b), k))]
  BY DEF split, Starts, b
<1>6. ASSUME NEW k \in 1..N
      PROVE  WordAt(cut, b, left, Nth(Starts(b), k)) \in Vocabulary
  <2>1. Nth(Starts(b), k) \in Starts(b)
    BY <1>2, <1>3, NthType
  <2>2. b[Nth(Starts(b), k)] \in Vocabulary
    BY <1>2, <1>3, <2>1
  <2>q. QED
    BY <1>0, <2>2, SomeWords DEF WordAt
<1> HIDE DEF N
<1>7. split(s, cut, left) \in [1..N -> Vocabulary]
  BY <1>5, <1>6
<1>8. split(s, cut, left) \in Seq(Vocabulary) /\ Len(split(s, cut, left)) = N
  BY <1>4, <1>7
<1>q. QED
  BY <1>1, <1>2, <1>3, <1>5, <1>8 DEF b, N

\* The words are those of the split, for some remains of the spoilt ones, save
\* perhaps the last.
SplitFrom(w, s, cut, left) ==
  /\ Len(w) <= Len(split(s, cut, left))
  /\ \A k \in 1..Len(w) : w[k] = split(s, cut, left)[k]
  /\ Whole(s, cut) => Len(w) = Len(split(s, cut, left))

LEMMA WordsType ==
  ASSUME NEW s \in Seq(Vocabulary), s # <<>>, NEW cut, NEW w \in Words(s, cut)
  PROVE  /\ w \in Seq(Vocabulary) /\ Len(w) \in Nat
         /\ \E left \in Remains(s, cut, Trimmed(s, cut)) : SplitFrom(w, s, cut, left)
<1>1. PICK left \in Remains(s, cut, Trimmed(s, cut)) :
        \E m \in {Len(split(s, cut, left))}
                   \cup (IF Whole(s, cut) THEN {} ELSE {Len(split(s, cut, left)) - 1}) :
          w = SubSeq(split(s, cut, left), 1, m)
  BY DEF Words
<1> DEFINE v == split(s, cut, left)
<1>2. v \in Seq(Vocabulary) /\ Len(v) \in Nat
  BY SplitType, LenProperties
<1>3. PICK m \in {Len(v)} \cup (IF Whole(s, cut) THEN {} ELSE {Len(v) - 1}) : w = SubSeq(v, 1, m)
  BY <1>1
<1> HIDE DEF v
<1>4. m \in Int /\ m <= Len(v) /\ (Whole(s, cut) => m = Len(v))
  BY <1>2, <1>3
<1>5. /\ w \in Seq(Vocabulary) /\ Len(w) = (IF m >= 0 THEN m ELSE 0)
      /\ \A i \in 1..m : w[i] = v[i]
  BY <1>2, <1>3, <1>4, PrefixWords
<1>6. /\ Len(w) \in Nat /\ Len(w) <= Len(v)
      /\ \A k \in 1..Len(w) : w[k] = v[k]
      /\ Whole(s, cut) => Len(w) = Len(v)
  BY <1>2, <1>4, <1>5
<1>7. SplitFrom(w, s, cut, left)
  BY <1>6 DEF SplitFrom, v
<1>q. QED
  BY <1>5, <1>6, <1>7

\* Of a command that is understood four words are where the code looks for them,
\* and the second and third are complete.
LEMMA CommandWords ==
  ASSUME NEW s \in Seq(Vocabulary), s # <<>>,
         \A i \in 1..(Len(s) - 1) : s[i] = EOL => s[i + 1] # EOL,
         NEW cut, NEW w \in Words(s, cut), Understood(w)
  PROVE  /\ Len(s) >= 4
         /\ ReadAs(s[1], correct_nick) /\ s[2] = "PRIVMSG" /\ s[3] = nick
         /\ ReadAs(s[4], w[4])
<1>0. PICK left \in Remains(s, cut, Trimmed(s, cut)) : SplitFrom(w, s, cut, left)
  BY WordsType
<1> DEFINE b == Trimmed(s, cut)
           S == Starts(b)
           v == split(s, cut, left)
<1>1. /\ Len(b) \in Nat /\ DOMAIN b = 1..Len(b)
      /\ S \in SUBSET (1..Len(b))
      /\ Len(v) = Cardinality(S)
      /\ \A k \in 1..Len(v) : v[k] = WordAt(cut, b, left, Nth(S, k))
  BY SplitType, LenProperties
<1>2. /\ Len(b) <= Len(s) /\ Len(s) \in Nat
      /\ \A i \in 1..Len(b) : b[i] = s[i]
  <2>1. Len(s) \in Nat
    BY LenProperties
  <2>q. QED
    BY <2>1, TrimmedType
<1>3. /\ Len(w) \in Nat /\ Len(w) <= Len(v)
      /\ \A k \in 1..Len(w) : w[k] = v[k]
  <2>1. Len(w) \in Nat
    BY WordsType
  <2>q. QED
    BY <1>0, <2>1 DEF SplitFrom
<1>4. Len(w) >= 4 /\ w[1] = correct_nick /\ w[2] = "PRIVMSG" /\ w[3] = nick
  BY DEF Understood
<1>s. \A i \in 1..Len(b) : i \in S <=> b[i] # EOL /\ (i <= 2 \/ b[i - 1] # EOL)
  BY <1>1 DEF Starts, StartsWord
<1>r. /\ \A i : i \in DOMAIN left <=> i \in 1..Len(b) /\ Spoilt(s, cut, b, i)
      /\ \A i \in DOMAIN left : left[i] \in PartsOf(b[i])
  BY <1>1, RemainsType
<1>g. \A i : WordAt(cut, b, left, i) # Junk => ~Glued(cut, b, i)
  BY DEF WordAt
<1>i. \A i : /\ WordAt(cut, b, left, i) # Junk
             /\ 1 < i /\ i < Len(b) /\ (i = Len(b) - 1 => b[Len(b)] # EOL)
             => b[i] = WordAt(cut, b, left, i)
  <2> SUFFICES ASSUME NEW i, WordAt(cut, b, left, i) # Junk,
                      1 < i, i < Len(b), i = Len(b) - 1 => b[Len(b)] # EOL
               PROVE  b[i] = WordAt(cut, b, left, i)
    OBVIOUS
  <2>1. ~Spoilt(s, cut, b, i)
    BY <1>1 DEF Spoilt
  <2>q. QED
    BY <1>r, <2>1 DEF WordAt
<1>j. \A i : b[i] # EOL => ReadAs(b[i], WordAt(cut, b, left, i))
  BY <1>r, PartsKnown DEF WordAt, ReadAs
<1>n. ASSUME NEW k \in Nat \ {0}, 1..k \subseteq S
      PROVE  Nth(S, k) = k
  <2> DEFINE m == Len(b)
  <2>1. m \in Nat /\ S \in SUBSET (1..m)
    BY <1>1
  <2> HIDE DEF m, S
  <2>q. QED
    BY <1>n, <2>1, NthFirst
<1>l. ASSUME NEW j \in S
      PROVE  Nth(S, 1) \in S /\ Nth(S, 1) <= j
  <2> DEFINE m == Len(b)
  <2>1. m \in Nat /\ S \in SUBSET (1..m)
    BY <1>1
  <2> HIDE DEF m, S
  <2>q. QED
    BY <1>l, <2>1, NthLeast
<1> HIDE DEF b, S, v
<1>5. Cardinality(S) \in Nat /\ Cardinality(S) >= 4 /\ Len(b) >= 4
  <2>0. Len(b) \in Int
    BY <1>1
  <2>1. IsFiniteSet(1..Len(b)) /\ Cardinality(1..Len(b)) = IF 1 > Len(b) THEN 0 ELSE Len(b) - 1 + 1
    BY <2>0, FS_Interval
  <2>2. Cardinality(S) <= Cardinality(1..Len(b))
    BY <1>1, <2>1, FS_Subset
  <2>3. Cardinality(S) \in Nat
    BY <1>1, PlacesFinite
  <2>q. QED
    BY <1>1, <1>3, <1>4, <2>1, <2>2, <2>3
<1>6. \A k \in 1..4 : w[k] = WordAt(cut, b, left, Nth(S, k))
  BY <1>1, <1>3, <1>4, <1>5
<1>7. b[1] # EOL
  <2> SUFFICES ASSUME b[1] = EOL PROVE FALSE
    OBVIOUS
  <2>1. b[2] # EOL
    <3>1. 1 \in 1..(Len(s) - 1) /\ b[1] = s[1] /\ b[2] = s[2]
      BY <1>1, <1>2, <1>5
    <3>q. QED
      BY <3>1
  <2>2. 2 \in S /\ 1 \notin S
    BY <1>1, <1>5, <1>s, <2>1
  <2>3. Nth(S, 1) \in S /\ Nth(S, 1) <= 2
    BY <1>l, <2>2
  <2>4. Nth(S, 1) = 2
    <3>1. Nth(S, 1) \in 1..Len(b) /\ Nth(S, 1) # 1
      BY <1>1, <2>2, <2>3
    <3>q. QED
      BY <2>3, <3>1
  <2>5. ~Glued(cut, b, 2)
    BY <1>4, <1>6, <1>g, <2>4, WordsApart
  <2>q. QED
    BY <2>5 DEF Glued
<1>8. Nth(S, 1) = 1
  <2>1. 1..1 \subseteq S
    BY <1>1, <1>5, <1>s, <1>7
  <2>q. QED
    BY <1>n, <2>1
<1>9. ReadAs(b[1], correct_nick) /\ b[2] # EOL
  <2>1. w[1] = WordAt(cut, b, left, 1)
    BY <1>6, <1>8
  <2>2. ~Glued(cut, b, 1)
    BY <1>4, <1>g, <2>1, WordsApart
  <2>3. ReadAs(b[1], correct_nick)
    BY <1>4, <1>7, <1>j, <2>1
  <2>4. b[2] # EOL
    <3>1. 1 < Len(b) /\ 1 + 1 # Len(b) /\ 1 + 1 = 2
      BY <1>1, <1>5
    <3>q. QED
      BY <2>2, <3>1 DEF Glued
  <2>q. QED
    BY <2>3, <2>4
<1>10. Nth(S, 2) = 2
  <2>1. 1..2 \subseteq S
    BY <1>1, <1>5, <1>s, <1>7, <1>9
  <2>q. QED
    BY <1>n, <2>1
<1>11. b[2] = "PRIVMSG" /\ b[3] # EOL
  <2>1. w[2] = WordAt(cut, b, left, 2)
    BY <1>6, <1>10
  <2>2. ~Glued(cut, b, 2)
    BY <1>4, <1>g, <2>1, WordsApart
  <2>0. 1 < 2 /\ 2 < Len(b) /\ 2 # Len(b) - 1 /\ 2 + 1 # Len(b) /\ 2 + 1 = 3
    <3> DEFINE m == Len(b)
    <3>1. m \in Nat /\ m >= 4
      BY <1>1, <1>5
    <3> HIDE DEF m
    <3>2. 1 < 2 /\ 2 < m /\ 2 # m - 1 /\ 2 + 1 # m /\ 2 + 1 = 3
      BY <3>1
    <3>q. QED
      BY <3>2, Zenon DEF m
  <2>3. b[2] = w[2]
    BY <1>4, <1>i, <2>0, <2>1, WordsApart
  <2>4. b[3] # EOL
    BY <2>0, <2>2 DEF Glued
  <2>q. QED
    BY <1>4, <2>3, <2>4
<1>12. Nth(S, 3) = 3
  <2>1. 1..3 \subseteq S
    BY <1>1, <1>5, <1>s, <1>7, <1>9, <1>11
  <2>q. QED
    BY <1>n, <2>1
<1>13. b[3] = nick /\ b[4] # EOL
  <2>1. w[3] = WordAt(cut, b, left, 3)
    BY <1>6, <1>12
  <2>2. ~Glued(cut, b, 3)
    BY <1>4, <1>g, <2>1, WordsApart
  <2>3. b[4] # EOL
    <3> SUFFICES ASSUME b[4] = EOL PROVE FALSE
      OBVIOUS
    <3>1. Len(b) = 4
      BY <1>1, <1>5, <2>2 DEF Glued
    <3>2. 4 \notin S
      BY <1>1, <1>s, <3>1
    <3>3. S \subseteq 1..3
      <4>1. \A i \in S : i \in 1..4 /\ i # 4
        BY <1>1, <3>1, <3>2
      <4>q. QED
        BY <4>1
    <3>5. IsFiniteSet(1..3) /\ Cardinality(1..3) = 3
      <4>1. 1 \in Int /\ 3 \in Int /\ (IF 1 > 3 THEN 0 ELSE 3 - 1 + 1) = 3
        OBVIOUS
      <4>2. IsFiniteSet(1..3) /\ Cardinality(1..3) = IF 1 > 3 THEN 0 ELSE 3 - 1 + 1
        BY <4>1, FS_Interval, Zenon
      <4>q. QED
        BY <4>1, <4>2
    <3>4. Cardinality(S) <= Cardinality(1..3)
      BY <3>3, <3>5, FS_Subset
    <3>q. QED
      BY <1>5, <3>4, <3>5
  <2>4. b[3] = w[3]
    <3>0. 3 = Len(b) - 1 => Len(b) = 4
      <4>1. Len(b) \in Int
        BY <1>1
      <4>q. QED
        BY <4>1
    <3>1. 3 = Len(b) - 1 => b[Len(b)] # EOL
      BY <2>3, <3>0
    <3>q. QED
      BY <1>1, <1>4, <1>5, <1>i, <2>1, <3>1, WordsApart
  <2>q. QED
    BY <1>4, <2>3, <2>4
<1>14. Nth(S, 4) = 4
  <2>1. 1..4 \subseteq S
    BY <1>1, <1>5, <1>s, <1>7, <1>9, <1>11, <1>13
  <2>q. QED
    BY <1>n, <2>1
<1>15. ReadAs(b[4], w[4])
  BY <1>6, <1>13, <1>14, <1>j
<1>q. QED
  BY <1>1, <1>2, <1>5, <1>9, <1>11, <1>13, <1>15

\* The words of a chunk that is one line are the words of the line.
LEMMA LineWords ==
  ASSUME NEW s \in Seq(Vocabulary), s # <<>>, NEW cut, OneLine(s, cut),
         NEW w \in Words(s, cut)
  PROVE  /\ Len(w) = Len(s) - 1
         /\ \A k \in 1..Len(w) : w[k] = s[k]
<1>p. PICK left \in Remains(s, cut, Trimmed(s, cut)) : SplitFrom(w, s, cut, left)
  BY WordsType
<1> DEFINE b == Trimmed(s, cut)
           S == Starts(b)
           v == split(s, cut, left)
<1>0. /\ torn = 0 /\ Whole(s, cut)
      /\ \A i \in 1..(Len(s) - 1) : s[i] # EOL
  BY DEF OneLine
<1>1. /\ Len(b) \in Nat /\ DOMAIN b = 1..Len(b)
      /\ S \in SUBSET (1..Len(b))
      /\ Len(v) = Cardinality(S)
      /\ \A k \in 1..Len(v) : v[k] = WordAt(cut, b, left, Nth(S, k))
  BY SplitType, LenProperties
<1>2. /\ Len(b) = Len(s) - 1 /\ Len(s) \in Nat
      /\ \A i \in 1..Len(b) : b[i] = s[i]
  <2>1. Len(s) \in Nat
    BY LenProperties
  <2>q. QED
    BY <1>0, <2>1, TrimmedType
<1>3. /\ Len(w) = Len(v)
      /\ \A k \in 1..Len(w) : w[k] = v[k]
  BY <1>0, <1>p DEF SplitFrom
<1>4. \A i \in 1..Len(b) : b[i] # EOL
  BY <1>0, <1>2
<1>5. S = 1..Len(b)
  BY <1>1, <1>4 DEF Starts, StartsWord
<1>6. \A i \in 1..Len(b) : WordAt(cut, b, left, i) = b[i]
  <2> TAKE i \in 1..Len(b)
  <2>1. ~Spoilt(s, cut, b, i)
    <3>1. b[Len(b)] # EOL
      BY <1>1, <1>4
    <3>q. QED
      BY <1>0, <3>1 DEF Spoilt
  <2>2. i \notin DOMAIN left
    BY <1>p, <2>1, RemainsType
  <2>3. ~Glued(cut, b, i)
    <3>1. /\ i > 1 => i - 1 \in 1..Len(b)
          /\ i < Len(b) => i + 1 \in 1..Len(b)
      BY <1>1
    <3>q. QED
      BY <1>4, <3>1 DEF Glued
  <2>q. QED
    BY <2>2, <2>3 DEF WordAt
<1>n. ASSUME NEW k \in Nat \ {0}, 1..k \subseteq S
      PROVE  Nth(S, k) = k
  <2> DEFINE m == Len(b)
  <2>1. m \in Nat /\ S \in SUBSET (1..m)
    BY <1>1
  <2> HIDE DEF m, S
  <2>q. QED
    BY <1>n, <2>1, NthFirst
<1> HIDE DEF b, S, v
<1>7. Cardinality(S) = Len(b)
  <2>0. Len(b) \in Int
    BY <1>1
  <2>1. Cardinality(1..Len(b)) = IF 1 > Len(b) THEN 0 ELSE Len(b) - 1 + 1
    BY <2>0, FS_Interval
  <2>q. QED
    BY <1>1, <1>5, <2>1
<1>8. ASSUME NEW k \in 1..Len(b)
      PROVE  v[k] = b[k]
  <2>1. 1..k \subseteq S
    BY <1>1, <1>5
  <2>2. Nth(S, k) = k
    BY <1>n, <2>1
  <2>q. QED
    BY <1>1, <1>6, <1>7, <2>2
<1>q. QED
  BY <1>1, <1>2, <1>3, <1>7, <1>8

-----------------------------------------------------------------------------
(* What one chunk leads to. *)

ReplyType == [at : Nat, kind : {"JOIN", "PONG", "command"}, arg : Vocabulary]

\* Replies none of which is to a command of the user.
Quiet(q) == q \in Seq(ReplyType) /\ \A i \in 1..Len(q) : q[i].kind # "command"

LEMMA OneReply ==
  ASSUME read \in Nat, NEW kind \in {"JOIN", "PONG", "command"}, NEW arg \in Vocabulary
  PROVE  /\ Reply(kind, arg) \in Seq(ReplyType)
         /\ Len(Reply(kind, arg)) = 1
         /\ Reply(kind, arg)[1] = [at |-> read + 1, kind |-> kind, arg |-> arg]
         /\ kind # "command" => Quiet(Reply(kind, arg))
<1> DEFINE r == [at |-> read + 1, kind |-> kind, arg |-> arg]
<1>1. r \in ReplyType /\ r.kind = kind
  BY DEF ReplyType
<1>2. Reply(kind, arg) = <<r>>
  BY DEF Reply
<1> HIDE DEF r
<1>3. <<r>> \in Seq(ReplyType) /\ Len(<<r>>) = 1 /\ <<r>>[1] = r
  BY <1>1
<1>4. kind # "command" => \A i \in 1..Len(<<r>>) : <<r>>[i].kind # "command"
  BY <1>1, <1>3
<1>q. QED
  BY <1>2, <1>3, <1>4 DEF Quiet, r

LEMMA NoReply == Quiet(<<>>)
<1>1. <<>> \in Seq(ReplyType) /\ Len(<<>>) = 0
  BY EmptySeq
<1>q. QED
  BY <1>1 DEF Quiet

LEMMA JoinIsQuiet ==
  ASSUME read \in Nat, NEW w, NEW r
  PROVE  Quiet(JoinReply(w, r))
<1>1. Quiet(Reply("JOIN", "#channel"))
  BY SomeWords, OneReply
<1>q. QED
  BY <1>1, NoReply DEF JoinReply

\* The answer to a PING has the word after the first one.
LEMMA PongIsQuiet ==
  ASSUME read \in Nat, NEW w \in Seq(Vocabulary), NEW r
  PROVE  /\ Quiet(PongReply(w, r))
         /\ \/ PongReply(w, r) = <<>>
            \/ /\ Has(w, "PING")
               /\ \E arg \in Vocabulary : PongReply(w, r) = Reply("PONG", arg)
         /\ Len(w) >= 2 /\ w[1] = "PING" => PongReply(w, r) = Reply("PONG", w[2])
<1> DEFINE First(i) == w[i] = "PING" /\ \A j \in 1..(i - 1) : w[j] # "PING"
           arg(i)   == IF i < Len(w) THEN w[i + 1] ELSE Junk
<1>0. /\ Len(w) \in Nat /\ DOMAIN w = 1..Len(w)
      /\ \A i \in 1..Len(w) : w[i] \in Vocabulary
  BY LenProperties
<1>1. CASE Has(w, "PING")
  <2> DEFINE S == {i \in DOMAIN w : w[i] = "PING"}
             m == Len(w)
  <2>1. PICK j \in S : TRUE
    BY <1>1 DEF Has
  <2>2. m \in Nat /\ S \in SUBSET (1..m)
    BY <1>0
  <2>3. \A i : i \in S <=> i \in DOMAIN w /\ w[i] = "PING"
    OBVIOUS
  <2> HIDE DEF S, m
  <2>4. \A i \in S : Nth(S, 1) \in S /\ Nth(S, 1) <= i
    BY <2>2, NthLeast
  <2>5. Nth(S, 1) \in DOMAIN w /\ First(Nth(S, 1))
    <3>0. \A i \in S : i \in Nat
      BY <2>2, PlacesFinite
    <3>1. Nth(S, 1) \in S /\ Nth(S, 1) \in Nat
      BY <2>1, <2>4, <3>0
    <3>2. ASSUME NEW i \in 1..(Nth(S, 1) - 1) PROVE w[i] # "PING"
      <4>1. i \in DOMAIN w /\ ~(Nth(S, 1) <= i)
        BY <1>0, <2>2, <3>1 DEF m
      <4>q. QED
        BY <2>3, <2>4, <4>1
    <3>q. QED
      BY <2>3, <3>1, <3>2
  <2> DEFINE f == CHOOSE i \in DOMAIN w : First(i)
  <2>6. f \in DOMAIN w /\ First(f)
    BY <2>5
  <2>7. PongReply(w, r) = Reply("PONG", arg(f))
    BY <1>1 DEF PongReply, Pings
  <2> HIDE DEF f
  <2>8. arg(f) \in Vocabulary
    BY <1>0, <2>6, SomeWords
  <2>9. Quiet(PongReply(w, r))
    <3> HIDE DEF arg
    <3>q. QED
      BY <2>7, <2>8, OneReply
  <2>10. ASSUME Len(w) >= 2, w[1] = "PING" PROVE f = 1
    <3>1. f \in Nat /\ f >= 1
      BY <1>0, <2>6
    <3>2. CASE f > 1
      <4>1. 1 \in 1..(f - 1)
        BY <3>1, <3>2
      <4>q. QED
        BY <2>6, <2>10, <4>1
    <3>q. QED
      BY <3>1, <3>2
  <2>11. ASSUME Len(w) >= 2, w[1] = "PING" PROVE arg(f) = w[2]
    BY <1>0, <2>10, <2>11
  <2>12. \E a \in Vocabulary : PongReply(w, r) = Reply("PONG", a)
    BY <2>7, <2>8
  <2>q. QED
    BY <1>1, <2>7, <2>9, <2>11, <2>12
<1>2. CASE ~Has(w, "PING")
  <2>1. PongReply(w, r) = <<>>
    BY <1>2 DEF PongReply
  <2>2. ~(Len(w) >= 2 /\ w[1] = "PING")
    BY <1>0, <1>2 DEF Has
  <2>q. QED
    BY <2>1, <2>2, NoReply
<1>q. QED
  BY <1>1, <1>2

LEMMA QuietTwice ==
  ASSUME NEW p, NEW q, Quiet(p), Quiet(q)
  PROVE  Quiet(p \o q)
<1>1. /\ p \in Seq(ReplyType) /\ q \in Seq(ReplyType)
      /\ \A i \in 1..Len(p) : p[i].kind # "command"
      /\ \A i \in 1..Len(q) : q[i].kind # "command"
      /\ Len(p) \in Nat /\ Len(q) \in Nat
  BY LenProperties DEF Quiet
<1>2. /\ p \o q \in Seq(ReplyType) /\ Len(p \o q) = Len(p) + Len(q)
      /\ \A i \in 1..(Len(p) + Len(q)) :
            (p \o q)[i] = IF i <= Len(p) THEN p[i] ELSE q[i - Len(p)]
  BY <1>1, ConcatProperties
<1>3. ASSUME NEW i \in 1..Len(p \o q) PROVE (p \o q)[i].kind # "command"
  <2>1. CASE i <= Len(p)
    BY <1>1, <1>2, <1>3, <2>1
  <2>2. CASE i > Len(p)
    <3>1. i - Len(p) \in 1..Len(q)
      BY <1>1, <1>2, <1>3, <2>2
    <3>2. (p \o q)[i] = q[i - Len(p)]
      BY <1>1, <1>2, <1>3, <2>2
    <3>q. QED
      BY <1>1, <3>1, <3>2
  <2>q. QED
    BY <1>1, <1>2, <2>1, <2>2
<1>q. QED
  BY <1>2, <1>3 DEF Quiet

Modes == {"main", "call", "wait", "ended", "crashed"}

LEMMA OutcomeType ==
  ASSUME mode \in Modes, browsing \in BOOLEAN, NEW c, NEW r, NEW o \in Outcomes(c, r)
  PROVE  o[1] \in Modes /\ o[2] \in BOOLEAN
<1>1. Outcomes(c, r) \subseteq Effects(c, r)
  BY DEF Outcomes
<1>2. Effects(c, r) \subseteq {<<mode, browsing>>, <<"ended", FALSE>>, <<"wait", FALSE>>,
                               <<"call", FALSE>>, <<mode, TRUE>>, <<mode, FALSE>>}
  BY DEF Effects
<1>3. \A m \in Modes : \A b \in BOOLEAN : <<m, b>>[1] \in Modes /\ <<m, b>>[2] \in BOOLEAN
  OBVIOUS
<1>4. \E m \in Modes : \E b \in BOOLEAN : o = <<m, b>>
  <2>1. "ended" \in Modes /\ "wait" \in Modes /\ "call" \in Modes
    BY DEF Modes
  <2>2. o \in {<<mode, browsing>>, <<"ended", FALSE>>, <<"wait", FALSE>>,
               <<"call", FALSE>>, <<mode, TRUE>>, <<mode, FALSE>>}
    BY <1>1, <1>2
  <2>q. QED
    BY <2>1, <2>2, Zenon
<1>q. QED
  BY <1>3, <1>4

\* What a chunk's words are answered: nothing to do with commands, and then the
\* command, if it is understood.
LEMMA HandleWords ==
  ASSUME InputTypeOK, NEW w \in Seq(Vocabulary), NEW r, Handle(w, r)
  PROVE  /\ mode' \in Modes /\ browsing' \in BOOLEAN /\ overread' \in BOOLEAN
         /\ ~overread' => ~overread
         /\ \E q : /\ Quiet(q)
                   /\ \/ replies' = replies \o q
                      \/ Understood(w) /\ replies' = (replies \o q) \o Reply("command", w[4])
<1> DEFINE jq == JoinReply(w, r)
           pq == PongReply(w, r)
<1>0. mode \in Modes /\ browsing \in BOOLEAN /\ overread \in BOOLEAN /\ read \in Nat
      /\ replies \in Seq(ReplyType)
  BY DEF InputTypeOK, Modes, ReplyType
<1>1. Quiet(jq) /\ Quiet(pq)
  BY <1>0, JoinIsQuiet, PongIsQuiet
<1>2. Quiet(jq \o pq)
  BY <1>1, QuietTwice
<1>3. (replies \o jq) \o pq = replies \o (jq \o pq)
  <2>1. jq \in Seq(ReplyType) /\ pq \in Seq(ReplyType)
    BY <1>1 DEF Quiet
  <2> HIDE DEF jq, pq
  <2>q. QED
    BY <1>0, <2>1, ConcatAssociative
<1>4. \A c : \A o \in Outcomes(c, r) : o[1] \in Modes /\ o[2] \in BOOLEAN
  BY <1>0, OutcomeType
<1>5. CASE /\ mode' = "ended" /\ browsing' = FALSE
           /\ replies' = replies \o jq
           /\ UNCHANGED overread
  BY <1>0, <1>1, <1>5 DEF Modes
<1>6. CASE /\ \/ UNCHANGED <<mode, browsing>>
              \/ mode' = "crashed" /\ UNCHANGED browsing
              \/ \E c \in Commands : \E o \in Outcomes(c, r) : Becomes(o)
           /\ replies' = (replies \o jq) \o pq
           /\ overread' = TRUE
  <2>1. mode' \in Modes /\ browsing' \in BOOLEAN
    BY <1>0, <1>4, <1>6 DEF Modes, Becomes
  <2>q. QED
    BY <1>2, <1>3, <1>6, <2>1
<1>7. CASE /\ Understood(w)
           /\ \E o \in Outcomes(w[4], r) : Becomes(o)
           /\ replies' = ((replies \o jq) \o pq) \o Reply("command", w[4])
           /\ UNCHANGED overread
  <2>1. mode' \in Modes /\ browsing' \in BOOLEAN
    BY <1>4, <1>7 DEF Becomes
  <2>q. QED
    BY <1>0, <1>2, <1>3, <1>7, <2>1
<1>8. CASE /\ replies' = (replies \o jq) \o pq
           /\ UNCHANGED <<mode, browsing, overread>>
  BY <1>0, <1>2, <1>3, <1>8
<1> HIDE DEF jq, pq
<1>q. QED
  BY <1>5, <1>6, <1>7, <1>8 DEF Handle, jq, pq

-----------------------------------------------------------------------------
(* The inductive invariant. *)

\* What was sent are complete lines, none of them empty.
CompleteLines ==
  /\ Len(sent) > 0 => sent[Len(sent)] = EOL
  /\ \A i \in 1..(Len(sent) - 1) : sent[i] = EOL => sent[i + 1] # EOL

\* The commands in v were read from what was sent, start at or before m, and are
\* in order; they are what was sent if only whole lines were read.
Executed(v, m, whole) ==
  /\ \A i \in DOMAIN v : v[i].kind = "command" =>
       /\ CommandRead(v[i].at, v[i].arg) /\ v[i].at <= m
       /\ whole => UserCommand(v[i].at) /\ v[i].arg = sent[v[i].at + 3]
  /\ \A i, j \in DOMAIN v : i < j /\ v[i].kind = "command" /\ v[j].kind = "command" =>
       v[i].at < v[j].at

LineAnswered(p) ==
  /\ sent[p] = "PING" => Answered(p, "PONG", sent[p + 1])
  /\ UserCommand(p) => Answered(p, "command", sent[p + 3])

\* After whole lines the next chunk begins with a line.
BetweenLines ==
  aligned /\ ~overread /\ Alive =>
    /\ torn = 0 /\ (read > 0 => sent[read] = EOL)
    /\ \A p \in LineStarts : p <= read => LineAnswered(p)

InputInv ==
  /\ InputTypeOK
  /\ CompleteLines
  /\ ~overread => Executed(replies, read, aligned)
  /\ BetweenLines

LEMMA ReplyFacts ==
  ASSUME InputTypeOK
  PROVE  /\ replies \in Seq(ReplyType) /\ Len(replies) \in Nat /\ DOMAIN replies = 1..Len(replies)
         /\ \A i \in 1..Len(replies) : replies[i] \in ReplyType /\ replies[i].at \in Nat
<1>1. replies \in Seq(ReplyType)
  BY DEF InputTypeOK, ReplyType
<1>2. Len(replies) \in Nat /\ DOMAIN replies = 1..Len(replies)
      /\ \A i \in 1..Len(replies) : replies[i] \in ReplyType
  BY <1>1, LenProperties
<1>3. \A r \in ReplyType : r.at \in Nat
  BY DEF ReplyType
<1>q. QED
  BY <1>1, <1>2, <1>3

\* Other replies change nothing about the commands executed.
LEMMA QuietKeeps ==
  ASSUME NEW v \in Seq(ReplyType), NEW q, Quiet(q), NEW m \in Nat, NEW whole, Executed(v, m, whole)
  PROVE  v \o q \in Seq(ReplyType) /\ Executed(v \o q, m, whole)
<1>1. /\ q \in Seq(ReplyType) /\ Len(v) \in Nat /\ Len(q) \in Nat
      /\ DOMAIN v = 1..Len(v)
      /\ \A i \in 1..Len(q) : q[i].kind # "command"
  BY LenProperties DEF Quiet
<1>2. /\ v \o q \in Seq(ReplyType) /\ DOMAIN (v \o q) = 1..(Len(v) + Len(q))
      /\ \A i \in 1..(Len(v) + Len(q)) :
            (v \o q)[i] = IF i <= Len(v) THEN v[i] ELSE q[i - Len(v)]
  BY <1>1, ConcatProperties, LenProperties
<1>3. \A i \in DOMAIN (v \o q) :
        (v \o q)[i].kind = "command" => i \in DOMAIN v /\ (v \o q)[i] = v[i]
  <2> TAKE i \in DOMAIN (v \o q)
  <2> HAVE (v \o q)[i].kind = "command"
  <2>1. CASE i <= Len(v)
    BY <1>1, <1>2, <2>1
  <2>2. CASE i > Len(v)
    <3>1. i - Len(v) \in 1..Len(q)
      BY <1>1, <1>2, <2>2
    <3>2. (v \o q)[i] = q[i - Len(v)]
      BY <1>1, <1>2, <2>2
    <3>q. QED
      BY <1>1, <3>1, <3>2
  <2>q. QED
    BY <1>1, <1>2, <2>1, <2>2
<1> DEFINE z == v \o q
<1>4. \A i \in DOMAIN z : z[i].kind = "command" => i \in DOMAIN v /\ z[i] = v[i]
  BY <1>3
<1> HIDE DEF z
<1>5. Executed(z, m, whole)
  BY <1>4 DEF Executed
<1>q. QED
  BY <1>2, <1>5 DEF z

\* Reading further, in lines or not, forgets none of them.
LEMMA ExecutedLater ==
  ASSUME NEW v \in Seq(ReplyType), NEW m \in Nat, NEW n \in Nat, m <= n,
         NEW whole \in BOOLEAN, NEW still \in BOOLEAN, still => whole,
         Executed(v, m, whole)
  PROVE  Executed(v, n, still)
<1>1. \A i \in DOMAIN v : v[i].at \in Nat
  <2>1. \A i \in DOMAIN v : v[i] \in ReplyType
    BY LenProperties
  <2>q. QED
    BY <2>1 DEF ReplyType
<1>q. QED
  BY <1>1 DEF Executed

\* A command read after all of them comes last.
LEMMA CommandAdds ==
  ASSUME NEW v \in Seq(ReplyType), read \in Nat, NEW n \in Nat, read < n,
         NEW arg \in Vocabulary, NEW whole \in BOOLEAN, Executed(v, read, whole),
         CommandRead(read + 1, arg),
         whole => UserCommand(read + 1) /\ arg = sent[read + 1 + 3]
  PROVE  /\ v \o Reply("command", arg) \in Seq(ReplyType)
         /\ Executed(v \o Reply("command", arg), n, whole)
<1> DEFINE r == Reply("command", arg)
           z == v \o r
<1>1. /\ r \in Seq(ReplyType) /\ Len(r) = 1
      /\ r[1] = [at |-> read + 1, kind |-> "command", arg |-> arg]
  BY OneReply
<1> HIDE DEF r
<1>2. Len(v) \in Nat /\ DOMAIN v = 1..Len(v) /\ \A i \in DOMAIN v : v[i] \in ReplyType
  BY LenProperties
<1>3. /\ z \in Seq(ReplyType) /\ DOMAIN z = 1..(Len(v) + 1)
      /\ \A i \in 1..(Len(v) + 1) : z[i] = IF i <= Len(v) THEN v[i] ELSE r[i - Len(v)]
  <2>1. /\ z \in Seq(ReplyType) /\ Len(z) = Len(v) + Len(r)
        /\ \A i \in 1..(Len(v) + Len(r)) : z[i] = IF i <= Len(v) THEN v[i] ELSE r[i - Len(v)]
    BY <1>1, ConcatProperties
  <2> HIDE DEF z
  <2>2. DOMAIN z = 1..Len(z)
    BY <2>1, LenProperties
  <2>q. QED
    BY <1>1, <2>1, <2>2
<1>4. /\ \A i \in 1..Len(v) : z[i] = v[i] /\ z[i].at \in Nat
      /\ z[Len(v) + 1].at = read + 1 /\ z[Len(v) + 1].arg = arg
  <2>1. \A i \in 1..Len(v) : i \in 1..(Len(v) + 1) /\ i <= Len(v)
    BY <1>2
  <2>2. Len(v) + 1 \in 1..(Len(v) + 1) /\ ~(Len(v) + 1 <= Len(v)) /\ Len(v) + 1 - Len(v) = 1
    BY <1>2
  <2>3. \A x \in ReplyType : x.at \in Nat
    BY DEF ReplyType
  <2>4. z[Len(v) + 1] = r[1]
    BY <1>3, <2>2
  <2>q. QED
    BY <1>1, <1>2, <1>3, <2>1, <2>3, <2>4
<1> HIDE DEF z
<1>5. ASSUME NEW i \in DOMAIN z, z[i].kind = "command"
      PROVE  /\ CommandRead(z[i].at, z[i].arg) /\ z[i].at <= n
             /\ whole => UserCommand(z[i].at) /\ z[i].arg = sent[z[i].at + 3]
  <2>1. CASE i \in 1..Len(v)
    BY <1>2, <1>4, <1>5, <2>1 DEF Executed
  <2>2. CASE i = Len(v) + 1
    BY <1>4, <2>2
  <2>q. QED
    BY <1>2, <1>3, <2>1, <2>2
<1>6. ASSUME NEW i \in DOMAIN z, NEW j \in DOMAIN z, i < j,
             z[i].kind = "command", z[j].kind = "command"
      PROVE  z[i].at < z[j].at
  <2>1. i \in 1..Len(v)
    BY <1>2, <1>3, <1>6
  <2>2. CASE j \in 1..Len(v)
    BY <1>2, <1>4, <1>6, <2>1, <2>2 DEF Executed
  <2>3. CASE j = Len(v) + 1
    BY <1>2, <1>4, <1>6, <2>1, <2>3 DEF Executed
  <2>q. QED
    BY <1>2, <1>3, <2>2, <2>3
<1>7. Executed(z, n, whole)
  BY <1>5, <1>6 DEF Executed
<1>q. QED
  BY <1>3, <1>7 DEF z, r

-----------------------------------------------------------------------------
(* Each step keeps it. *)

LEMMA SentAfter ==
  ASSUME sent \in Seq(Vocabulary), NEW l \in Lines, Send(l)
  PROVE  /\ Len(sent) \in Nat /\ Len(l) \in Nat /\ Len(l) >= 2
         /\ sent' \in Seq(Vocabulary) /\ Len(sent') = Len(sent) + Len(l) + 1
         /\ DOMAIN sent = 1..Len(sent) /\ DOMAIN sent' = 1..Len(sent')
         /\ \A i \in 1..Len(sent) : sent'[i] = sent[i]
         /\ \A i \in (Len(sent) + 1)..(Len(sent) + Len(l)) : sent'[i] # EOL
         /\ sent'[Len(sent) + Len(l) + 1] = EOL
<1> DEFINE e == <<EOL>>
           x == sent \o l
<1>1. /\ l \in Seq(STRING) /\ Len(l) >= 2 /\ Len(l) \in Nat /\ DOMAIN l = 1..Len(l)
      /\ \A i \in 1..Len(l) : l[i] # EOL
  BY LinesHaveWords, LenProperties
<1>2. l \in Seq(Vocabulary)
  <2>1. \A i \in 1..Len(l) : l[i] \in ToSet(l)
    BY <1>1 DEF ToSet
  <2>2. ToSet(l) \subseteq Vocabulary
    BY DEF Vocabulary
  <2>3. l = [i \in 1..Len(l) |-> l[i]]
    BY <1>1
  <2>4. l \in [1..Len(l) -> Vocabulary]
    BY <2>1, <2>2, <2>3
  <2>q. QED
    BY <1>1, <2>4
<1>3. e \in Seq(Vocabulary) /\ Len(e) = 1 /\ e[1] = EOL
  BY SomeWords
<1>4. sent' = x \o e
  BY DEF Send
<1> HIDE DEF e
<1>5. /\ x \in Seq(Vocabulary) /\ Len(x) = Len(sent) + Len(l)
      /\ \A i \in 1..(Len(sent) + Len(l)) :
            x[i] = IF i <= Len(sent) THEN sent[i] ELSE l[i - Len(sent)]
  BY <1>2, ConcatProperties
<1> HIDE DEF x
<1>6. /\ x \o e \in Seq(Vocabulary) /\ Len(x \o e) = Len(x) + Len(e)
      /\ \A i \in 1..(Len(x) + Len(e)) :
            (x \o e)[i] = IF i <= Len(x) THEN x[i] ELSE e[i - Len(x)]
  <2>1. x \in Seq(Vocabulary) /\ e \in Seq(Vocabulary)
    BY <1>3, <1>5
  <2>q. QED
    BY <2>1, ConcatProperties
<1>7. Len(sent) \in Nat /\ DOMAIN sent = 1..Len(sent)
  BY LenProperties
<1>8. /\ sent' \in Seq(Vocabulary) /\ Len(sent') = Len(sent) + Len(l) + 1
      /\ \A i \in 1..(Len(sent) + Len(l) + 1) :
            sent'[i] = IF i <= Len(sent) + Len(l) THEN x[i] ELSE e[i - (Len(sent) + Len(l))]
  BY <1>1, <1>3, <1>4, <1>5, <1>6, <1>7
<1>9. DOMAIN sent' = 1..Len(sent')
  BY <1>8, LenProperties
<1>10. \A i \in 1..Len(sent) : sent'[i] = sent[i]
  BY <1>1, <1>5, <1>7, <1>8
<1>11. \A i \in (Len(sent) + 1)..(Len(sent) + Len(l)) : sent'[i] # EOL
  <2> TAKE i \in (Len(sent) + 1)..(Len(sent) + Len(l))
  <2>1. i - Len(sent) \in 1..Len(l) /\ i \in 1..(Len(sent) + Len(l)) /\ ~(i <= Len(sent))
    BY <1>1, <1>7
  <2>2. sent'[i] = x[i]
    BY <1>1, <1>7, <1>8, <2>1
  <2>3. x[i] = l[i - Len(sent)]
    BY <1>5, <2>1
  <2>q. QED
    BY <1>1, <2>1, <2>2, <2>3
<1>12. sent'[Len(sent) + Len(l) + 1] = EOL
  <2>1. /\ Len(sent) + Len(l) + 1 \in 1..(Len(sent) + Len(l) + 1)
        /\ ~(Len(sent) + Len(l) + 1 <= Len(sent) + Len(l))
        /\ Len(sent) + Len(l) + 1 - (Len(sent) + Len(l)) = 1
    BY <1>1, <1>7
  <2>q. QED
    BY <1>3, <1>8, <2>1
<1>q. QED
  BY <1>1, <1>7, <1>8, <1>9, <1>10, <1>11, <1>12

LEMMA SendKeeps ==
  ASSUME InputInv, NEW l \in Lines, Send(l)
  PROVE  InputInv'
<1> DEFINE N == Len(sent)
           K == Len(l)
<1>0. InputTypeOK /\ CompleteLines /\ BetweenLines
      /\ (~overread => Executed(replies, read, aligned))
  BY DEF InputInv
<1>1. /\ N \in Nat /\ K \in Nat /\ K >= 2
      /\ sent' \in Seq(Vocabulary) /\ Len(sent') = N + K + 1
      /\ DOMAIN sent = 1..N /\ DOMAIN sent' = 1..(N + K + 1)
      /\ \A i \in 1..N : sent'[i] = sent[i]
      /\ \A i \in (N + 1)..(N + K) : sent'[i] # EOL
      /\ sent'[N + K + 1] = EOL
  <2>1. sent \in Seq(Vocabulary)
    BY <1>0 DEF InputTypeOK
  <2>q. QED
    BY <2>1, SentAfter
<1>2. UNCHANGED <<read, torn, mode, browsing, replies, overread, aligned>>
  BY DEF Send
<1>3. read \in 0..N
  BY <1>0 DEF InputTypeOK
<1> HIDE DEF N, K
<1>4. InputTypeOK'
  BY <1>0, <1>1, <1>2 DEF InputTypeOK, N
<1>5. CompleteLines'
  <2>1. sent'[Len(sent')] = EOL
    BY <1>1
  <2>2. ASSUME NEW i \in 1..(N + K), sent'[i] = EOL PROVE sent'[i + 1] # EOL
    <3>1. i \in 1..N
      BY <1>1, <2>2
    <3>2. CASE i = N
      BY <1>1, <3>2
    <3>3. CASE i < N
      <4>1. i \in 1..(N - 1) /\ i + 1 \in 1..N
        BY <1>1, <3>1, <3>3
      <4>2. sent[i] = EOL
        BY <1>1, <2>2, <3>1
      <4>3. sent[i + 1] # EOL
        BY <1>0, <4>1, <4>2 DEF CompleteLines, N
      <4>q. QED
        BY <1>1, <4>1, <4>3
    <3>q. QED
      BY <1>1, <3>1, <3>2, <3>3
  <2>3. N + K + 1 - 1 = N + K
    BY <1>1
  <2>q. QED
    BY <1>1, <2>1, <2>2, <2>3 DEF CompleteLines
<1>6. ~overread => Executed(replies, read, aligned)'
  <2>1. \A p : \A c : CommandRead(p, c) => CommandRead(p, c)' /\ sent'[p + 3] = sent[p + 3]
    <3> SUFFICES ASSUME NEW p, NEW c, CommandRead(p, c)
                 PROVE  CommandRead(p, c)' /\ sent'[p + 3] = sent[p + 3]
      OBVIOUS
    <3>1. p \in 1..N /\ p + 3 \in 1..N /\ p + 1 \in 1..N /\ p + 2 \in 1..N
      BY <1>1 DEF CommandRead
    <3>2. p \in DOMAIN sent' /\ p + 3 \in DOMAIN sent'
      BY <1>1, <3>1
    <3>3. sent'[p] = sent[p] /\ sent'[p + 3] = sent[p + 3]
          /\ sent'[p + 1] = sent[p + 1] /\ sent'[p + 2] = sent[p + 2]
      BY <1>1, <3>1
    <3>q. QED
      BY <3>2, <3>3 DEF CommandRead
  <2>2. \A p : UserCommand(p) => UserCommand(p)'
    <3> SUFFICES ASSUME NEW p, UserCommand(p) PROVE UserCommand(p)'
      OBVIOUS
    <3>1. /\ p \in 1..N /\ p + 3 \in 1..N /\ p + 1 \in 1..N /\ p + 2 \in 1..N
          /\ p > 1 => p - 1 \in 1..N
      BY <1>1 DEF UserCommand, LineStarts
    <3>2. p \in DOMAIN sent' /\ p + 3 \in DOMAIN sent'
      BY <1>1, <3>1
    <3>3. /\ sent'[p] = sent[p] /\ sent'[p + 3] = sent[p + 3]
          /\ sent'[p + 1] = sent[p + 1] /\ sent'[p + 2] = sent[p + 2]
          /\ p > 1 => sent'[p - 1] = sent[p - 1]
      BY <1>1, <3>1
    <3>q. QED
      BY <3>2, <3>3 DEF UserCommand, LineStarts
  <2>q. QED
    BY <1>0, <1>2, <2>1, <2>2 DEF Executed
<1>7. BetweenLines'
  <2> SUFFICES ASSUME aligned, ~overread, Alive
               PROVE  /\ torn' = 0 /\ (read' > 0 => sent'[read'] = EOL)
                      /\ \A p \in LineStarts' : p <= read' => LineAnswered(p)'
    BY <1>2 DEF BetweenLines, Alive
  <2>1. /\ torn = 0 /\ (read > 0 => sent[read] = EOL)
        /\ \A p \in LineStarts : p <= read => LineAnswered(p)
    BY <1>0 DEF BetweenLines
  <2>2. read > 0 => sent'[read] = EOL
    BY <1>1, <1>3, <2>1
  <2>3. ASSUME NEW p \in LineStarts', p <= read PROVE LineAnswered(p)'
    <3>1. p \in 1..N /\ p \in 1..read /\ sent[p] # EOL
      BY <1>1, <1>3, <2>3 DEF LineStarts
    <3>2. p \in LineStarts
      <4>1. p > 1 => p - 1 \in 1..N
        BY <1>1, <3>1
      <4>q. QED
        BY <1>1, <2>3, <3>1, <4>1 DEF LineStarts
    <3>3. LineAnswered(p)
      BY <2>1, <2>3, <3>2
    <3>4. p + 1 \in 1..read
      BY <1>3, <2>1, <3>1
    <3>5. sent'[p] = sent[p] /\ sent'[p + 1] = sent[p + 1]
      BY <1>1, <1>3, <3>1, <3>4
    <3>6. UserCommand(p)' => UserCommand(p) /\ sent'[p + 3] = sent[p + 3]
      <4> SUFFICES ASSUME UserCommand(p)' PROVE UserCommand(p) /\ sent'[p + 3] = sent[p + 3]
        OBVIOUS
      <4>1. /\ sent'[p] = correct_nick /\ sent'[p + 1] = "PRIVMSG"
            /\ sent'[p + 2] = nick /\ sent'[p + 3] # EOL
        BY DEF UserCommand
      <4>2. p + 1 < read
        <5>1. sent[p + 1] # EOL
          BY <3>5, <4>1, WordsApart
        <5>q. QED
          BY <1>3, <2>1, <3>4, <5>1
      <4>3. p + 2 \in 1..read /\ p + 2 < read
        <5>1. p + 2 \in 1..read
          BY <1>3, <3>1, <4>2
        <5>2. p + 2 \in 1..N
          BY <1>1, <1>3, <5>1
        <5>3. sent[p + 2] # EOL
          BY <1>1, <4>1, <5>2, WordsApart
        <5>q. QED
          BY <1>3, <2>1, <5>1, <5>3
      <4>4. p + 2 \in 1..N /\ p + 3 \in 1..N
        BY <1>1, <1>3, <3>1, <4>3
      <4>5. sent'[p + 2] = sent[p + 2] /\ sent'[p + 3] = sent[p + 3]
        BY <1>1, <4>4
      <4>q. QED
        BY <1>1, <3>1, <3>2, <3>5, <4>1, <4>4, <4>5 DEF UserCommand
    <3>q. QED
      BY <1>2, <3>3, <3>5, <3>6 DEF LineAnswered, Answered
  <2>q. QED
    BY <1>2, <2>1, <2>2, <2>3
<1>q. QED
  BY <1>2, <1>4, <1>5, <1>6, <1>7 DEF InputInv

\* Both parts are in the whole, the first one where it was.
LEMMA ConcatHolds ==
  ASSUME NEW R, NEW v \in Seq(R), NEW q \in Seq(R)
  PROVE  /\ v \o q \in Seq(R)
         /\ \A i \in DOMAIN v : i \in DOMAIN (v \o q) /\ (v \o q)[i] = v[i]
         /\ \A i \in DOMAIN q : \E j \in DOMAIN (v \o q) : (v \o q)[j] = q[i]
<1> DEFINE z == v \o q
<1>1. /\ DOMAIN v = 1..Len(v) /\ DOMAIN q = 1..Len(q)
      /\ Len(v) \in Nat /\ Len(q) \in Nat
  BY LenProperties
<1>2. /\ z \in Seq(R) /\ Len(z) = Len(v) + Len(q)
      /\ \A i \in 1..(Len(v) + Len(q)) : z[i] = IF i <= Len(v) THEN v[i] ELSE q[i - Len(v)]
  BY ConcatProperties
<1> HIDE DEF z
<1>3. DOMAIN z = 1..(Len(v) + Len(q))
  BY <1>2, LenProperties
<1>4. \A i \in DOMAIN v : i \in DOMAIN z /\ z[i] = v[i]
  BY <1>1, <1>2, <1>3
<1>5. ASSUME NEW i \in DOMAIN q PROVE \E j \in DOMAIN z : z[j] = q[i]
  <2>1. Len(v) + i \in DOMAIN z /\ ~(Len(v) + i <= Len(v)) /\ Len(v) + i - Len(v) = i
    BY <1>1, <1>3
  <2>2. z[Len(v) + i] = q[i]
    BY <1>2, <1>3, <2>1
  <2>q. QED
    BY <2>1, <2>2
<1>q. QED
  BY <1>2, <1>4, <1>5 DEF z

\* If no word was missing and the loop goes on, a PING has its answer, and a
\* command was executed.
LEMMA HandleAnswers ==
  ASSUME InputTypeOK, NEW w \in Seq(Vocabulary), NEW r, Handle(w, r), ~overread', Alive'
  PROVE  /\ \A i \in DOMAIN replies : i \in DOMAIN replies' /\ replies'[i] = replies[i]
         /\ w[1] = "PING" =>
              /\ Len(w) >= 2
              /\ \E j \in DOMAIN replies' :
                   replies'[j] = [at |-> read + 1, kind |-> "PONG", arg |-> w[2]]
         /\ Understood(w) =>
              \E j \in DOMAIN replies' :
                replies'[j] = [at |-> read + 1, kind |-> "command", arg |-> w[4]]
<1> DEFINE jq == JoinReply(w, r)
           pq == PongReply(w, r)
           cq == Reply("command", w[4])
           v  == replies \o jq
           z  == v \o pq
<1>0. read \in Nat /\ replies \in Seq(ReplyType)
  BY DEF InputTypeOK, ReplyType
<1>1. jq \in Seq(ReplyType) /\ pq \in Seq(ReplyType)
  BY <1>0, JoinIsQuiet, PongIsQuiet DEF Quiet
<1>2. /\ Len(w) \in Nat /\ DOMAIN w = 1..Len(w)
      /\ \A i \in 1..Len(w) : w[i] \in Vocabulary
  BY LenProperties
<1>3. Len(w) >= 2 /\ w[1] = "PING" =>
        1 \in DOMAIN pq /\ pq[1] = [at |-> read + 1, kind |-> "PONG", arg |-> w[2]]
  <2> SUFFICES ASSUME Len(w) >= 2, w[1] = "PING"
               PROVE  1 \in DOMAIN pq /\ pq[1] = [at |-> read + 1, kind |-> "PONG", arg |-> w[2]]
    OBVIOUS
  <2>1. pq = Reply("PONG", w[2]) /\ w[2] \in Vocabulary
    BY <1>0, <1>2, PongIsQuiet
  <2>2. /\ Reply("PONG", w[2]) \in Seq(ReplyType) /\ Len(Reply("PONG", w[2])) = 1
        /\ Reply("PONG", w[2])[1] = [at |-> read + 1, kind |-> "PONG", arg |-> w[2]]
    BY <1>0, <2>1, OneReply
  <2>3. 1 \in DOMAIN Reply("PONG", w[2])
    BY <2>2, LenProperties
  <2>q. QED
    BY <2>1, <2>2, <2>3
<1>4. Understood(w) =>
        /\ w[4] \in Vocabulary /\ cq \in Seq(ReplyType) /\ 1 \in DOMAIN cq
        /\ cq[1] = [at |-> read + 1, kind |-> "command", arg |-> w[4]]
  <2> SUFFICES ASSUME Understood(w)
               PROVE  /\ w[4] \in Vocabulary /\ cq \in Seq(ReplyType) /\ 1 \in DOMAIN cq
                      /\ cq[1] = [at |-> read + 1, kind |-> "command", arg |-> w[4]]
    OBVIOUS
  <2>1. w[4] \in Vocabulary
    BY <1>2 DEF Understood
  <2>2. /\ cq \in Seq(ReplyType) /\ Len(cq) = 1
        /\ cq[1] = [at |-> read + 1, kind |-> "command", arg |-> w[4]]
    BY <1>0, <2>1, OneReply
  <2> HIDE DEF cq
  <2>3. 1 \in DOMAIN cq
    BY <2>2, LenProperties
  <2>q. QED
    BY <2>1, <2>2, <2>3
<1>5. \/ /\ ~Overreads(w) /\ Understood(w) /\ ~Has(w, "PING")
         /\ replies' = z \o cq
      \/ /\ ~Overreads(w) /\ (~Understood(w) \/ Has(w, "PING"))
         /\ replies' = z
  <2>1. ~(mode' = "ended") /\ ~(overread' = TRUE)
    BY DEF Alive
  <2>q. QED
    BY <2>1 DEF Handle
<1>6. w[1] = "PING" => Len(w) >= 2
  BY <1>2, <1>5 DEF Overreads
<1> HIDE DEF jq, pq, cq
<1>7. v \in Seq(ReplyType) /\ \A i \in DOMAIN replies : i \in DOMAIN v /\ v[i] = replies[i]
  BY <1>0, <1>1, ConcatHolds
<1> HIDE DEF v
<1>8. /\ z \in Seq(ReplyType)
      /\ \A i \in DOMAIN v : i \in DOMAIN z /\ z[i] = v[i]
      /\ \A i \in DOMAIN pq : \E j \in DOMAIN z : z[j] = pq[i]
  BY <1>1, <1>7, ConcatHolds
<1> HIDE DEF z
<1>9. CASE /\ ~Overreads(w) /\ Understood(w) /\ ~Has(w, "PING")
           /\ replies' = z \o cq
  <2>1. /\ \A i \in DOMAIN z : i \in DOMAIN (z \o cq) /\ (z \o cq)[i] = z[i]
        /\ \A i \in DOMAIN cq : \E j \in DOMAIN (z \o cq) : (z \o cq)[j] = cq[i]
    <3>1. z \in Seq(ReplyType) /\ cq \in Seq(ReplyType)
      BY <1>4, <1>8, <1>9
    <3>q. QED
      BY <3>1, ConcatHolds
  <2>2. w[1] # "PING"
    BY <1>2, <1>6, <1>9 DEF Has
  <2>3. \A i \in DOMAIN replies : i \in DOMAIN (z \o cq) /\ (z \o cq)[i] = replies[i]
    BY <1>7, <1>8, <2>1, Zenon
  <2>4. \E j \in DOMAIN (z \o cq) :
          (z \o cq)[j] = [at |-> read + 1, kind |-> "command", arg |-> w[4]]
    <3>1. 1 \in DOMAIN cq /\ cq[1] = [at |-> read + 1, kind |-> "command", arg |-> w[4]]
      BY <1>4, <1>9
    <3>2. \E j \in DOMAIN (z \o cq) : (z \o cq)[j] = cq[1]
      BY <2>1, <3>1, Zenon
    <3>q. QED
      BY <3>1, <3>2, Zenon
  <2>5. replies' = z \o cq
    BY <1>9
  <2>q. QED
    BY <2>2, <2>3, <2>4, <2>5, Zenon
<1>10. CASE /\ ~Overreads(w) /\ (~Understood(w) \/ Has(w, "PING"))
            /\ replies' = z
  <2>1. ~Understood(w)
    BY <1>10 DEF Overreads, Understood
  <2>2. \A i \in DOMAIN replies : i \in DOMAIN z /\ z[i] = replies[i]
    BY <1>7, <1>8
  <2>3. w[1] = "PING" => \E j \in DOMAIN z : z[j] = pq[1]
    BY <1>3, <1>6, <1>8
  <2>4. w[1] = "PING" => pq[1] = [at |-> read + 1, kind |-> "PONG", arg |-> w[2]]
    BY <1>3, <1>6
  <2>5. w[1] = "PING" =>
          \E j \in DOMAIN z : z[j] = [at |-> read + 1, kind |-> "PONG", arg |-> w[2]]
    BY <2>3, <2>4, Zenon
  <2>6. replies' = z
    BY <1>10
  <2>q. QED
    BY <1>6, <2>1, <2>2, <2>5, <2>6, Zenon
<1>q. QED
  BY <1>5, <1>9, <1>10

LEMMA ReceiveKeeps ==
  ASSUME InputInv, Receive
  PROVE  InputInv'
<1>0. /\ InputTypeOK /\ CompleteLines /\ BetweenLines
      /\ ~overread => Executed(replies, read, aligned)
      /\ sent \in Seq(Vocabulary) /\ Len(sent) \in Nat /\ DOMAIN sent = 1..Len(sent)
      /\ read \in Nat /\ read <= Len(sent)
      /\ replies \in Seq(ReplyType)
  <2>1. /\ InputTypeOK /\ CompleteLines /\ BetweenLines
        /\ ~overread => Executed(replies, read, aligned)
    BY DEF InputInv
  <2>2. sent \in Seq(Vocabulary) /\ replies \in Seq(ReplyType) /\ read \in 0..Len(sent)
    BY <2>1 DEF InputTypeOK, ReplyType
  <2>3. Len(sent) \in Nat /\ DOMAIN sent = 1..Len(sent)
    BY <2>2, LenProperties
  <2>q. QED
    BY <2>1, <2>2, <2>3
<1>1. PICK k \in 0..(Len(sent) - read), cut \in BOOLEAN :
        /\ IF cut THEN k < Len(sent) - read ELSE k > 0
        /\ read' = read + k /\ torn' = Tears(k, cut) /\ torn' <= MaxTears
        /\ aligned' = (aligned /\ OneLine(Chunk(k, cut), cut))
        /\ \/ Throw
           \/ \E w \in Words(Chunk(k, cut), cut) : Handle(w, Reader)
  BY DEF Receive
<1>2. UNCHANGED sent /\ mode \in {"main", "call"}
  BY DEF Receive
<1> DEFINE s == Chunk(k, cut)
<1>3. /\ s \in Seq(Vocabulary) /\ s # <<>> /\ Len(s) \in Nat
      /\ Len(s) = k + (IF cut THEN 1 ELSE 0)
      /\ \A i \in 1..Len(s) : s[i] = sent[read + i]
  <2>1. Readable(k, cut)
    BY <1>1 DEF Readable
  <2>2. /\ s \in Seq(Vocabulary) /\ s # <<>>
        /\ Len(s) = k + (IF cut THEN 1 ELSE 0)
        /\ \A i \in 1..Len(s) : s[i] = sent[read + i]
    BY <1>0, <2>1, ChunkType
  <2>q. QED
    BY <2>2, LenProperties
<1>4. /\ aligned' = (aligned /\ OneLine(s, cut))
      /\ Throw \/ \E w \in Words(s, cut) : Handle(w, Reader)
  BY <1>1
<1> HIDE DEF s
<1>5. /\ k \in Nat /\ read' \in Nat /\ read' <= Len(sent) /\ read <= read'
      /\ read' = read + k /\ (torn' > 0 => read' < Len(sent)) /\ (~cut => torn' = 0)
      /\ torn' \in 0..MaxTears /\ aligned' \in BOOLEAN /\ (aligned' => aligned)
      /\ read + Len(s) <= Len(sent) /\ Len(s) <= k + 1
      /\ ~cut => Len(s) = k
  <2>1. aligned' \in BOOLEAN /\ (aligned' => aligned)
    BY <1>0, <1>4 DEF InputTypeOK
  <2>2. torn' \in 0..MaxTears /\ (torn' > 0 => cut) /\ (~cut => torn' = 0)
    <3>1. torn \in Nat /\ MaxTears \in Nat
      BY <1>0, SomeLines DEF InputTypeOK
    <3>q. QED
      BY <1>1, <3>1 DEF Tears
  <2>q. QED
    BY <1>0, <1>1, <1>3, <2>1, <2>2
<1>b. aligned \in BOOLEAN
  BY <1>0 DEF InputTypeOK
<1>6. CompleteLines'
  BY <1>0, <1>2 DEF CompleteLines
<1>7. CASE Throw
  <2>1. mode' = "crashed" /\ UNCHANGED <<browsing, replies, overread>>
    BY <1>7 DEF Throw
  <2>2. InputTypeOK'
    BY <1>0, <1>2, <1>5, <2>1 DEF InputTypeOK
  <2>3. ~overread' => Executed(replies, read', aligned')
    BY <1>0, <1>5, <1>b, <2>1, ExecutedLater
  <2>4. (~overread => Executed(replies, read, aligned))'
    BY <1>2, <2>1, <2>3 DEF Executed, CommandRead, UserCommand, LineStarts
  <2>5. BetweenLines'
    BY <2>1 DEF BetweenLines, Alive
  <2>q. QED
    BY <1>6, <2>2, <2>4, <2>5 DEF InputInv
<1>8. ASSUME NEW w \in Words(s, cut), Handle(w, Reader)
      PROVE  InputInv'
  <2>0. w \in Seq(Vocabulary) /\ Len(w) \in Nat /\ \A i \in 1..Len(w) : w[i] \in Vocabulary
    <3>1. w \in Seq(Vocabulary)
      BY <1>3, <1>8, WordsType
    <3>q. QED
      BY <3>1, LenProperties
  <2>1. /\ mode' \in Modes /\ browsing' \in BOOLEAN /\ overread' \in BOOLEAN
        /\ ~overread' => ~overread
        /\ \E q : /\ Quiet(q)
                  /\ \/ replies' = replies \o q
                     \/ Understood(w) /\ replies' = (replies \o q) \o Reply("command", w[4])
    BY <1>0, <1>8, <2>0, HandleWords
  <2>2. PICK q : /\ Quiet(q)
                 /\ \/ replies' = replies \o q
                    \/ Understood(w) /\ replies' = (replies \o q) \o Reply("command", w[4])
    BY <2>1
  <2>3. q \in Seq(ReplyType) /\ replies \o q \in Seq(ReplyType)
    BY <1>0, <2>2, ConcatHolds DEF Quiet
  <2>4. Understood(w) => /\ w[4] \in Vocabulary
                         /\ Reply("command", w[4]) \in Seq(ReplyType)
    <3>1. Understood(w) => w[4] \in Vocabulary
      BY <2>0 DEF Understood
    <3>q. QED
      BY <1>0, <3>1, OneReply
  <2>5. replies' \in Seq(ReplyType)
    <3>1. CASE replies' = replies \o q
      BY <2>3, <3>1
    <3>2. CASE Understood(w) /\ replies' = (replies \o q) \o Reply("command", w[4])
      BY <2>3, <2>4, <3>2, ConcatHolds
    <3>q. QED
      BY <2>2, <3>1, <3>2
  <2>6. InputTypeOK'
    BY <1>0, <1>2, <1>5, <2>1, <2>5 DEF InputTypeOK, ReplyType, Modes
  <2>7. ~overread' => Executed(replies', read', aligned')
    <3> SUFFICES ASSUME ~overread' PROVE Executed(replies', read', aligned')
      OBVIOUS
    <3>1. Executed(replies \o q, read, aligned')
      <4>1. Executed(replies, read, aligned')
        BY <1>0, <1>5, <1>b, <2>1, ExecutedLater
      <4>q. QED
        BY <1>0, <2>2, <4>1, QuietKeeps
    <3>2. CASE replies' = replies \o q
      <4> DEFINE z == replies \o q
                 m == read'
                 whole == aligned'
      <4>1. /\ z \in Seq(ReplyType) /\ read \in Nat /\ m \in Nat /\ read <= m
            /\ whole \in BOOLEAN /\ Executed(z, read, whole)
        BY <1>0, <1>5, <2>3, <3>1
      <4> HIDE DEF z, m, whole
      <4>2. Executed(z, m, whole)
        BY <4>1, ExecutedLater
      <4>q. QED
        BY <3>2, <4>2 DEF z, m, whole
    <3>3. CASE Understood(w) /\ replies' = (replies \o q) \o Reply("command", w[4])
      <4>1. \A i \in 1..(Len(s) - 1) : s[i] = EOL => s[i + 1] # EOL
        <5> TAKE i \in 1..(Len(s) - 1)
        <5>1. /\ i \in 1..Len(s) /\ i + 1 \in 1..Len(s)
              /\ read + i \in 1..(Len(sent) - 1) /\ read + (i + 1) = read + i + 1
          BY <1>0, <1>3, <1>5
        <5>q. QED
          BY <1>0, <1>3, <5>1 DEF CompleteLines
      <4>2. /\ Len(s) >= 4
            /\ ReadAs(s[1], correct_nick) /\ s[2] = "PRIVMSG" /\ s[3] = nick
            /\ ReadAs(s[4], w[4])
        BY <1>3, <1>8, <3>3, <4>1, CommandWords
      <4>3. /\ s[1] = sent[read + 1] /\ s[2] = sent[read + 2]
            /\ s[3] = sent[read + 3] /\ s[4] = sent[read + 4]
        BY <1>3, <4>2
      <4>4. /\ read + 1 \in 1..Len(sent) /\ read + 4 \in 1..Len(sent)
            /\ read + 1 + 1 = read + 2 /\ read + 1 + 2 = read + 3 /\ read + 1 + 3 = read + 4
            /\ read < read'
        BY <1>0, <1>3, <1>5, <4>2
      <4>5. CommandRead(read + 1, w[4])
        BY <1>0, <4>2, <4>3, <4>4 DEF CommandRead
      <4>6. aligned' => UserCommand(read + 1) /\ w[4] = sent[read + 1 + 3]
        <5> SUFFICES ASSUME aligned' PROVE UserCommand(read + 1) /\ w[4] = sent[read + 4]
          BY <4>4
        <5>1. aligned /\ OneLine(s, cut) /\ ~overread
          BY <1>4, <2>1
        <5>2. Alive
          BY <1>2 DEF Alive
        <5>3. read > 0 => sent[read] = EOL
          BY <1>0, <5>1, <5>2 DEF BetweenLines
        <5>4. w[1] = s[1] /\ w[4] = s[4] /\ w[1] = correct_nick
          <6>1. /\ Len(w) >= 4 /\ w[1] = correct_nick
                /\ \A i \in 1..Len(w) : w[i] = s[i]
            BY <1>3, <1>8, <3>3, <5>1, LineWords DEF Understood
          <6>q. QED
            BY <2>0, <6>1
        <5>5. read + 1 \in LineStarts
          <6>1. s[1] # EOL
            BY <4>2 DEF ReadAs
          <6>2. read + 1 > 1 => read > 0 /\ read + 1 - 1 = read
            BY <1>0
          <6>q. QED
            BY <1>0, <4>3, <4>4, <5>3, <6>1, <6>2 DEF LineStarts
        <5>q. QED
          BY <1>0, <4>2, <4>3, <4>4, <5>4, <5>5 DEF UserCommand, ReadAs
      <4>7. Executed((replies \o q) \o Reply("command", w[4]), read', aligned')
        BY <1>0, <1>5, <2>3, <2>4, <3>1, <3>3, <4>4, <4>5, <4>6, CommandAdds
      <4>q. QED
        BY <3>3, <4>7
    <3>q. QED
      BY <2>2, <3>2, <3>3
  <2>8. (~overread => Executed(replies, read, aligned))'
    BY <1>2, <2>7 DEF Executed, CommandRead, UserCommand, LineStarts
  <2>9. BetweenLines'
    <3> SUFFICES ASSUME aligned', ~overread', Alive'
                 PROVE  /\ torn' = 0 /\ (read' > 0 => sent'[read'] = EOL)
                        /\ \A p \in LineStarts' : p <= read' => LineAnswered(p)'
      BY DEF BetweenLines
    <3>1. aligned /\ OneLine(s, cut) /\ ~overread
      BY <1>4, <2>1
    <3>2. Alive
      BY <1>2 DEF Alive
    <3>3. /\ torn = 0 /\ (read > 0 => sent[read] = EOL)
          /\ \A p \in LineStarts : p <= read => LineAnswered(p)
      BY <1>0, <3>1, <3>2 DEF BetweenLines
    <3>4. /\ ~cut /\ s[Len(s)] = EOL
          /\ \A i \in 1..(Len(s) - 1) : s[i] # EOL
      BY <3>1 DEF OneLine, Whole, Last
    <3>5. Len(s) = k /\ k \in Nat \ {0} /\ sent[read + k] = EOL
      BY <1>1, <1>3, <1>5, <3>4
    <3>6. Len(w) = k - 1 /\ \A i \in 1..Len(w) : w[i] = sent[read + i]
      <4>1. Len(w) = Len(s) - 1 /\ \A i \in 1..Len(w) : w[i] = s[i]
        BY <1>3, <1>8, <3>1, LineWords
      <4>q. QED
        BY <1>3, <3>5, <4>1
    <3>7. /\ \A i \in DOMAIN replies : i \in DOMAIN replies' /\ replies'[i] = replies[i]
          /\ w[1] = "PING" =>
               /\ Len(w) >= 2
               /\ \E j \in DOMAIN replies' :
                    replies'[j] = [at |-> read + 1, kind |-> "PONG", arg |-> w[2]]
          /\ Understood(w) =>
               \E j \in DOMAIN replies' :
                 replies'[j] = [at |-> read + 1, kind |-> "command", arg |-> w[4]]
      BY <1>0, <1>8, <2>0, HandleAnswers
    <3>8. ASSUME NEW p \in LineStarts, p <= read PROVE LineAnswered(p)'
      <4>1. LineAnswered(p)
        BY <3>3, <3>8
      <4>2. ASSUME NEW kind, NEW arg, Answered(p, kind, arg)
            PROVE  \E i \in DOMAIN replies' :
                     replies'[i] = [at |-> p, kind |-> kind, arg |-> arg]
        BY <3>7, <4>2 DEF Answered
      <4>3. sent[p] = "PING" => Answered(p, "PONG", sent[p + 1])'
        <5>1. sent[p] = "PING" => \E i \in DOMAIN replies' :
                replies'[i] = [at |-> p, kind |-> "PONG", arg |-> sent[p + 1]]
          BY <4>1, <4>2 DEF LineAnswered
        <5>q. QED
          BY <1>2, <5>1 DEF Answered
      <4>4. UserCommand(p) => Answered(p, "command", sent[p + 3])'
        <5>1. UserCommand(p) => \E i \in DOMAIN replies' :
                replies'[i] = [at |-> p, kind |-> "command", arg |-> sent[p + 3]]
          BY <4>1, <4>2 DEF LineAnswered
        <5>q. QED
          BY <1>2, <5>1 DEF Answered
      <4>q. QED
        BY <1>2, <4>3, <4>4 DEF LineAnswered, Answered, UserCommand, LineStarts
    <3>9. ASSUME NEW p \in LineStarts, p > read, p <= read + k PROVE LineAnswered(p)'
      <4>1. p = read + 1
        <5>1. p \in 1..Len(sent) /\ (p > 1 => sent[p - 1] = EOL)
          BY <1>0, <3>9 DEF LineStarts
        <5>2. CASE p > read + 1
          <6>1. p - 1 - read \in 1..(Len(s) - 1) /\ p - 1 - read \in 1..Len(s)
                /\ read + (p - 1 - read) = p - 1 /\ p > 1
            BY <1>0, <3>5, <3>9, <5>1, <5>2
          <6>q. QED
            BY <1>3, <3>4, <5>1, <6>1
        <5>q. QED
          BY <1>0, <3>9, <5>1, <5>2
      <4>2. sent[p] # EOL /\ p \in DOMAIN sent
        BY <3>9 DEF LineStarts
      <4>3. Len(w) >= 1 /\ w[1] = sent[p]
        BY <1>0, <3>5, <3>6, <4>1, <4>2
      <4>4. sent[p] = "PING" => Answered(p, "PONG", sent[p + 1])'
        <5> SUFFICES ASSUME sent[p] = "PING" PROVE Answered(p, "PONG", sent[p + 1])'
          OBVIOUS
        <5>1. w[2] = sent[p + 1]
          <6>1. Len(w) >= 2 /\ read + 2 = p + 1
            BY <1>0, <3>7, <4>1, <4>3
          <6>q. QED
            BY <2>0, <3>6, <6>1
        <5>2. \E j \in DOMAIN replies' :
                replies'[j] = [at |-> p, kind |-> "PONG", arg |-> sent[p + 1]]
          BY <3>7, <4>1, <4>3, <5>1
        <5>q. QED
          BY <1>2, <5>2 DEF Answered
      <4>5. UserCommand(p) => Answered(p, "command", sent[p + 3])'
        <5> SUFFICES ASSUME UserCommand(p) PROVE Answered(p, "command", sent[p + 3])'
          OBVIOUS
        <5>1. /\ sent[read + 1] = correct_nick /\ sent[read + 2] = "PRIVMSG"
              /\ sent[read + 3] = nick /\ sent[read + 4] # EOL
              /\ p + 3 = read + 4
          <6>1. p + 1 = read + 2 /\ p + 2 = read + 3 /\ p + 3 = read + 4
            BY <1>0, <4>1
          <6>q. QED
            BY <4>1, <6>1 DEF UserCommand
        <5>2. k # 1 /\ k # 2 /\ k # 3 /\ k # 4
          BY <3>5, <5>1, WordsApart
        <5>3. Len(w) >= 4
          BY <3>5, <3>6, <5>2
        <5>4. /\ w[1] = sent[read + 1] /\ w[2] = sent[read + 2]
              /\ w[3] = sent[read + 3] /\ w[4] = sent[read + 4]
          BY <2>0, <3>6, <5>3
        <5>5. Understood(w)
          BY <5>1, <5>3, <5>4 DEF Understood
        <5>6. \E j \in DOMAIN replies' :
                replies'[j] = [at |-> p, kind |-> "command", arg |-> sent[p + 3]]
          BY <3>7, <4>1, <5>1, <5>4, <5>5
        <5>q. QED
          BY <1>2, <5>6 DEF Answered
      <4>q. QED
        BY <1>2, <4>4, <4>5 DEF LineAnswered, Answered, UserCommand, LineStarts
    <3>10. ASSUME NEW p \in LineStarts', p <= read' PROVE LineAnswered(p)'
      <4>1. p \in LineStarts /\ p \in Nat
        BY <1>0, <1>2, <3>10 DEF LineStarts
      <4>q. QED
        BY <1>0, <1>5, <3>8, <3>9, <3>10, <4>1
    <3>11. torn' = 0 /\ sent'[read'] = EOL
      BY <1>2, <1>5, <3>4, <3>5
    <3>q. QED
      BY <3>10, <3>11
  <2>q. QED
    BY <1>6, <2>6, <2>8, <2>9 DEF InputInv
<1>q. QED
  BY <1>4, <1>7, <1>8

\* The end of a call or of a wait moves the bot to another loop and nothing else.
LEMMA LoopChangeKeeps ==
  ASSUME InputInv, CallEnds \/ WaitOver
  PROVE  InputInv'
<1>1. /\ mode \in {"call", "wait"} /\ mode' = "main"
      /\ UNCHANGED <<sent, read, torn, browsing, replies, overread, aligned>>
  BY DEF CallEnds, WaitOver
<1>2. InputTypeOK'
  BY <1>1 DEF InputInv, InputTypeOK
<1>3. Alive
  BY <1>1 DEF Alive
<1>4. LineStarts' = LineStarts /\ \A p : LineAnswered(p) => LineAnswered(p)'
  BY <1>1 DEF LineStarts, LineAnswered, Answered, UserCommand
<1>5. BetweenLines'
  BY <1>1, <1>3, <1>4 DEF InputInv, BetweenLines
<1>6. CompleteLines' /\ (~overread => Executed(replies, read, aligned))'
  BY <1>1 DEF InputInv, CompleteLines, Executed, CommandRead, UserCommand, LineStarts
<1>q. QED
  BY <1>2, <1>5, <1>6 DEF InputInv

LEMMA InputUnchanged ==
  ASSUME InputInv, UNCHANGED inputVars
  PROVE  InputInv'
<1>1. UNCHANGED <<sent, read, torn, mode, browsing, replies, overread, aligned>>
  BY DEF inputVars
<1>2. InputTypeOK'
  BY <1>1 DEF InputInv, InputTypeOK
<1>3. LineStarts' = LineStarts /\ \A p : LineAnswered(p) => LineAnswered(p)'
  BY <1>1 DEF LineStarts, LineAnswered, Answered, UserCommand
<1>4. BetweenLines'
  BY <1>1, <1>3 DEF InputInv, BetweenLines, Alive
<1>5. CompleteLines' /\ (~overread => Executed(replies, read, aligned))'
  BY <1>1 DEF InputInv, CompleteLines, Executed, CommandRead, UserCommand, LineStarts
<1>q. QED
  BY <1>2, <1>4, <1>5 DEF InputInv

LEMMA InputStart == Init => InputInv
<1> SUFFICES ASSUME Init PROVE InputInv
  OBVIOUS
<1>1. /\ sent = <<>> /\ read = 0 /\ torn = 0
      /\ mode = "main" /\ browsing = FALSE
      /\ replies = <<>>
      /\ overread = FALSE /\ aligned = TRUE
  BY DEF Init, InputInit
<1>2. Len(sent) = 0 /\ DOMAIN sent = {} /\ DOMAIN replies = {}
  BY <1>1
<1>3. sent \in Seq(Vocabulary)
      /\ replies \in Seq([at : Nat, kind : {"JOIN", "PONG", "command"}, arg : Vocabulary])
  BY <1>1
<1>4. InputTypeOK
  <2>1. read \in 0..Len(sent) /\ (torn > 0 => read < Len(sent))
    BY <1>1, <1>2
  <2>2. /\ torn \in 0..MaxTears /\ browsing \in BOOLEAN /\ overread \in BOOLEAN /\ aligned \in BOOLEAN
        /\ mode \in {"main", "call", "wait", "ended", "crashed"}
    <3>1. 0 \in 0..MaxTears
      BY SomeLines
    <3>q. QED
      BY <1>1, <3>1
  <2>q. QED
    BY <1>3, <2>1, <2>2, Zenon DEF InputTypeOK
<1>5. CompleteLines /\ Executed(replies, read, aligned)
  BY <1>2 DEF CompleteLines, Executed
<1>6. BetweenLines
  BY <1>1, <1>2 DEF BetweenLines, LineStarts
<1>q. QED
  BY <1>4, <1>5, <1>6 DEF InputInv

LEMMA InputStep == InputInv /\ [Next]_vars => InputInv'
<1> SUFFICES ASSUME InputInv, [Next]_vars PROVE InputInv'
  OBVIOUS
<1>1. CASE UNCHANGED inputVars
  BY <1>1, InputUnchanged
<1>2. CASE Receive
  BY <1>2, ReceiveKeeps
<1>3. CASE CallEnds \/ WaitOver
  BY <1>3, LoopChangeKeeps
<1>4. CASE \E l \in Lines : Send(l)
  BY <1>4, SendKeeps
<1>5. UNCHANGED inputVars \/ Receive \/ CallEnds \/ WaitOver \/ (\E l \in Lines : Send(l))
  BY DEF Next, vars, Turn, IdleTurn, WaitTurn, LoopOver
<1>q. QED
  BY <1>1, <1>2, <1>3, <1>4, <1>5

\* Whatever the lines, their parts and recv's cuts, as long as the code uses no
\* word that is not there: what it executes was read from four words of a line,
\* each line's once and in the order sent, with the name and the command as the
\* cuts left them; and while every recv returns one line, the user sent it.
THEOREM CommandsAreExecutedOnce == Spec => []CommandsOnceInOrder
<1>1. InputInv => CommandsOnceInOrder
  BY DEF InputInv, Executed, CommandsOnceInOrder
<1>q. QED
  BY <1>1, InputStart, InputStep, PTL DEF Spec

\* While every recv returns one line, each PING read has its PONG and each
\* command of the user was executed.
THEOREM WholeLinesAreAnswered == Spec => []WholeLinesAnswered
<1>1. InputInv => WholeLinesAnswered
  BY DEF InputInv, BetweenLines, LineAnswered, WholeLinesAnswered
<1>q. QED
  BY <1>1, InputStart, InputStep, PTL DEF Spec

-----------------------------------------------------------------------------
(* Each PONG is earned. *)

\* As PongsAnswerPings says it, of the replies v to the first m words, and of
\* whether only whole lines were read.
AnswersPing(v, i, p, m) ==
  /\ p <= m /\ sent[p] = "PING"
  /\ \A j \in DOMAIN v : i < j /\ v[j].kind = "PONG" => p < v[j].at

AnswersPart(v, i, p, whole) ==
  /\ ~whole /\ "PING" \in PartsOf(sent[p])
  /\ \A j \in DOMAIN v : i < j /\ v[j].kind = "PONG" => p <= v[j].at

Earned(v, m, whole) ==
  \A i \in DOMAIN v : v[i].kind = "PONG" =>
    \E p \in DOMAIN sent \cap (v[i].at..(m + 1)) : AnswersPing(v, i, p, m) \/ AnswersPart(v, i, p, whole)

\* A PING among the words is one of those that recv returned whole, or a part of
\* one that was cut.
LEMMA PingReceived ==
  ASSUME NEW s \in Seq(Vocabulary), s # <<>>, NEW k \in Nat, NEW cut \in BOOLEAN,
         Len(s) = k + (IF cut THEN 1 ELSE 0),
         NEW w \in Words(s, cut), Has(w, "PING")
  PROVE  \E i \in 1..Len(s) : \/ i <= k /\ s[i] = "PING"
                              \/ ~OneLine(s, cut) /\ "PING" \in PartsOf(s[i])
<1>0. PICK left \in Remains(s, cut, Trimmed(s, cut)) : SplitFrom(w, s, cut, left)
  BY WordsType
<1> DEFINE b == Trimmed(s, cut)
           v == split(s, cut, left)
<1>2. /\ Len(b) \in Nat /\ Starts(b) \in SUBSET (1..Len(b))
      /\ Len(v) = Cardinality(Starts(b)) /\ Len(v) \in Nat
      /\ \A h \in 1..Len(v) : v[h] = WordAt(cut, b, left, Nth(Starts(b), h))
  BY SplitType, LenProperties
<1>1. /\ w \in Seq(Vocabulary) /\ Len(w) \in Nat /\ DOMAIN w = 1..Len(w)
      /\ Len(w) <= Len(v) /\ \A h \in 1..Len(w) : w[h] = v[h]
  <2>1. w \in Seq(Vocabulary)
    BY WordsType
  <2>q. QED
    BY <1>0, <2>1, LenProperties DEF SplitFrom
<1>3. PICK h \in 1..Len(w) : w[h] = "PING"
  BY <1>1 DEF Has
<1>4. h \in 1..Len(v) /\ v[h] = "PING"
  BY <1>1, <1>2, <1>3
<1>5. Nth(Starts(b), h) \in 1..Len(b)
  <2> DEFINE m == Len(b)
             S == Starts(b)
  <2>1. m \in Nat /\ S \in SUBSET (1..m) /\ h \in 1..Cardinality(S)
    BY <1>2, <1>4
  <2> HIDE DEF m, S
  <2>2. Nth(S, h) \in 1..m
    BY <2>1, NthType
  <2>q. QED
    BY <2>2 DEF m, S
<1>5s. Nth(Starts(b), h) \in Starts(b)
  <2> DEFINE m == Len(b)
             S == Starts(b)
  <2>1. m \in Nat /\ S \in SUBSET (1..m) /\ h \in 1..Cardinality(S)
    BY <1>2, <1>4
  <2> HIDE DEF m, S
  <2>2. Nth(S, h) \in S
    BY <2>1, NthType
  <2>q. QED
    BY <2>2 DEF m, S
<1> DEFINE i == Nth(Starts(b), h)
<1>6. WordAt(cut, b, left, i) = "PING"
  BY <1>2, <1>4
<1>7. i \in DOMAIN b /\ StartsWord(b, i)
  BY <1>5s DEF Starts
<1>8. /\ i \in 1..Len(b)
      /\ Len(b) = IF Whole(s, cut) THEN Len(s) - 1 ELSE Len(s)
      /\ \A x \in 1..Len(b) : b[x] = s[x]
  BY <1>5, TrimmedType
<1>9. /\ \A x : x \in DOMAIN left <=> x \in DOMAIN b /\ Spoilt(s, cut, b, x)
      /\ \A x \in DOMAIN left : left[x] \in PartsOf(b[x])
  BY RemainsType
<1>10. ~Glued(cut, b, i)
  BY <1>6, WordsApart DEF WordAt
<1> HIDE DEF i, b
<1>11. CASE i \in DOMAIN left
  <2>1. "PING" \in PartsOf(b[i])
    BY <1>6, <1>9, <1>10, <1>11 DEF WordAt
  <2>2. Spoilt(s, cut, b, i)
    BY <1>9, <1>11
  <2>3. ~OneLine(s, cut)
    <3> SUFFICES ASSUME OneLine(s, cut) PROVE FALSE
      OBVIOUS
    <3>1. torn = 0 /\ Whole(s, cut) /\ \A x \in 1..(Len(s) - 1) : s[x] # EOL
      BY DEF OneLine
    <3>2. b[Len(b)] # EOL
      BY <1>2, <1>8, <3>1
    <3>q. QED
      BY <2>2, <3>1, <3>2 DEF Spoilt
  <2>4. i \in 1..Len(s) /\ b[i] = s[i]
    BY <1>2, <1>8
  <2>q. QED
    BY <2>1, <2>3, <2>4
<1>12. CASE i \notin DOMAIN left
  <2>1. b[i] = "PING"
    BY <1>6, <1>10, <1>12 DEF WordAt
  <2>2. ~Spoilt(s, cut, b, i)
    BY <1>7, <1>9, <1>12
  <2>3. i = Len(b) => Whole(s, cut)
    BY <1>7, <1>10, <2>2 DEF Spoilt
  <2>4. Whole(s, cut) => ~cut
    BY DEF Whole
  <2>5. i \in 1..k /\ i \in 1..Len(s)
    BY <1>2, <1>8, <2>3, <2>4
  <2>q. QED
    BY <1>8, <2>1, <2>5
<1>q. QED
  BY <1>11, <1>12

\* One reply more.
LEMMA ReplyAdds ==
  ASSUME read \in Nat, NEW v \in Seq(ReplyType),
         NEW kind \in {"JOIN", "PONG", "command"}, NEW arg \in Vocabulary
  PROVE  LET z == v \o Reply(kind, arg) IN
         /\ z \in Seq(ReplyType) /\ Len(v) \in Nat
         /\ DOMAIN v = 1..Len(v) /\ DOMAIN z = 1..(Len(v) + 1)
         /\ \A i \in 1..Len(v) : z[i] = v[i] /\ v[i].at \in Nat
         /\ z[Len(v) + 1].at = read + 1 /\ z[Len(v) + 1].kind = kind
<1> DEFINE r == Reply(kind, arg)
           z == v \o r
<1>1. /\ r \in Seq(ReplyType) /\ Len(r) = 1
      /\ r[1] = [at |-> read + 1, kind |-> kind, arg |-> arg]
  BY OneReply
<1> HIDE DEF r
<1>2. /\ Len(v) \in Nat /\ DOMAIN v = 1..Len(v)
      /\ \A i \in 1..Len(v) : v[i] \in ReplyType
  BY LenProperties
<1>3. /\ z \in Seq(ReplyType) /\ Len(z) = Len(v) + 1
      /\ \A i \in 1..(Len(v) + 1) : z[i] = IF i <= Len(v) THEN v[i] ELSE r[i - Len(v)]
  <2>1. /\ z \in Seq(ReplyType) /\ Len(z) = Len(v) + Len(r)
        /\ \A i \in 1..(Len(v) + Len(r)) : z[i] = IF i <= Len(v) THEN v[i] ELSE r[i - Len(v)]
    BY <1>1, ConcatProperties
  <2> HIDE DEF z
  <2>q. QED
    BY <1>1, <2>1
<1> HIDE DEF z
<1>4. DOMAIN z = 1..(Len(v) + 1)
  BY <1>3, LenProperties
<1>5. \A i \in 1..Len(v) : i \in 1..(Len(v) + 1) /\ i <= Len(v)
  BY <1>2
<1>6. Len(v) + 1 \in 1..(Len(v) + 1) /\ ~(Len(v) + 1 <= Len(v)) /\ Len(v) + 1 - Len(v) = 1
  BY <1>2
<1>7. z[Len(v) + 1] = r[1]
  BY <1>3, <1>6
<1>8. \A x \in ReplyType : x.at \in Nat
  BY DEF ReplyType
<1>9. \A i \in 1..Len(v) : z[i] = v[i] /\ v[i].at \in Nat
  BY <1>2, <1>3, <1>5, <1>8
<1>10. z[Len(v) + 1].at = read + 1 /\ z[Len(v) + 1].kind = kind
  BY <1>1, <1>7
<1>q. QED
  BY <1>2, <1>3, <1>4, <1>9, <1>10 DEF z, r

LEMMA EarnedLater ==
  ASSUME NEW v \in Seq(ReplyType), NEW m \in Nat, NEW n \in Nat, m <= n,
         NEW whole \in BOOLEAN, NEW still \in BOOLEAN, still => whole,
         Earned(v, m, whole)
  PROVE  Earned(v, n, still)
<1> SUFFICES ASSUME NEW i \in DOMAIN v, v[i].kind = "PONG"
             PROVE  \E p \in DOMAIN sent \cap (v[i].at..(n + 1)) :
                      AnswersPing(v, i, p, n) \/ AnswersPart(v, i, p, still)
  BY DEF Earned
<1>1. v[i].at \in Nat
  <2>1. v[i] \in ReplyType
    BY LenProperties
  <2>q. QED
    BY <2>1 DEF ReplyType
<1>2. PICK p \in DOMAIN sent \cap (v[i].at..(m + 1)) : AnswersPing(v, i, p, m) \/ AnswersPart(v, i, p, whole)
  BY DEF Earned
<1>3. p \in DOMAIN sent \cap (v[i].at..(n + 1))
  BY <1>1
<1>4. AnswersPing(v, i, p, m) => AnswersPing(v, i, p, n)
  BY <1>1 DEF AnswersPing
<1>5. AnswersPart(v, i, p, whole) => AnswersPart(v, i, p, still)
  BY DEF AnswersPart
<1>q. QED
  BY <1>2, <1>3, <1>4, <1>5

\* A reply of another kind changes nothing.
LEMMA OtherReplyKeeps ==
  ASSUME read \in Nat, NEW v \in Seq(ReplyType), NEW m \in Nat, NEW whole, Earned(v, m, whole),
         NEW kind \in {"JOIN", "command"}, NEW arg \in Vocabulary
  PROVE  v \o Reply(kind, arg) \in Seq(ReplyType) /\ Earned(v \o Reply(kind, arg), m, whole)
<1> DEFINE z == v \o Reply(kind, arg)
<1>1. /\ z \in Seq(ReplyType) /\ Len(v) \in Nat
      /\ DOMAIN v = 1..Len(v) /\ DOMAIN z = 1..(Len(v) + 1)
      /\ \A i \in 1..Len(v) : z[i] = v[i]
      /\ z[Len(v) + 1].kind = kind
  BY ReplyAdds
<1>2. kind # "PONG"
  OBVIOUS
<1> HIDE DEF z
<1>3. \A i \in DOMAIN z : z[i].kind = "PONG" => i \in DOMAIN v /\ z[i] = v[i]
  BY <1>1, <1>2
<1>4. Earned(z, m, whole)
  BY <1>3 DEF Earned, AnswersPing, AnswersPart
<1>q. QED
  BY <1>1, <1>4 DEF z

\* What the chunk just read has to answer: one of its words is a PING, or a part
\* of it is.
Asks(p, n, whole) ==
  /\ p \in DOMAIN sent \cap ((read + 1)..(n + 1))
  /\ \/ p <= n /\ sent[p] = "PING"
     \/ ~whole /\ "PING" \in PartsOf(sent[p])

\* A PONG to it comes after all the others.
LEMMA PongAdds ==
  ASSUME read \in Nat, NEW v \in Seq(ReplyType), NEW whole, Earned(v, read, whole),
         NEW n \in Nat, read <= n, NEW p, Asks(p, n, whole), NEW arg \in Vocabulary
  PROVE  /\ v \o Reply("PONG", arg) \in Seq(ReplyType)
         /\ Earned(v \o Reply("PONG", arg), n, whole)
<1> DEFINE z == v \o Reply("PONG", arg)
           N == Len(v)
<1>1. /\ z \in Seq(ReplyType) /\ N \in Nat
      /\ DOMAIN v = 1..N /\ DOMAIN z = 1..(N + 1)
      /\ \A i \in 1..N : z[i] = v[i] /\ v[i].at \in Nat
      /\ z[N + 1].at = read + 1
  BY ReplyAdds
<1> HIDE DEF z, N
<1>2. ASSUME NEW i \in 1..N, z[i].kind = "PONG"
      PROVE  \E o \in DOMAIN sent \cap (z[i].at..(n + 1)) : AnswersPing(z, i, o, n) \/ AnswersPart(z, i, o, whole)
  <2>1. i \in DOMAIN v /\ v[i].kind = "PONG" /\ v[i].at \in Nat /\ z[i] = v[i]
    BY <1>1, <1>2
  <2>2. PICK o \in DOMAIN sent \cap (v[i].at..(read + 1)) : AnswersPing(v, i, o, read) \/ AnswersPart(v, i, o, whole)
    BY <2>1 DEF Earned
  <2>3. o \in DOMAIN sent \cap (z[i].at..(n + 1)) /\ o \in Nat /\ o <= read + 1
    BY <1>1, <2>1, <2>2
  <2>4. CASE AnswersPing(v, i, o, read)
    <3>1. /\ o <= read /\ o <= n /\ sent[o] = "PING"
          /\ \A j \in DOMAIN v : i < j /\ v[j].kind = "PONG" => o < v[j].at
      BY <2>3, <2>4 DEF AnswersPing
    <3>2. ASSUME NEW j \in DOMAIN z, i < j, z[j].kind = "PONG" PROVE o < z[j].at
      <4>0. j = N + 1 \/ j \in 1..N
        BY <1>1
      <4>1. CASE j = N + 1
        BY <1>1, <2>3, <3>1, <4>1
      <4>2. CASE j \in 1..N
        <5>1. j \in DOMAIN v /\ z[j] = v[j]
          BY <1>1, <4>2
        <5>2. i < j /\ v[j].kind = "PONG"
          BY <3>2, <5>1
        <5>3. o < v[j].at
          BY <3>1, <5>1, <5>2
        <5>4. v[j].at = z[j].at
          BY <5>1, Zenon
        <5>q. QED
          BY <5>3, <5>4, Zenon
      <4>q. QED
        BY <4>0, <4>1, <4>2
    <3>3. AnswersPing(z, i, o, n)
      BY <3>1, <3>2 DEF AnswersPing
    <3>q. QED
      BY <2>3, <3>3
  <2>5. CASE AnswersPart(v, i, o, whole)
    <3>1. \A j \in DOMAIN v : i < j /\ v[j].kind = "PONG" => o <= v[j].at
      BY <2>5 DEF AnswersPart
    <3>2. ASSUME NEW j \in DOMAIN z, i < j, z[j].kind = "PONG" PROVE o <= z[j].at
      <4>0. j = N + 1 \/ j \in 1..N
        BY <1>1
      <4>1. CASE j = N + 1
        BY <1>1, <2>3, <4>1
      <4>2. CASE j \in 1..N
        <5>1. j \in DOMAIN v /\ z[j] = v[j]
          BY <1>1, <4>2
        <5>2. i < j /\ v[j].kind = "PONG"
          BY <3>2, <5>1
        <5>3. o <= v[j].at
          BY <3>1, <5>1, <5>2
        <5>4. v[j].at = z[j].at
          BY <5>1, Zenon
        <5>q. QED
          BY <5>3, <5>4, Zenon
      <4>q. QED
        BY <4>0, <4>1, <4>2
    <3>3. AnswersPart(z, i, o, whole)
      BY <2>5, <3>2 DEF AnswersPart
    <3>q. QED
      BY <2>3, <3>3
  <2>q. QED
    BY <2>2, <2>4, <2>5
<1>3. \E o \in DOMAIN sent \cap (z[N + 1].at..(n + 1)) :
        AnswersPing(z, N + 1, o, n) \/ AnswersPart(z, N + 1, o, whole)
  <2>1. \A j \in DOMAIN z : ~(N + 1 < j)
    BY <1>1
  <2>2. p \in DOMAIN sent \cap (z[N + 1].at..(n + 1))
    BY <1>1 DEF Asks
  <2>3. AnswersPing(z, N + 1, p, n) \/ AnswersPart(z, N + 1, p, whole)
    BY <2>1 DEF Asks, AnswersPing, AnswersPart
  <2>q. QED
    BY <2>2, <2>3
<1>4. Earned(z, n, whole)
  <2>1. \A i \in DOMAIN z : i \in 1..N \/ i = N + 1
    BY <1>1
  <2>q. QED
    BY <1>2, <1>3, <2>1 DEF Earned
<1>q. QED
  BY <1>1, <1>4 DEF z

\* What a chunk's words are answered, where every PING among them is in the chunk,
\* or a part of one of its words.
LEMMA HandleEarns ==
  ASSUME InputTypeOK, NEW w \in Seq(Vocabulary), NEW r, Handle(w, r),
         NEW n \in Nat, read <= n, NEW whole \in BOOLEAN, Earned(replies, read, whole),
         Has(w, "PING") => \E p : Asks(p, n, whole)
  PROVE  Earned(replies', n, whole)
<1> DEFINE v == replies \o JoinReply(w, r)
           z == v \o PongReply(w, r)
<1>0. read \in Nat /\ replies \in Seq(ReplyType)
  BY DEF InputTypeOK, ReplyType
<1>1. v \in Seq(ReplyType) /\ Earned(v, read, whole)
  <2>1. CASE JoinReply(w, r) = <<>>
    <3>1. v = replies
      BY <1>0, <2>1
    <3>q. QED
      BY <1>0, <3>1
  <2>2. CASE JoinReply(w, r) = Reply("JOIN", "#channel")
    BY <1>0, <2>2, SomeWords, OtherReplyKeeps
  <2>q. QED
    BY <2>1, <2>2 DEF JoinReply
<1>2. PongReply(w, r) # <<>> =>
        /\ Has(w, "PING")
        /\ \E arg \in Vocabulary : PongReply(w, r) = Reply("PONG", arg)
  BY <1>0, PongIsQuiet
<1> HIDE DEF v
<1>3. z \in Seq(ReplyType) /\ Earned(z, n, whole)
  <2>1. CASE PongReply(w, r) = <<>>
    <3>1. z = v
      BY <1>1, <2>1
    <3>q. QED
      BY <1>0, <1>1, <3>1, EarnedLater
  <2>2. CASE PongReply(w, r) # <<>>
    <3>1. PICK arg \in Vocabulary : PongReply(w, r) = Reply("PONG", arg)
      BY <1>2, <2>2
    <3>2. PICK p : Asks(p, n, whole)
      BY <1>2, <2>2
    <3>3. /\ v \o Reply("PONG", arg) \in Seq(ReplyType)
          /\ Earned(v \o Reply("PONG", arg), n, whole)
      BY <1>0, <1>1, <3>2, PongAdds
    <3>q. QED
      BY <3>1, <3>3
  <2>q. QED
    BY <2>1, <2>2
<1>4. \/ replies' = v
      \/ replies' = z
      \/ Understood(w) /\ replies' = z \o Reply("command", w[4])
  BY DEF Handle, v
<1> HIDE DEF z
<1>5. CASE replies' = v
  BY <1>0, <1>1, <1>5, EarnedLater
<1>6. CASE Understood(w) /\ replies' = z \o Reply("command", w[4])
  <2>1. w[4] \in Vocabulary
    <3>1. Len(w) \in Nat /\ \A i \in 1..Len(w) : w[i] \in Vocabulary
      BY LenProperties
    <3>q. QED
      BY <1>6, <3>1 DEF Understood
  <2>2. Earned(z \o Reply("command", w[4]), n, whole)
    BY <1>0, <1>3, <2>1, OtherReplyKeeps
  <2>q. QED
    BY <1>6, <2>2
<1>q. QED
  BY <1>3, <1>4, <1>5, <1>6

LEMMA ReceiveEarns ==
  ASSUME InputTypeOK, PongsAnswerPings, Receive
  PROVE  PongsAnswerPings'
<1>0. /\ sent \in Seq(Vocabulary) /\ Len(sent) \in Nat /\ read \in Nat /\ read <= Len(sent)
      /\ replies \in Seq(ReplyType) /\ Earned(replies, read, aligned)
      /\ aligned \in BOOLEAN
  <2>1. sent \in Seq(Vocabulary) /\ read \in 0..Len(sent) /\ replies \in Seq(ReplyType)
    BY DEF InputTypeOK, ReplyType
  <2>2. Len(sent) \in Nat
    BY <2>1, LenProperties
  <2>q. QED
    BY <2>1, <2>2 DEF InputTypeOK, PongsAnswerPings, Earned, AnswersPing, AnswersPart
<1>1. PICK k \in 0..(Len(sent) - read), cut \in BOOLEAN :
        /\ IF cut THEN k < Len(sent) - read ELSE k > 0
        /\ read' = read + k
        /\ aligned' = (aligned /\ OneLine(Chunk(k, cut), cut))
        /\ Throw \/ \E w \in Words(Chunk(k, cut), cut) : Handle(w, Reader)
  BY DEF Receive
<1> DEFINE s == Chunk(k, cut)
<1>2. /\ s \in Seq(Vocabulary) /\ s # <<>>
      /\ Len(s) = k + (IF cut THEN 1 ELSE 0)
      /\ \A i \in 1..Len(s) : s[i] = sent[read + i]
  <2>1. Readable(k, cut)
    BY <1>1 DEF Readable
  <2>q. QED
    BY <1>0, <2>1, ChunkType
<1>3. /\ aligned' = (aligned /\ OneLine(s, cut))
      /\ Throw \/ \E w \in Words(s, cut) : Handle(w, Reader)
  BY <1>1
<1> HIDE DEF s
<1>4. /\ k \in Nat /\ read' \in Nat /\ read <= read' /\ k <= Len(s)
      /\ aligned' \in BOOLEAN /\ (aligned' => aligned) /\ (aligned' => OneLine(s, cut))
      /\ read' = read + k /\ Len(s) <= k + 1
      /\ read + Len(s) <= Len(sent) /\ Len(s) \in Nat /\ DOMAIN sent = 1..Len(sent)
  <2>1. aligned' \in BOOLEAN /\ (aligned' => aligned) /\ (aligned' => OneLine(s, cut))
    BY <1>0, <1>3
  <2>2. /\ k \in Nat /\ read' = read + k /\ k <= Len(s) /\ Len(s) <= k + 1
        /\ read + Len(s) <= Len(sent) /\ Len(s) \in Nat
    BY <1>0, <1>1, <1>2
  <2>3. DOMAIN sent = 1..Len(sent)
    BY <1>0
  <2>q. QED
    BY <1>0, <2>1, <2>2, <2>3
<1>e. Earned(replies, read, aligned')
  BY <1>0, <1>4, EarnedLater
<1>5. Earned(replies', read', aligned')
  <2>1. CASE Throw
    <3>1. replies' = replies
      BY <2>1 DEF Throw
    <3>q. QED
      BY <1>0, <1>4, <3>1, EarnedLater
  <2>2. ASSUME NEW w \in Words(s, cut), Handle(w, Reader) PROVE Earned(replies', read', aligned')
    <3>1. w \in Seq(Vocabulary)
      BY <1>2, WordsType
    <3> DEFINE n == read'
               whole == aligned'
    <3>2. Has(w, "PING") => \E p : Asks(p, n, whole)
      <4> SUFFICES ASSUME Has(w, "PING")
                   PROVE  \E p : Asks(p, n, whole)
        OBVIOUS
      <4>1. PICK i \in 1..Len(s) : \/ i <= k /\ s[i] = "PING"
                                   \/ ~OneLine(s, cut) /\ "PING" \in PartsOf(s[i])
        BY <1>2, <1>4, PingReceived
      <4>2. s[i] = sent[read + i]
        BY <1>2, <4>1
      <4>3. /\ read + i \in DOMAIN sent \cap ((read + 1)..(n + 1))
            /\ i <= k => read + i <= n
        BY <1>0, <1>4, <4>1
      <4>4. OneLine(s, cut) \/ ~whole
        BY <1>4
      <4>5. Asks(read + i, n, whole)
        <5> HIDE DEF n, whole
        <5>q. QED
          BY <1>4, <4>1, <4>2, <4>3, <4>4 DEF Asks
      <4>q. QED
        BY <4>5
    <3>3. n \in Nat /\ read <= n /\ whole \in BOOLEAN /\ Earned(replies, read, whole)
      BY <1>4, <1>e
    <3> HIDE DEF n, whole
    <3>4. Earned(replies', n, whole)
      BY <1>0, <2>2, <3>1, <3>2, <3>3, HandleEarns
    <3>q. QED
      BY <3>4 DEF n, whole
  <2>q. QED
    BY <1>3, <2>1, <2>2
<1>6. sent' = sent
  BY DEF Receive
<1>q. QED
  BY <1>5, <1>6 DEF PongsAnswerPings, Earned, AnswersPing, AnswersPart

\* What the server sends next is no matter of the PINGs before.
LEMMA SendEarns ==
  ASSUME InputTypeOK, PongsAnswerPings, NEW l \in Lines, Send(l)
  PROVE  PongsAnswerPings'
<1>1. /\ sent \in Seq(Vocabulary) /\ read \in 0..Len(sent) /\ replies \in Seq(ReplyType)
  BY DEF InputTypeOK, ReplyType
<1>2. /\ Len(sent) \in Nat /\ DOMAIN sent = 1..Len(sent)
      /\ \A i \in 1..Len(sent) : sent'[i] = sent[i] /\ i \in DOMAIN sent'
  BY <1>1, SentAfter
<1>3. UNCHANGED <<read, replies, aligned>>
  BY DEF Send
<1> SUFFICES ASSUME NEW i \in DOMAIN replies, replies[i].kind = "PONG"
             PROVE  \E p \in DOMAIN sent' \cap (replies[i].at..(read + 1)) :
                      \/ /\ p <= read /\ sent'[p] = "PING"
                         /\ \A j \in DOMAIN replies :
                              i < j /\ replies[j].kind = "PONG" => p < replies[j].at
                      \/ /\ ~aligned /\ "PING" \in PartsOf(sent'[p])
                         /\ \A j \in DOMAIN replies :
                              i < j /\ replies[j].kind = "PONG" => p <= replies[j].at
  BY <1>3 DEF PongsAnswerPings
<1>4. PICK p \in DOMAIN sent \cap (replies[i].at..(read + 1)) :
        \/ /\ p <= read /\ sent[p] = "PING"
           /\ \A j \in DOMAIN replies :
                i < j /\ replies[j].kind = "PONG" => p < replies[j].at
        \/ /\ ~aligned /\ "PING" \in PartsOf(sent[p])
           /\ \A j \in DOMAIN replies :
                i < j /\ replies[j].kind = "PONG" => p <= replies[j].at
  BY DEF PongsAnswerPings
<1>5. p \in DOMAIN sent' /\ sent'[p] = sent[p]
  BY <1>2
<1>q. QED
  BY <1>4, <1>5

\* Whatever the lines, their parts and recv's cuts, and whatever is read past the
\* end of the words: each PONG answers a PING that came whole, none of which is
\* answered twice, or a word of which a cut left PING.
THEOREM PongsAreEarned == Spec => []PongsAnswerPings
<1> DEFINE Inv == InputInv /\ PongsAnswerPings
<1>1. Init => Inv
  <2>1. Init => PongsAnswerPings
    BY DEF Init, InputInit, PongsAnswerPings
  <2>q. QED
    BY <2>1, InputStart
<1>2. Inv /\ [Next]_vars => Inv'
  <2> SUFFICES ASSUME InputInv, PongsAnswerPings, [Next]_vars PROVE Inv'
    OBVIOUS
  <2>1. InputTypeOK
    BY DEF InputInv
  <2>2. CASE Receive
    BY <2>1, <2>2, ReceiveEarns, InputStep
  <2>3. CASE \E l \in Lines : Send(l)
    BY <2>1, <2>3, SendEarns, InputStep
  <2>4. CASE UNCHANGED inputVars \/ CallEnds \/ WaitOver
    <3>1. UNCHANGED <<sent, read, replies, aligned>>
      BY <2>4 DEF inputVars, CallEnds, WaitOver
    <3>q. QED
      BY <3>1, InputStep DEF PongsAnswerPings
  <2>5. UNCHANGED inputVars \/ Receive \/ CallEnds \/ WaitOver \/ (\E l \in Lines : Send(l))
    BY DEF Next, vars, Turn, IdleTurn, WaitTurn, LoopOver
  <2>q. QED
    BY <2>2, <2>3, <2>4, <2>5
<1>q. QED
  BY <1>1, <1>2, PTL DEF Spec

\* The texts stay within their bound.
LEMMA TextsBounded ==
  ASSUME TextInv, arrived <= MaxTexts, shown \in Seq(1..MaxTexts), [Next]_vars
  PROVE  arrived' <= MaxTexts /\ shown' \in Seq(1..MaxTexts)
<1>1. CASE UNCHANGED textVars
  BY <1>1 DEF textVars
<1>2. ASSUME NEW shows \in BOOLEAN, Iterate(shows)
      PROVE  arrived' <= MaxTexts /\ shown' \in Seq(1..MaxTexts)
  <2>1. PICK k \in arrived..MaxTexts :
          /\ arrived' = k
          /\ Show(text_received(k)) \/ Keep(text_received(k))
    BY <1>2 DEF Iterate
  <2>2. k \in Nat /\ k <= MaxTexts /\ text_received(k) \in {0, k}
    BY <2>1, SomeTexts, NewestInSlot DEF TextInv
  <2>3. shown' = shown \/ (k # 0 /\ shown' = Append(shown, k))
    BY <2>1, <2>2 DEF Show, Keep
  <2>4. k # 0 => k \in 1..MaxTexts
    BY <2>2, SomeTexts
  <2>5. k # 0 => Append(shown, k) \in Seq(1..MaxTexts)
    BY <2>4, AppendProperties
  <2>q. QED
    BY <2>1, <2>2, <2>3, <2>5
<1>q. QED
  BY <1>1, <1>2, IteratesOrNot

\* The type invariant of the conversation, for any lines and texts.
THEOREM ConversationTypes == Spec => []TypeOK
<1> DEFINE Inv == InputInv /\ TextInv /\ arrived <= MaxTexts /\ shown \in Seq(1..MaxTexts)
<1>1. Init => Inv
  <2>1. Init => TextInv
    BY DEF Init, TextInv, NewestTextKept
  <2>2. Init => arrived <= MaxTexts /\ shown \in Seq(1..MaxTexts)
    BY SomeTexts, EmptySeq DEF Init
  <2>q. QED
    BY <2>1, <2>2, InputStart
<1>2. Inv /\ [Next]_vars => Inv'
  BY InputStep, TextStep, TextsBounded
<1>3. Inv => TypeOK
  BY SomeTexts DEF InputInv, TextInv, TypeOK
<1>q. QED
  BY <1>1, <1>2, <1>3, PTL DEF Spec
=============================================================================
