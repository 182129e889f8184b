-------------------------- MODULE MCDocuments_proofs ------------------------
(***************************************************************************)
(* What is routed, posted and imported, for every set of processes: facts  *)
(* are drafted once and who says that there is a draft has one; an attempt *)
(* without a ledger is posted once, and not when it was rejected; the      *)
(* ledger has each line of the statements as often as they show it.        *)
(*                                                                         *)
(* DraftRoutes is proved about in DraftRoutes_proofs, of which this module *)
(* has two instances.  The other two are proved about here.                *)
(***************************************************************************)
EXTENDS MCDocuments, FiniteSetTheorems, SequenceTheorems,
        WellFoundedInduction, TLAPS

-----------------------------------------------------------------------------
(***************************************************************************)
(* The import of statements.  An import at work has stored the lines before*)
(* its own, each with the number that it has among those that are alike    *)
(* (Reads); what it has seen are these lines.  So a row with the number n  *)
(* is there because a statement has n such lines (Backed), and a finished  *)
(* import has all of them in the ledger (Finished), whatever the others    *)
(* do: rows are only added.                                                *)
(***************************************************************************)
\* The lines of a statement are numbered from one.
Shapes ==
    \A s \in Statements :
        Len(s.lines) \in Nat /\ DOMAIN s.lines = 1..Len(s.lines)

Row(key, n) == [kind |-> "generated", key |-> key, n |-> n]

\* The first lines of a statement that are a transaction without a reference.
Alikes(s, key, n) ==
    {k \in 1..n : /\ s.lines[k].key = key /\ s.lines[k].ref = NoRef
                  /\ s.lines[k].readable}
Legible(s, n) == {k \in 1..n : s.lines[k].readable}

Occurrences(seen, key) == {i \in DOMAIN seen : seen[i] = key}

ImportRows == [statement : Statements,
               status : {"running", "completed", "empty"},
               imported : Nat, duplicates : Nat]
Readers == [at : {"idle", "read", "upsert"}, id : Nat, line : Nat,
            seen : Seq(Bank!Keys), known : BOOLEAN, imported : Nat,
            duplicates : Nat]

BankTypes ==
    /\ imports \in Seq(ImportRows)
    /\ importProc \in [Procs -> Readers]
    /\ IsFiniteSet(rows)

\* The first n lines of a statement are in the ledger.
Kept(s, n) ==
    s.format # "mt940" =>
        \A key \in Bank!Keys : \A m \in 1..Cardinality(Alikes(s, key, n)) :
            Row(key, m) \in rows

\* An import at work has stored the lines before its own.
Reads(p) ==
    importProc[p].at # "idle" =>
        /\ importProc[p].id \in 1..Len(imports)
        /\ imports[importProc[p].id].status = "running"
        /\ importProc[p].line \in 1..Len(Bank!Lines(p)) + 1
        /\ importProc[p].at = "upsert" =>
              importProc[p].line <= Len(Bank!Lines(p))
                /\ Bank!Line(p).readable
        /\ Kept(imports[importProc[p].id].statement, importProc[p].line - 1)
        /\ \A key \in Bank!Keys :
              Cardinality(Occurrences(importProc[p].seen, key)) =
              Cardinality(Alikes(imports[importProc[p].id].statement, key,
                                 importProc[p].line - 1))
        /\ importProc[p].imported + importProc[p].duplicates =
              Cardinality(Legible(imports[importProc[p].id].statement,
                                  importProc[p].line - 1))

Apart ==
    \A p, q \in Procs :
        p # q /\ importProc[p].at # "idle" /\ importProc[q].at # "idle" =>
            importProc[p].id # importProc[q].id

Finished(i) ==
    imports[i].status # "running" =>
        /\ Kept(imports[i].statement, Len(imports[i].statement.lines))
        /\ imports[i].imported + imports[i].duplicates =
              Cardinality(Legible(imports[i].statement,
                                  Len(imports[i].statement.lines)))

\* A row without a reference is one of the lines of a statement.
Backed(r) ==
    r.kind = "generated" =>
        /\ r.n \in Nat \ {0} /\ r = Row(r.key, r.n)
        /\ \E i \in 1..Len(imports) :
              /\ imports[i].statement.format # "mt940"
              /\ r.n <= Cardinality(
                    Alikes(imports[i].statement, r.key,
                           Len(imports[i].statement.lines)))

BankInv ==
    /\ BankTypes /\ Apart
    /\ \A p \in Procs : Reads(p)
    /\ \A i \in 1..Len(imports) : Finished(i)
    /\ \A r \in rows : Backed(r)

-----------------------------------------------------------------------------
\* Both count alike.
LEMMA BankCounts == \A S : Bank!Cardinality(S) = Cardinality(S)
  BY DEF Bank!Cardinality, Cardinality

LEMMA Linear == IsWellFoundedOn({ss \in Nat \X Nat : ss[1] < ss[2]}, Nat)
  BY NatLessThanWellFounded DEF OpToRel

LEMMA Least ==
    ASSUME NEW S \in SUBSET Nat, S # {}
    PROVE  \E n \in S : \A m \in S : n <= m
  <1>1. PICK n \in S :
            \A y \in S : <<y, n>> \notin {ss \in Nat \X Nat : ss[1] < ss[2]}
    BY Linear, WFMin
  <1>2. ASSUME NEW m \in S PROVE n <= m
    <2>1. <<m, n>> \notin {ss \in Nat \X Nat : ss[1] < ss[2]}
      BY <1>1
    <2>2. ~ (m < n)
      BY <2>1
    <2> QED
      BY <2>2
  <1> QED
    BY <1>2

\* A finite set of numbers has a greatest.
LEMMA Largest ==
    ASSUME NEW S \in SUBSET Nat, S # {}, IsFiniteSet(S)
    PROVE  \E n \in S : \A m \in S : m <= n
  <1> DEFINE HasMost(T) == \E n \in T : \A m \in T : m <= n
             Sizes == {c \in Nat : \E T \in SUBSET Nat :
                          /\ IsFiniteSet(T) /\ T # {} /\ ~ HasMost(T)
                          /\ Cardinality(T) = c}
  <1>1. CASE Sizes = {}
    <2>1. Cardinality(S) \in Nat
      BY FS_CardinalityType
    <2> QED
      BY <1>1, <2>1
  <1>2. CASE Sizes # {}
    <2>1. Sizes \in SUBSET Nat
      OBVIOUS
    <2> HIDE DEF Sizes
    <2>2. PICK c \in Sizes : \A d \in Sizes : c <= d
      BY <1>2, <2>1, Least
    <2> USE DEF Sizes
    <2>3. PICK T \in SUBSET Nat : /\ IsFiniteSet(T) /\ T # {} /\ ~ HasMost(T)
                                  /\ Cardinality(T) = c
      BY <2>2
    <2>4. PICK t \in T : TRUE
      BY <2>3
    <2>5. IsFiniteSet(T \ {t}) /\ Cardinality(T \ {t}) = c - 1 /\ c \in Nat
      BY <2>3, FS_RemoveElement
    <2>6. CASE T \ {t} = {}
      BY <2>3, <2>6
    <2>7. CASE T \ {t} # {}
      <3>1. c - 1 \in Nat
        BY <2>5, FS_CardinalityType
      <3>2. HasMost(T \ {t})
        <4>1. c - 1 \notin Sizes
          BY <2>2, <2>5
        <4> QED
          BY <2>5, <2>7, <3>1, <4>1
      <3>3. PICK n \in T \ {t} : \A m \in T \ {t} : m <= n
        BY <3>2
      <3>4. n \in Nat /\ t \in Nat /\ T \subseteq Nat
        BY <2>3
      <3> QED
        BY <2>3, <3>3, <3>4
    <2> QED
      BY <2>6, <2>7
  <1> QED
    BY <1>1, <1>2

-----------------------------------------------------------------------------
\* The lines that are alike, and those that can be read, can be counted.
LEMMA AlikesFinite ==
    ASSUME NEW s, NEW key, NEW n \in Nat
    PROVE  /\ IsFiniteSet(Alikes(s, key, n))
           /\ Cardinality(Alikes(s, key, n)) \in Nat
           /\ IsFiniteSet(Legible(s, n)) /\ Cardinality(Legible(s, n)) \in Nat
  <1>1. IsFiniteSet(1..n)
    BY FS_Interval
  <1>2. Alikes(s, key, n) \in SUBSET (1..n) /\ Legible(s, n) \in SUBSET (1..n)
    BY DEF Alikes, Legible
  <1>3. IsFiniteSet(Alikes(s, key, n)) /\ IsFiniteSet(Legible(s, n))
    BY <1>1, <1>2, FS_Subset
  <1> QED
    BY <1>3, FS_CardinalityType

\* One more line.
LEMMA OneLine ==
    ASSUME NEW s, NEW key, NEW n \in Nat \ {0}
    PROVE  /\ Cardinality(Alikes(s, key, n)) =
                IF /\ s.lines[n].key = key /\ s.lines[n].ref = NoRef
                   /\ s.lines[n].readable
                THEN Cardinality(Alikes(s, key, n - 1)) + 1
                ELSE Cardinality(Alikes(s, key, n - 1))
           /\ Cardinality(Legible(s, n)) =
                IF s.lines[n].readable
                THEN Cardinality(Legible(s, n - 1)) + 1
                ELSE Cardinality(Legible(s, n - 1))
  <1>1. n - 1 \in Nat /\ 1..n = (1..(n - 1)) \cup {n} /\ n \notin 1..(n - 1)
    OBVIOUS
  <1>2. IsFiniteSet(Alikes(s, key, n - 1)) /\ IsFiniteSet(Legible(s, n - 1))
    BY <1>1, AlikesFinite
  <1>3. n \notin Alikes(s, key, n - 1) /\ n \notin Legible(s, n - 1)
    BY <1>1 DEF Alikes, Legible
  <1>4. Alikes(s, key, n) =
            IF /\ s.lines[n].key = key /\ s.lines[n].ref = NoRef
               /\ s.lines[n].readable
            THEN Alikes(s, key, n - 1) \cup {n} ELSE Alikes(s, key, n - 1)
    BY <1>1 DEF Alikes
  <1>5. Legible(s, n) =
            IF s.lines[n].readable THEN Legible(s, n - 1) \cup {n}
            ELSE Legible(s, n - 1)
    BY <1>1 DEF Legible
  <1> QED
    BY <1>2, <1>3, <1>4, <1>5, FS_AddElement

\* The first lines have no more of them than all.
LEMMA FewerLines ==
    ASSUME NEW s, NEW key, NEW n \in Nat, NEW m \in 0..n
    PROVE  Cardinality(Alikes(s, key, m)) <= Cardinality(Alikes(s, key, n))
  <1>1. Alikes(s, key, m) \in SUBSET Alikes(s, key, n)
    BY DEF Alikes
  <1> QED
    BY <1>1, AlikesFinite, FS_Subset

\* One more line has been seen.
LEMMA OneSeen ==
    ASSUME NEW seen \in Seq(Bank!Keys), NEW key \in Bank!Keys,
           NEW other \in Bank!Keys
    PROVE  Cardinality(Occurrences(Append(seen, other), key)) =
             IF key = other THEN Cardinality(Occurrences(seen, key)) + 1
             ELSE Cardinality(Occurrences(seen, key))
  <1>1. PICK n \in Nat : n = Len(seen) /\ DOMAIN seen = 1..n
    BY LenProperties
  <1>2. PICK more \in Seq(Bank!Keys) : more = Append(seen, other)
    BY AppendProperties
  <1>3. /\ DOMAIN more = 1..(n + 1) /\ more[n + 1] = other
        /\ \A i \in 1..n : more[i] = seen[i]
    BY <1>1, <1>2, AppendProperties, LenProperties
  <1>4. Occurrences(more, key) =
            IF key = other THEN Occurrences(seen, key) \cup {n + 1}
            ELSE Occurrences(seen, key)
    BY <1>1, <1>3 DEF Occurrences
  <1>5. IsFiniteSet(Occurrences(seen, key))
          /\ n + 1 \notin Occurrences(seen, key)
    <2>1. Occurrences(seen, key) \in SUBSET (1..n) /\ IsFiniteSet(1..n)
      BY <1>1, FS_Interval DEF Occurrences
    <2>2. IsFiniteSet(Occurrences(seen, key))
      BY <2>1, FS_Subset
    <2> QED
      BY <2>1, <2>2
  <1> QED
    BY <1>2, <1>4, <1>5, FS_AddElement

\* Before the first line nothing has been seen.
LEMMA NothingSeen ==
    ASSUME NEW key, NEW s
    PROVE  /\ Cardinality(Occurrences(<<>>, key)) = 0
           /\ Cardinality(Alikes(s, key, 0)) = 0
           /\ Cardinality(Legible(s, 0)) = 0
  <1>1. /\ Occurrences(<<>>, key) = {} /\ Alikes(s, key, 0) = {}
        /\ Legible(s, 0) = {}
    BY DEF Occurrences, Alikes, Legible
  <1> QED
    BY <1>1, FS_EmptySet

-----------------------------------------------------------------------------
\* A process reads a statement, or rests.
LEMMA ReaderOf ==
    ASSUME BankTypes, NEW p \in Procs
    PROVE  /\ importProc[p] \in Readers
             /\ importProc[p].at \in {"idle", "read", "upsert"}
           /\ importProc[p].id \in Nat /\ importProc[p].line \in Nat
           /\ importProc[p].seen \in Seq(Bank!Keys)
                /\ importProc[p].known \in BOOLEAN
           /\ importProc[p].imported \in Nat
                /\ importProc[p].duplicates \in Nat
  BY DEF BankTypes, Readers

\* An import has a statement, whose lines are numbered.
LEMMA ImportOf ==
    ASSUME BankTypes, Shapes, NEW i \in 1..Len(imports)
    PROVE  /\ imports[i] \in ImportRows /\ imports[i].statement \in Statements
           /\ imports[i].status \in {"running", "completed", "empty"}
           /\ imports[i].imported \in Nat /\ imports[i].duplicates \in Nat
           /\ Len(imports[i].statement.lines) \in Nat
           /\ DOMAIN imports[i].statement.lines =
                 1..Len(imports[i].statement.lines)
  <1>1. imports[i] \in ImportRows
    BY LenProperties DEF BankTypes
  <1>2. imports[i].statement \in Statements
    BY <1>1 DEF ImportRows
  <1>3. /\ Len(imports[i].statement.lines) \in Nat
        /\ DOMAIN imports[i].statement.lines =
                 1..Len(imports[i].statement.lines)
    BY <1>2 DEF Shapes
  <1> QED
    BY <1>1, <1>2, <1>3 DEF ImportRows

LEMMA IdleReader == Bank!Idle \in Readers
  <1>1. <<>> \in Seq(Bank!Keys)
    OBVIOUS
  <1> QED
    BY <1>1 DEF Bank!Idle, Readers

\* The imports begin with nothing, and every step keeps what holds.
LEMMA BankInitInv == ASSUME Bank!Init PROVE BankInv
  <1>1. BankTypes
    BY IdleReader, FS_EmptySet DEF Bank!Init, BankTypes
  <1>2. \A p \in Procs : importProc[p].at = "idle"
    BY DEF Bank!Init, Bank!Idle
  <1>3. Len(imports) = 0
    BY DEF Bank!Init
  <1> QED
    BY <1>1, <1>2, <1>3 DEF BankInv, Apart, Reads, Bank!Init

\* Rows are added, and imports are not forgotten.
ImportsStay ==
    /\ Len(imports) <= Len(imports')
    /\ \A i \in 1..Len(imports) : imports'[i].statement = imports[i].statement

\* What is in the ledger stays.
LEMMA KeptStays ==
    ASSUME NEW s, NEW n, Kept(s, n), rows \subseteq rows' PROVE Kept(s, n)'
  BY DEF Kept

LEMMA BackedStays ==
    ASSUME BankTypes, ImportsStay, Len(imports') \in Nat, NEW r, Backed(r)
    PROVE  Backed(r)'
  <1>1. Len(imports) \in Nat
    BY LenProperties DEF BankTypes
  <1> QED
    BY <1>1 DEF Backed, ImportsStay

\* A process goes on, and the others are as they were.
LEMMA ProcessKeeps ==
    ASSUME BankInv, BankTypes', NEW p \in Procs,
           \A q \in Procs \ {p} : importProc'[q] = importProc[q],
           rows \subseteq rows', ImportsStay,
           importProc'[p].at # "idle" =>
              \A q \in Procs \ {p} : importProc[q].at # "idle" =>
                  importProc[q].id # importProc'[p].id,
           \A q \in Procs \ {p} : importProc[q].at # "idle" =>
              imports'[importProc[q].id] = imports[importProc[q].id],
           Reads(p)',
           \A i \in 1..Len(imports') :
              Finished(i)'
              \/ (i \in 1..Len(imports) /\ imports'[i] = imports[i]),
           \A r \in rows' \ rows : Backed(r)'
    PROVE  BankInv'
  <1>1. Apart'
    BY DEF BankInv, Apart
  <1>2. ASSUME NEW q \in Procs, q # p PROVE Reads(q)'
    <2> SUFFICES ASSUME importProc'[q].at # "idle" PROVE Reads(q)'
      BY DEF Reads
    <2>1. importProc'[q] = importProc[q] /\ importProc[q].at # "idle"
            /\ Reads(q)
      BY <1>2 DEF BankInv
    <2>2. imports'[importProc[q].id] = imports[importProc[q].id]
      BY <1>2, <2>1
    <2>3. Bank!Lines(q)' = Bank!Lines(q) /\ Bank!Line(q)' = Bank!Line(q)
      BY <2>1, <2>2 DEF Bank!Lines, Bank!Line
    <2>4. Len(imports) \in Nat /\ Len(imports') \in Nat
      BY LenProperties DEF BankInv, BankTypes
    <2>5. Kept(imports[importProc[q].id].statement, importProc[q].line - 1)'
      <3>1. Kept(imports[importProc[q].id].statement, importProc[q].line - 1)
        BY <2>1 DEF Reads
      <3> QED
        BY <3>1, <2>1, <2>2 DEF Kept
    <2> QED
      BY <2>1, <2>2, <2>3, <2>4, <2>5 DEF Reads, ImportsStay
  <1>3. ASSUME NEW i \in 1..Len(imports') PROVE Finished(i)'
    <2>1. CASE i \in 1..Len(imports) /\ imports'[i] = imports[i]
      <3>1. Finished(i)
        BY <2>1 DEF BankInv
      <3> QED
        BY <3>1, <2>1 DEF Finished, Kept
    <2> QED
      BY <2>1
  <1>4. ASSUME NEW r \in rows' PROVE Backed(r)'
    <2>1. CASE r \in rows
      <3>1. Len(imports') \in Nat
        BY LenProperties DEF BankTypes
      <3> QED
        BY <2>1, <3>1, BackedStays DEF BankInv
    <2> QED
      BY <2>1
  <1> QED
    BY <1>1, <1>2, <1>3, <1>4 DEF BankInv

LEMMA ImportCrashKeeps == ASSUME BankInv, NEW p \in Procs,
    Bank!Crash(p) PROVE BankInv'
  <1>1. importProc' = [importProc EXCEPT ![p] = Bank!Idle]
          /\ UNCHANGED <<rows, imports>>
    BY DEF Bank!Crash
  <1>2. BankTypes' /\ importProc'[p] = Bank!Idle
    BY <1>1, IdleReader DEF BankInv, BankTypes
  <1>3. \A q \in Procs \ {p} : importProc'[q] = importProc[q]
    BY <1>1 DEF BankInv, BankTypes
  <1>4. importProc'[p].at = "idle" /\ Reads(p)'
    BY <1>2 DEF Bank!Idle, Reads
  <1>5. ImportsStay
    <2>1. Len(imports) \in Nat
      BY LenProperties DEF BankInv, BankTypes
    <2> QED
      BY <1>1, <2>1 DEF ImportsStay
  <1> QED
    BY <1>1, <1>2, <1>3, <1>4, <1>5, ProcessKeeps

LEMMA BeginKeeps ==
    ASSUME BankInv, Shapes, NEW p \in Procs, NEW s \in Statements,
           Bank!Begin(p, s)
    PROVE  BankInv'
  <1>1. PICK n \in Nat : n = Len(imports)
    BY LenProperties DEF BankInv, BankTypes
  <1>2. PICK word \in {"read"}, id \in Nat : word = "read" /\ id = n + 1
    OBVIOUS
  <1>3. PICK c \in Readers : c = [Bank!Idle EXCEPT !.at = word, !.id = id]
    BY IdleReader DEF Readers
  <1>4. /\ c.at = "read" /\ c.id = n + 1 /\ c.line = 1 /\ c.seen = <<>>
        /\ c.imported = 0 /\ c.duplicates = 0
    BY <1>2, <1>3 DEF Bank!Idle
  <1>5. importProc' = [importProc EXCEPT ![p] = c]
    BY <1>1, <1>2, <1>3 DEF Bank!Begin
  <1>6. importProc'[p] = c
          /\ \A q \in Procs \ {p} : importProc'[q] = importProc[q]
    BY <1>5 DEF BankInv, BankTypes
  <1>7. PICK r \in ImportRows :
            r = [statement |-> s, status |-> "running", imported |-> 0,
                 duplicates |-> 0]
    BY DEF ImportRows
  <1>8. imports' = Append(imports, r) /\ rows' = rows
    BY <1>7 DEF Bank!Begin
  <1>9. /\ imports' \in Seq(ImportRows) /\ Len(imports') = n + 1
        /\ \A i \in 1..n : imports'[i] = imports[i]
        /\ imports'[n + 1] = r
    BY <1>1, <1>8, AppendProperties DEF BankInv, BankTypes
  <1>10. BankTypes'
    BY <1>5, <1>8, <1>9 DEF BankInv, BankTypes
  <1>11. ImportsStay
    BY <1>1, <1>9 DEF ImportsStay
  <1>12. \A q \in Procs : importProc[q].at # "idle"
           => importProc[q].id \in 1..n
    BY <1>1 DEF BankInv, Reads
  <1>13. Reads(p)'
    <2>1. Bank!Lines(p)' = s.lines /\ imports'[c.id].statement = s
      BY <1>4, <1>6, <1>7, <1>9 DEF Bank!Lines
    <2>2. Len(s.lines) \in Nat
      BY DEF Shapes
    <2>3. imports'[c.id].status = "running" /\ c.id \in 1..Len(imports')
      BY <1>4, <1>7, <1>9
    <2>4. 1 \in 1..Len(s.lines) + 1 /\ c.line - 1 = 0
      BY <1>4, <2>2
    <2>5. Kept(s, c.line - 1)'
      BY <2>4, NothingSeen DEF Kept
    <2>6. /\ \A key \in Bank!Keys : Cardinality(Occurrences(c.seen, key)) =
                                 Cardinality(Alikes(s, key, c.line - 1))
          /\ c.imported + c.duplicates = Cardinality(Legible(s, c.line - 1))
      BY <1>4, <2>4, NothingSeen
    <2> QED
      BY <1>4, <1>6, <2>1, <2>3, <2>4, <2>5, <2>6 DEF Reads
  <1>14. ASSUME NEW i \in 1..Len(imports')
         PROVE  Finished(i)'
                  \/ (i \in 1..Len(imports) /\ imports'[i] = imports[i])
    BY <1>1, <1>7, <1>9 DEF Finished
  <1>15. \A q \in Procs \ {p} : importProc[q].at # "idle" =>
              imports'[importProc[q].id] = imports[importProc[q].id]
                /\ importProc[q].id # n + 1
    BY <1>9, <1>12
  <1> QED
    BY <1>4, <1>6, <1>8, <1>10, <1>11, <1>13, <1>14, <1>15, ProcessKeeps

\* A line is read, and its number is within the statement.
LEMMA AtLine ==
    ASSUME BankInv, Shapes, NEW p \in Procs, Bank!More(p)
             \/ importProc[p].at = "upsert"
    PROVE  /\ importProc[p].at # "idle"
             /\ importProc[p].id \in 1..Len(imports)
           /\ imports[importProc[p].id].statement \in Statements
           /\ Bank!Lines(p) = imports[importProc[p].id].statement.lines
           /\ Len(Bank!Lines(p)) \in Nat
                /\ importProc[p].line \in 1..Len(Bank!Lines(p))
           /\ Bank!Line(p) =
                  imports[importProc[p].id].statement.lines[importProc[p].line]
           /\ Bank!Line(p).key \in Bank!Keys
  <1>1. importProc[p].at # "idle" /\ Reads(p)
    BY DEF Bank!More, BankInv
  <1>2. importProc[p].id \in 1..Len(imports)
    BY <1>1 DEF Reads
  <1>3. /\ Bank!Lines(p) = imports[importProc[p].id].statement.lines
        /\ Bank!Line(p) =
               imports[importProc[p].id].statement.lines[importProc[p].line]
    BY DEF Bank!Lines, Bank!Line
  <1>4. /\ imports[importProc[p].id].statement \in Statements
        /\ Len(Bank!Lines(p)) \in Nat
             /\ DOMAIN Bank!Lines(p) = 1..Len(Bank!Lines(p))
    BY <1>2, <1>3, ImportOf DEF BankInv
  <1>5. importProc[p].line \in 1..Len(Bank!Lines(p))
    BY <1>1, <1>4 DEF Reads, Bank!More
  <1>6. Bank!Line(p).key \in Bank!Keys
    <2>1. PICK s \in Statements :
              \E i \in DOMAIN s.lines : Bank!Line(p) = s.lines[i]
      BY <1>3, <1>4, <1>5
    <2>2. PICK i \in DOMAIN s.lines : Bank!Line(p) = s.lines[i]
      BY <2>1
    <2>3. s.lines[i].key \in {s.lines[j].key : j \in DOMAIN s.lines}
      OBVIOUS
    <2> QED
      BY <2>2, <2>3 DEF Bank!Keys
  <1> QED
    BY <1>1, <1>2, <1>3, <1>4, <1>5, <1>6

\* A process goes on in its statement; the imports are as they were.
LEMMA GoOnKeeps ==
    ASSUME BankInv, NEW p \in Procs, NEW c \in Readers,
           importProc' = [importProc EXCEPT ![p] = c], imports' = imports,
           importProc[p].at # "idle", c.id = importProc[p].id,
           rows \subseteq rows',
           IsFiniteSet(rows'), Reads(p)',
           \A r \in rows' \ rows : Backed(r)'
    PROVE  BankInv'
  <1>1. BankTypes'
    BY DEF BankInv, BankTypes
  <1>2. importProc'[p] = c
          /\ \A q \in Procs \ {p} : importProc'[q] = importProc[q]
    BY DEF BankInv, BankTypes
  <1>3. ImportsStay
    <2>1. Len(imports) \in Nat
      BY LenProperties DEF BankInv, BankTypes
    <2> QED
      BY <2>1 DEF ImportsStay
  <1>4. \A q \in Procs \ {p} : importProc[q].at # "idle"
          => importProc[q].id # importProc'[p].id
    BY <1>2 DEF BankInv, Apart
  <1> QED
    BY <1>1, <1>2, <1>3, <1>4, ProcessKeeps

LEMMA SkipKeeps ==
    ASSUME BankInv, Shapes, NEW p \in Procs, Bank!Skip(p) PROVE BankInv'
  <1>1. Bank!More(p) /\ ~ Bank!Line(p).readable /\ UNCHANGED <<rows, imports>>
    BY DEF Bank!Skip
  <1>2. PICK n \in Nat \ {0} : n = importProc[p].line
    BY <1>1, AtLine
  <1>3. PICK next \in Nat : next = n + 1
    OBVIOUS
  <1>4. PICK c \in Readers : c = [importProc[p] EXCEPT !.line = next]
    BY ReaderOf DEF BankInv, Readers
  <1>5. /\ c.at = "read" /\ c.id = importProc[p].id /\ c.line = n + 1
        /\ c.seen = importProc[p].seen /\ c.imported = importProc[p].imported
        /\ c.duplicates = importProc[p].duplicates
    BY <1>1, <1>3, <1>4, ReaderOf DEF BankInv, Bank!More, Readers
  <1>6. importProc' = [importProc EXCEPT ![p] = c]
    BY <1>2, <1>3, <1>4 DEF Bank!Skip
  <1>7. importProc'[p] = c
    BY <1>6 DEF BankInv, BankTypes
  <1>8. PICK s \in Statements : s = imports[importProc[p].id].statement
    BY <1>1, AtLine
  <1>9. ~ s.lines[n].readable /\ Bank!Lines(p) = s.lines
          /\ n \in 1..Len(s.lines)
        /\ Len(s.lines) \in Nat
    BY <1>1, <1>2, <1>8, AtLine
  <1>10. /\ Cardinality(Legible(s, n)) = Cardinality(Legible(s, n - 1))
         /\ \A key \in Bank!Keys : Cardinality(Alikes(s, key, n)) =
                Cardinality(Alikes(s, key, n - 1))
    BY <1>9, OneLine
  <1>11. Bank!Lines(p)' = s.lines
    BY <1>1, <1>5, <1>7, <1>8 DEF Bank!Lines
  <1>12. Reads(p)
    BY DEF BankInv
  <1>13. Kept(s, n)'
    <2>1. Kept(s, n - 1)
      BY <1>1, <1>2, <1>8, <1>12 DEF Reads, Bank!More
    <2> QED
      BY <1>1, <1>10, <2>1 DEF Kept
  <1>14. Reads(p)'
    <2>1. c.line - 1 = n /\ c.line \in 1..Len(s.lines) + 1
      BY <1>5, <1>9
    <2>2. /\ \A key \in Bank!Keys : Cardinality(Occurrences(c.seen, key)) =
                                   Cardinality(Alikes(s, key, n))
          /\ c.imported + c.duplicates = Cardinality(Legible(s, n))
      BY <1>1, <1>2, <1>5, <1>8, <1>10, <1>12 DEF Reads, Bank!More
    <2>3. /\ c.id \in 1..Len(imports) /\ imports[c.id].status = "running"
          /\ imports[c.id].statement = s
      BY <1>1, <1>5, <1>8, <1>12 DEF Reads, Bank!More
    <2> QED
      BY <1>1, <1>5, <1>7, <1>11, <1>13, <2>1, <2>2, <2>3 DEF Reads
  <1> QED
    BY <1>1, <1>5, <1>6, <1>14, GoOnKeeps DEF Bank!More, BankInv, BankTypes

\* Reading a line, looking it up, and storing it.
LEMMA LookKeeps ==
    ASSUME BankInv, Shapes, NEW p \in Procs, Bank!Look(p) PROVE BankInv'
  <1>1. Bank!More(p) /\ Bank!Line(p).readable /\ UNCHANGED <<rows, imports>>
    BY DEF Bank!Look
  <1>2. PICK known \in BOOLEAN : known = (Bank!IdentityOf(p) \in rows)
    <2>1. CASE Bank!IdentityOf(p) \in rows
      <3>1. TRUE = (Bank!IdentityOf(p) \in rows) /\ TRUE \in BOOLEAN
        BY <2>1
      <3> QED
        BY <3>1
    <2>2. CASE Bank!IdentityOf(p) \notin rows
      <3>1. FALSE = (Bank!IdentityOf(p) \in rows) /\ FALSE \in BOOLEAN
        BY <2>2
      <3> QED
        BY <3>1
    <2> QED
      BY <2>1, <2>2
  <1>3. PICK word \in {"upsert"} : TRUE
    OBVIOUS
  <1>4. PICK c \in Readers :
            c = [importProc[p] EXCEPT !.at = word, !.known = known]
    BY ReaderOf DEF BankInv, Readers
  <1>5. /\ c.at = "upsert" /\ c.id = importProc[p].id
             /\ c.line = importProc[p].line
        /\ c.seen = importProc[p].seen /\ c.imported = importProc[p].imported
        /\ c.duplicates = importProc[p].duplicates
    BY <1>4, ReaderOf DEF BankInv, Readers
  <1>6. importProc' = [importProc EXCEPT ![p] = c]
    BY <1>2, <1>3, <1>4 DEF Bank!Look
  <1>7. importProc'[p] = c
    BY <1>6 DEF BankInv, BankTypes
  <1>8. Bank!Lines(p)' = Bank!Lines(p) /\ Bank!Line(p)' = Bank!Line(p)
    BY <1>1, <1>5, <1>7 DEF Bank!Lines, Bank!Line
  <1>9. Reads(p) /\ importProc[p].line <= Len(Bank!Lines(p))
    BY <1>1 DEF BankInv, Bank!More
  <1>10. Kept(imports[importProc[p].id].statement, importProc[p].line - 1)'
    BY <1>1, <1>5, <1>7, <1>9 DEF Reads, Bank!More, Kept
  <1>11. Reads(p)'
    BY <1>1, <1>5, <1>7, <1>8, <1>9, <1>10 DEF Reads, Bank!More
  <1> QED
    BY <1>1, <1>5, <1>6, <1>11, GoOnKeeps DEF Bank!More, BankInv, BankTypes

\* The identity of a line, by its format and its reference.
LEMMA IdentityIs ==
    ASSUME NEW format, NEW line, NEW at, NEW seen
    PROVE  Bank!Identity(format, line, at, seen) =
             IF format = "mt940"
             THEN [kind |-> "place", key |-> line.key, n |-> at]
             ELSE IF line.ref # NoRef
             THEN [kind |-> "reference", key |-> line.ref, n |-> 1]
             ELSE Row(line.key, 1 + Cardinality(Occurrences(seen, line.key)))
  <1>1. CASE format = "mt940"
    BY <1>1 DEF Bank!Identity
  <1>2. CASE format # "mt940" /\ line.ref # NoRef
    BY <1>2 DEF Bank!Identity
  <1>3. CASE format # "mt940" /\ line.ref = NoRef
    <2>1. Occurrences(seen, line.key) =
              {i \in DOMAIN seen : seen[i] = line.key}
      BY DEF Occurrences
    <2>2. Bank!Identity(format, line, at, seen) =
              [kind |-> "generated", key |-> line.key,
               n |-> 1 + Cardinality({i \in DOMAIN seen :
                                        seen[i] = line.key})]
      BY <1>3, BankCounts DEF Bank!Identity
    <2> QED
      BY <1>3, <2>1, <2>2 DEF Row
  <1> QED
    BY <1>1, <1>2, <1>3

\* The line is stored with its number among those that are alike.
LEMMA UpsertKeeps ==
    ASSUME BankInv, Shapes, NEW p \in Procs, Bank!Upsert(p) PROVE BankInv'
  <1>1. importProc[p].at = "upsert" /\ UNCHANGED imports
    BY DEF Bank!Upsert
  <1>2. PICK n \in Nat \ {0} : n = importProc[p].line
    BY <1>1, AtLine
  <1>3. PICK s \in Statements : s = imports[importProc[p].id].statement
    BY <1>1, AtLine
  <1>4. PICK key \in Bank!Keys : key = Bank!Line(p).key
    BY <1>1, AtLine
  <1>5. PICK seen \in Seq(Bank!Keys) :
            seen = IF Bank!Line(p).ref = NoRef
                   THEN Append(importProc[p].seen, key)
                   ELSE importProc[p].seen
    BY ReaderOf, AppendProperties DEF BankInv
  <1>5a. /\ importProc[p].known \in BOOLEAN /\ importProc[p].imported \in Nat
         /\ importProc[p].duplicates \in Nat
    BY ReaderOf DEF BankInv
  <1>6a. PICK next \in Nat : next = n + 1
    OBVIOUS
  <1>6b. PICK imported \in Nat :
            imported = IF importProc[p].known THEN importProc[p].imported
                                        ELSE importProc[p].imported + 1
    <2>1. CASE importProc[p].known
      BY <2>1, <1>5a
    <2>2. CASE ~ importProc[p].known
      BY <2>2, <1>5a
    <2> QED
      BY <2>1, <2>2
  <1>6c. PICK duplicates \in Nat :
            duplicates = IF importProc[p].known
                         THEN importProc[p].duplicates + 1
                         ELSE importProc[p].duplicates
    <2>1. CASE importProc[p].known
      BY <2>1, <1>5a
    <2>2. CASE ~ importProc[p].known
      BY <2>2, <1>5a
    <2> QED
      BY <2>1, <2>2
  <1>7. imported + duplicates =
            importProc[p].imported + importProc[p].duplicates + 1
    <2>1. CASE importProc[p].known
      BY <2>1, <1>5a, <1>6b, <1>6c
    <2>2. CASE ~ importProc[p].known
      BY <2>2, <1>5a, <1>6b, <1>6c
    <2> QED
      BY <2>1, <2>2
  <1>8. PICK word \in {"read"} : TRUE
    OBVIOUS
  <1>9. PICK c \in Readers :
            c = [importProc[p] EXCEPT !.at =
                word, !.line = next, !.seen = seen,
                                !.imported = imported,
                                !.duplicates = duplicates]
    BY ReaderOf DEF BankInv, Readers
  <1>10. /\ c.at = "read" /\ c.id = importProc[p].id /\ c.line = n + 1
         /\ c.seen = seen /\ c.imported = imported
         /\ c.duplicates = duplicates
    BY <1>6a, <1>9, ReaderOf DEF BankInv, Readers
  <1>11. importProc' = [importProc EXCEPT ![p] = c]
    BY <1>2, <1>4, <1>5, <1>6a, <1>6b, <1>6c, <1>8, <1>9 DEF Bank!Upsert
  <1>12. importProc'[p] = c
    BY <1>11 DEF BankInv, BankTypes
  <1>13. /\ Bank!Lines(p) = s.lines /\ Len(s.lines) \in Nat
         /\ n \in 1..Len(s.lines) /\ Bank!Line(p) = s.lines[n]
         /\ importProc[p].id \in 1..Len(imports)
    BY <1>1, <1>2, <1>3, AtLine
  <1>14. Reads(p)
    BY DEF BankInv
  <1>15. /\ s.lines[n].readable /\ Kept(s, n - 1)
         /\ imports[importProc[p].id].status = "running"
         /\ \A k \in Bank!Keys :
               Cardinality(Occurrences(importProc[p].seen, k)) =
               Cardinality(Alikes(s, k, n - 1))
         /\ importProc[p].imported + importProc[p].duplicates =
                Cardinality(Legible(s, n - 1))
    BY <1>1, <1>2, <1>3, <1>13, <1>14 DEF Reads
  <1>16. rows' = rows \cup {Bank!IdentityOf(p)}
    BY DEF Bank!Upsert
  <1>17. Bank!IdentityOf(p) =
             IF s.format = "mt940"
             THEN [kind |-> "place", key |-> key, n |-> n]
             ELSE IF s.lines[n].ref # NoRef
             THEN [kind |-> "reference", key |-> s.lines[n].ref, n |-> 1]
             ELSE Row(key, 1 + Cardinality(Alikes(s, key, n - 1)))
    BY <1>2, <1>3, <1>4, <1>13, <1>15, IdentityIs DEF Bank!IdentityOf
  <1>18. n - 1 \in Nat /\ \A k \in Bank!Keys :
             Cardinality(Alikes(s, k, n - 1)) \in Nat
    BY AlikesFinite
  <1>19. \A k \in Bank!Keys :
             Cardinality(Alikes(s, k, n)) =
                IF s.lines[n].ref = NoRef /\ k = key
                THEN Cardinality(Alikes(s, k, n - 1)) + 1
                ELSE Cardinality(Alikes(s, k, n - 1))
    BY <1>4, <1>13, <1>15, OneLine
  <1>20. Cardinality(Legible(s, n)) = Cardinality(Legible(s, n - 1)) + 1
    BY <1>15, OneLine
  <1>21. Kept(s, n)'
    <2> SUFFICES ASSUME s.format # "mt940", NEW k \in Bank!Keys,
                        NEW m \in 1..Cardinality(Alikes(s, k, n))
                 PROVE  Row(k, m) \in rows'
      BY DEF Kept
    <2>1. CASE m \in 1..Cardinality(Alikes(s, k, n - 1))
      BY <1>15, <1>16, <2>1 DEF Kept
    <2>2. CASE m \notin 1..Cardinality(Alikes(s, k, n - 1))
      <3>1. /\ s.lines[n].ref = NoRef /\ k = key
            /\ m = 1 + Cardinality(Alikes(s, key, n - 1))
        BY <1>18, <1>19, <2>2
      <3> QED
        BY <1>16, <1>17, <3>1
    <2> QED
      BY <2>1, <2>2
  <1>22. \A k \in Bank!Keys : Cardinality(Occurrences(seen, k)) =
                         Cardinality(Alikes(s, k, n))
    BY <1>5, <1>13, <1>15, <1>19, OneSeen, ReaderOf DEF BankInv
  <1>23. Reads(p)'
    <2>1. c.line - 1 = n /\ c.line \in 1..Len(s.lines) + 1
      BY <1>10, <1>13
    <2>2. Bank!Lines(p)' = s.lines /\ imports'[c.id].statement = s
      BY <1>1, <1>3, <1>10, <1>12 DEF Bank!Lines
    <2>3. imported + duplicates = Cardinality(Legible(s, n))
      BY <1>7, <1>15, <1>20
    <2>4. c.id \in 1..Len(imports') /\ imports'[c.id].status = "running"
      BY <1>1, <1>10, <1>13, <1>15
    <2> QED
      BY <1>10, <1>12, <1>21, <1>22, <2>1, <2>2, <2>3, <2>4 DEF Reads
  <1>24. ASSUME NEW r \in rows' \ rows PROVE Backed(r)'
    <2>1. r = Bank!IdentityOf(p)
      BY <1>16
    <2> SUFFICES ASSUME r.kind = "generated" PROVE Backed(r)'
      BY DEF Backed
    <2>2. /\ s.format # "mt940" /\ s.lines[n].ref = NoRef
          /\ r = Row(key, 1 + Cardinality(Alikes(s, key, n - 1)))
      BY <1>17, <2>1
    <2>3. PICK m \in Nat \ {0} : m = Cardinality(Alikes(s, key, n))
      BY <1>18, <1>19, <2>2
    <2>4. r = Row(key, m) /\ r.key = key /\ r.n = m
      BY <1>18, <1>19, <2>2, <2>3 DEF Row
    <2>5. m <= Cardinality(Alikes(s, key, Len(s.lines)))
      BY <1>13, <2>3, FewerLines
    <2> QED
      BY <1>1, <1>3, <1>13, <2>2, <2>4, <2>5 DEF Backed
  <1>25. IsFiniteSet(rows') /\ rows \subseteq rows'
    BY <1>16, FS_AddElement DEF BankInv, BankTypes
  <1> QED
    BY <1>1, <1>10, <1>11, <1>23, <1>24, <1>25, GoOnKeeps

\* The import has stored all its lines.
LEMMA CompleteKeeps ==
    ASSUME BankInv, Shapes, NEW p \in Procs, Bank!Complete(p) PROVE BankInv'
  <1>1. /\ importProc[p].at = "read"
             /\ ~ (importProc[p].line <= Len(Bank!Lines(p)))
        /\ rows' = rows /\ importProc' = [importProc EXCEPT ![p] = Bank!Idle]
    BY DEF Bank!Complete, Bank!More
  <1>2. Reads(p)
    BY DEF BankInv
  <1>3. PICK id \in 1..Len(imports) : id = importProc[p].id
    BY <1>1, <1>2 DEF Reads
  <1>4. PICK s \in Statements : s = imports[id].statement
    BY ImportOf DEF BankInv
  <1>5. Len(s.lines) \in Nat /\ Bank!Lines(p) = s.lines
    BY <1>3, <1>4 DEF Shapes, Bank!Lines
  <1>6. PICK n \in Nat : n = Len(imports) /\ imports \in Seq(ImportRows)
    BY LenProperties DEF BankInv, BankTypes
  <1>7. importProc[p].line - 1 = Len(s.lines)
    BY <1>1, <1>2, <1>5 DEF Reads
  <1>8. /\ Kept(s, Len(s.lines))
        /\ importProc[p].imported + importProc[p].duplicates =
              Cardinality(Legible(s, Len(s.lines)))
    BY <1>1, <1>2, <1>3, <1>4, <1>7 DEF Reads
  <1>9. PICK status \in {"completed", "empty"} :
            status = IF importProc[p].imported + importProc[p].duplicates > 0
                     THEN "completed" ELSE "empty"
    <2>1. CASE importProc[p].imported + importProc[p].duplicates > 0
      BY <2>1
    <2>2. CASE ~ (importProc[p].imported + importProc[p].duplicates > 0)
      BY <2>2
    <2> QED
      BY <2>1, <2>2
  <1>10. PICK imported \in Nat, duplicates \in Nat :
             imported = importProc[p].imported
               /\ duplicates = importProc[p].duplicates
    BY ReaderOf DEF BankInv
  <1>11. PICK r \in ImportRows :
             r = [imports[id] EXCEPT !.status = status, !.imported = imported,
                                     !.duplicates = duplicates]
    BY ImportOf DEF BankInv, ImportRows
  <1>12. /\ r.statement = s /\ r.status = status /\ r.imported = imported
         /\ r.duplicates = duplicates
    BY <1>4, <1>11, ImportOf DEF BankInv, ImportRows
  <1>13. imports' = [imports EXCEPT ![id] = r]
    BY <1>3, <1>6, <1>9, <1>10, <1>11 DEF Bank!Complete
  <1>14. /\ imports' \in Seq(ImportRows) /\ Len(imports') = n
         /\ imports'[id] = r
         /\ \A i \in 1..n : i # id => imports'[i] = imports[i]
    BY <1>6, <1>13, ExceptSeq
  <1>15. BankTypes' /\ importProc'[p] = Bank!Idle
         /\ \A q \in Procs \ {p} : importProc'[q] = importProc[q]
    BY <1>1, <1>14, IdleReader DEF BankInv, BankTypes
  <1>16. ImportsStay
    BY <1>4, <1>6, <1>12, <1>14 DEF ImportsStay
  <1>17. ASSUME NEW q \in Procs \ {p}, importProc[q].at # "idle"
         PROVE  imports'[importProc[q].id] = imports[importProc[q].id]
    <2>1. importProc[q].id \in 1..n /\ importProc[q].id # id
      BY <1>1, <1>3, <1>6, <1>17 DEF BankInv, Reads, Apart
    <2> QED
      BY <1>14, <2>1
  <1>18. Finished(id)'
    <2>1. Kept(s, Len(s.lines))'
      BY <1>1, <1>8 DEF Kept
    <2> QED
      BY <1>8, <1>10, <1>12, <1>14, <2>1 DEF Finished
  <1>19. importProc'[p].at = "idle" /\ Reads(p)'
    BY <1>15 DEF Bank!Idle, Reads
  <1>20. ASSUME NEW i \in 1..Len(imports')
         PROVE  Finished(i)'
                \/ (i \in 1..Len(imports) /\ imports'[i] = imports[i])
    BY <1>6, <1>14, <1>18
  <1> QED
    BY <1>1, <1>15, <1>16, <1>17, <1>19, <1>20, ProcessKeeps

\* Every step of an import.
LEMMA BankNextInv == ASSUME BankInv, Shapes, Bank!Next PROVE BankInv'
  <1>1. PICK p \in Procs :
            \/ \E s \in Statements : Bank!Begin(p, s)
            \/ Bank!Skip(p) \/ Bank!Look(p) \/ Bank!Upsert(p)
                 \/ Bank!Complete(p) \/ Bank!Crash(p)
    BY DEF Bank!Next
  <1> QED
    BY <1>1, BeginKeeps, SkipKeeps, LookKeeps, UpsertKeeps, CompleteKeeps,
       ImportCrashKeeps

LEMMA BankStutters == ASSUME BankInv, UNCHANGED Bank!vars PROVE BankInv'
  <1>1. UNCHANGED <<rows, imports, importProc, importCrashes>>
    BY DEF Bank!vars
  <1>2. BankTypes' /\ Apart'
    BY <1>1 DEF BankInv, BankTypes, Apart
  <1>3. ASSUME NEW p \in Procs PROVE Reads(p)'
    <2>1. Reads(p)
      BY DEF BankInv
    <2> QED
      BY <1>1, <2>1 DEF Reads, Bank!Lines, Bank!Line, Kept
  <1>4. ASSUME NEW i \in 1..Len(imports') PROVE Finished(i)'
    <2>1. Finished(i)
      BY <1>1 DEF BankInv
    <2> QED
      BY <1>1, <2>1 DEF Finished, Kept
  <1>5. ASSUME NEW r \in rows' PROVE Backed(r)'
    <2>1. Backed(r)
      BY <1>1 DEF BankInv
    <2> QED
      BY <1>1, <2>1 DEF Backed
  <1> QED
    BY <1>2, <1>3, <1>4, <1>5 DEF BankInv

-----------------------------------------------------------------------------
Group(key) == {r \in rows : r.kind = "generated" /\ r.key = key}

\* How often a statement shows a transaction without a reference.
LEMMA Multiple ==
    ASSUME Shapes, NEW s \in Statements, NEW key
    PROVE  Bank!Multiplicity(s, key) =
             IF s.format = "mt940" THEN 0
             ELSE Cardinality(Alikes(s, key, Len(s.lines)))
  <1>1. Alikes(s, key, Len(s.lines)) =
            {i \in DOMAIN s.lines : /\ s.lines[i].key = key
                                    /\ s.lines[i].ref = NoRef
                                    /\ s.lines[i].readable}
    BY DEF Alikes, Shapes
  <1> QED
    BY <1>1, BankCounts DEF Bank!Multiplicity

\* There are m numbers up to m.
LEMMA UpTo ==
    ASSUME NEW m \in Nat PROVE IsFiniteSet(1..m) /\ Cardinality(1..m) = m
  <1>1. CASE m = 0
    <2>1. 1..m = {}
      BY <1>1
    <2> QED
      BY <1>1, <2>1, FS_EmptySet
  <1>2. CASE m # 0
    <2>1. 1 \in Int /\ m \in Int /\ ~ (1 > m) /\ m - 1 + 1 = m
      BY <1>2
    <2>2. /\ IsFiniteSet(1..m)
          /\ Cardinality(1..m) = IF 1 > m THEN 0 ELSE m - 1 + 1
      BY <2>1, FS_Interval
    <2> QED
      BY <2>1, <2>2
  <1> QED
    BY <1>1, <1>2

\* As many rows as a statement has such lines.
LEMMA NoLess ==
    ASSUME BankInv, Shapes, NEW key \in Bank!Keys, NEW i \in 1..Len(imports),
           imports[i].status # "running"
    PROVE  Bank!Multiplicity(imports[i].statement, key) <=
               Cardinality(Group(key))
  <1>1. PICK s \in Statements : s = imports[i].statement
    BY ImportOf DEF BankInv
  <1>2. IsFiniteSet(Group(key)) /\ Cardinality(Group(key)) \in Nat
    <2>1. Group(key) \in SUBSET rows
      BY DEF Group
    <2>2. IsFiniteSet(Group(key))
      BY <2>1, FS_Subset DEF BankInv, BankTypes
    <2> QED
      BY <2>2, FS_CardinalityType
  <1>3. CASE s.format = "mt940"
    BY <1>1, <1>2, <1>3 DEF Bank!Multiplicity
  <1>4. CASE s.format # "mt940"
    <2>1. PICK m \in Nat : m = Cardinality(Alikes(s, key, Len(s.lines)))
      BY AlikesFinite DEF Shapes
    <2>2. Bank!Multiplicity(s, key) = m
      BY <1>4, <2>1, Multiple
    <2>3. \A k \in 1..m : Row(key, k) \in Group(key)
      <3>1. Kept(s, Len(s.lines))
        BY <1>1 DEF BankInv, Finished
      <3>2. \A k \in 1..m : Row(key, k) \in rows
        BY <1>4, <2>1, <3>1 DEF Kept
      <3> QED
        BY <3>2 DEF Group, Row
    <2>5. Cardinality(1..m) = m /\ IsFiniteSet(1..m)
      BY UpTo
    <2> DEFINE f == [k \in 1..m |-> Row(key, k)]
    <2>4. f \in Injection(1..m, Group(key))
      <3>1. f \in [1..m -> Group(key)]
        BY <2>3
      <3>2. ASSUME NEW a \in 1..m, NEW b \in 1..m, f[a] = f[b] PROVE a = b
        BY <3>2 DEF Row
      <3> QED
        BY <3>1, <3>2 DEF Injection, IsInjective
    <2>6. Cardinality(1..m) <= Cardinality(Group(key))
      BY <1>2, <2>4, FS_Injection
    <2> QED
      BY <1>1, <2>2, <2>5, <2>6
  <1> QED
    BY <1>3, <1>4

\* No more rows than one of the statements has such lines.
LEMMA NoMore ==
    ASSUME BankInv, Shapes, NEW key \in Bank!Keys, Group(key) # {}
    PROVE  \E i \in 1..Len(imports) :
              Cardinality(Group(key)) <=
                  Bank!Multiplicity(imports[i].statement, key)
  <1>1. Group(key) \in SUBSET rows /\ IsFiniteSet(rows)
    BY DEF Group, BankInv, BankTypes
  <1>2. IsFiniteSet(Group(key))
    BY <1>1, FS_Subset
  <1>3. \A r \in Group(key) : r.n \in Nat \ {0} /\ r = Row(key, r.n)
    BY DEF Group, BankInv, Backed
  <1> DEFINE f == [r \in Group(key) |-> r.n]
             S == {r.n : r \in Group(key)}
  <1>4. S \in SUBSET Nat /\ S # {}
    BY <1>3
  <1>5. IsFiniteSet(S)
    <2>1. f \in Surjection(Group(key), S)
      BY <1>3 DEF Surjection, Range
    <2> HIDE DEF f, S
    <2> QED
      BY <1>2, <2>1, FS_Surjection
  <1>6. PICK m \in S : \A n \in S : n <= m
    <2> HIDE DEF S
    <2> QED
      BY <1>4, <1>5, Largest
  <1>7. f \in Injection(Group(key), 1..m)
    <2>1. f \in [Group(key) -> 1..m]
      BY <1>3, <1>4, <1>6
    <2>2. ASSUME NEW a \in Group(key), NEW b \in Group(key), f[a] = f[b]
          PROVE  a = b
      BY <1>3, <2>2
    <2> QED
      BY <2>1, <2>2 DEF Injection, IsInjective
  <1>8. m \in Nat /\ IsFiniteSet(1..m) /\ Cardinality(1..m) = m
    BY <1>4, FS_Interval
  <1>9. Cardinality(Group(key)) <= m
    <2> HIDE DEF f
    <2> QED
      BY <1>7, <1>8, FS_Injection
  <1>10. PICK r \in Group(key) : r.n = m
    OBVIOUS
  <1>11. r.key = key /\ r.kind = "generated" /\ r \in rows
    BY DEF Group
  <1>12. PICK i \in 1..Len(imports) :
             /\ imports[i].statement.format # "mt940"
             /\ m <= Cardinality(Alikes(imports[i].statement, key,
                                        Len(imports[i].statement.lines)))
    BY <1>10, <1>11 DEF BankInv, Backed
  <1>13. PICK s \in Statements : s = imports[i].statement
    BY ImportOf DEF BankInv
  <1>14. Bank!Multiplicity(s, key) = Cardinality(Alikes(s, key, Len(s.lines)))
    BY <1>12, <1>13, Multiple
  <1>15. Bank!Multiplicity(s, key) \in Nat
    BY <1>14, AlikesFinite DEF Shapes
  <1>16. Cardinality(Group(key)) \in Nat
    BY <1>2, FS_CardinalityType
  <1> QED
    BY <1>8, <1>9, <1>12, <1>13, <1>14, <1>15, <1>16

\* The greatest of the multiplicities is one of them, or nought.
LEMMA MostIs ==
    ASSUME BankInv, Shapes, NEW key, NEW status
    PROVE  /\ Bank!Most(key, status) \in Nat
           /\ \A i \in 1..Len(imports) : imports[i].status \in status =>
                 Bank!Multiplicity(imports[i].statement, key) <=
                     Bank!Most(key, status)
           /\ \/ Bank!Most(key, status) = 0
              \/ \E i \in 1..Len(imports) :
                    /\ imports[i].status \in status
                    /\ Bank!Most(key, status) =
                          Bank!Multiplicity(imports[i].statement, key)
  <1>1. DOMAIN imports = 1..Len(imports) /\ Len(imports) \in Nat
    BY LenProperties DEF BankInv, BankTypes
  <1>2. PICK ids \in SUBSET (1..Len(imports)) :
            ids = {j \in DOMAIN imports : imports[j].status \in status}
    BY <1>1
  <1>3. \A i \in ids : Bank!Multiplicity(imports[i].statement, key) \in Nat
    <2>1. \A i \in ids : imports[i].statement \in Statements
      BY ImportOf DEF BankInv
    <2> QED
      BY <2>1, Multiple, AlikesFinite DEF Shapes
  <1> DEFINE f == [i \in ids |-> Bank!Multiplicity(imports[i].statement, key)]
             F == {Bank!Multiplicity(imports[i].statement, key) : i \in ids}
             S == {0} \cup F
  <1>4. IsFiniteSet(F)
    <2>1. f \in Surjection(ids, F)
      BY DEF Surjection, Range
    <2>2. IsFiniteSet(1..Len(imports))
      BY <1>1, FS_Interval
    <2>3. IsFiniteSet(ids)
      BY <2>2, FS_Subset
    <2> HIDE DEF f, F
    <2> QED
      BY <2>1, <2>3, FS_Surjection
  <1>5. IsFiniteSet(S)
    <2>1. S = F \cup {0}
      OBVIOUS
    <2> HIDE DEF F, S
    <2> QED
      BY <1>4, <2>1, FS_AddElement
  <1>6. S \in SUBSET Nat /\ S # {}
    BY <1>3
  <1>7. \E n \in S : \A m \in S : m <= n
    <2> HIDE DEF S
    <2> QED
      BY <1>5, <1>6, Largest
  <1>8. Bank!Most(key, status) = Bank!Greatest(S)
    BY <1>2 DEF Bank!Most
  <1>9. PICK most : most = Bank!Greatest(S)
    OBVIOUS
  <1>10. most \in S /\ \A m \in S : m <= most
    <2> HIDE DEF S
    <2> QED
      BY <1>7, <1>9 DEF Bank!Greatest
  <1>11. most \in Nat
    BY <1>6, <1>10
  <1>12. \A i \in ids : Bank!Multiplicity(imports[i].statement, key) <= most
    BY <1>10
  <1>13. \/ most = 0
         \/ \E i \in ids : most = Bank!Multiplicity(imports[i].statement, key)
    BY <1>10
  <1>14. \A i \in 1..Len(imports) :
             i \in ids <=> imports[i].status \in status
    BY <1>1, <1>2
  <1> HIDE DEF S, F, f
  <1>15. Bank!Most(key, status) = most
    BY <1>8, <1>9
  <1> QED
    BY <1>11, <1>12, <1>13, <1>14, <1>15

\* The ledger has what the statements show.
LEMMA BankRows == ASSUME BankInv, Shapes PROVE Bank!StatementRows
  <1>1. DOMAIN imports = 1..Len(imports) /\ Len(imports) \in Nat
    BY LenProperties DEF BankInv, BankTypes
  <1>2. ASSUME NEW key \in Bank!Keys
        PROVE  /\ Bank!Most(key, {"completed", "empty"}) <= Bank!Stored(key)
               /\ Bank!Stored(key) <=
                      Bank!Most(key, {"completed", "empty", "running"})
    <2>1. Bank!Stored(key) = Cardinality(Group(key))
      BY BankCounts DEF Bank!Stored, Group
    <2>2. IsFiniteSet(Group(key)) /\ Cardinality(Group(key)) \in Nat
      <3>1. Group(key) \in SUBSET rows
        BY DEF Group
      <3>2. IsFiniteSet(Group(key))
        BY <3>1, FS_Subset DEF BankInv, BankTypes
      <3> QED
        BY <3>2, FS_CardinalityType
    <2>3. Bank!Most(key, {"completed", "empty"}) <= Cardinality(Group(key))
      <3>1. CASE Bank!Most(key, {"completed", "empty"}) = 0
        BY <2>2, <3>1
      <3>2. CASE Bank!Most(key, {"completed", "empty"}) # 0
        <4>1. PICK i \in 1..Len(imports) :
                  /\ imports[i].status \in {"completed", "empty"}
                  /\ Bank!Most(key, {"completed", "empty"}) =
                        Bank!Multiplicity(imports[i].statement, key)
          BY <3>2, MostIs
        <4> QED
          BY <4>1, NoLess
      <3> QED
        BY <3>1, <3>2
    <2>4. PICK all : all = {"completed", "empty", "running"}
      OBVIOUS
    <2>5. Cardinality(Group(key)) <= Bank!Most(key, all)
      <3>1. CASE Group(key) = {}
        <4>1. Cardinality(Group(key)) = 0
          BY <3>1, FS_EmptySet
        <4> QED
          BY <4>1, MostIs
      <3>2. CASE Group(key) # {}
        <4>1. PICK i \in 1..Len(imports) : Cardinality(Group(key)) <=
                      Bank!Multiplicity(imports[i].statement, key)
          BY <3>2, NoMore
        <4>2. imports[i].status \in all
          BY <2>4, ImportOf DEF BankInv
        <4>3. Bank!Multiplicity(imports[i].statement, key) <=
                  Bank!Most(key, all)
          BY <4>2, MostIs
        <4>4. Bank!Multiplicity(imports[i].statement, key) \in Nat
          <5>1. imports[i].statement \in Statements
            BY ImportOf DEF BankInv
          <5> QED
            BY <5>1, Multiple, AlikesFinite DEF Shapes
        <4> QED
          BY <2>2, <4>1, <4>3, <4>4, MostIs
      <3> QED
        BY <3>1, <3>2
    <2> QED
      BY <2>1, <2>3, <2>4, <2>5
  <1>3. ASSUME NEW i \in 1..Len(imports), imports[i].status = "completed"
        PROVE  imports[i].imported + imports[i].duplicates =
                  Cardinality({k \in DOMAIN imports[i].statement.lines :
                                 imports[i].statement.lines[k].readable})
    <2>1. DOMAIN imports[i].statement.lines =
              1..Len(imports[i].statement.lines)
      BY ImportOf DEF BankInv
    <2>2. {k \in DOMAIN imports[i].statement.lines :
             imports[i].statement.lines[k].readable} =
          Legible(imports[i].statement, Len(imports[i].statement.lines))
      BY <2>1 DEF Legible
    <2> QED
      BY <1>3, <2>2 DEF BankInv, Finished
  <1> QED
    BY <1>1, <1>2, <1>3, BankCounts DEF Bank!StatementRows

\* The statements of the instance are sequences.
LEMMA StatementLines == Shapes
  BY DEF Shapes, Statements

-----------------------------------------------------------------------------
(***************************************************************************)
(* The postings without a ledger.  While one process alone works on an     *)
(* attempt, what it has still to do says what the attempt is (AtWork): the *)
(* target has it when it is about to be marked, a failure is counted once  *)
(* it is in the queue or buried.  An attempt that nobody works on is at    *)
(* rest (AtRest), and one that was refused is executed by nobody           *)
(* (RefusedHeld).  An attempt that two processes met at, or that was left  *)
(* by one that died, is disputed, and nothing is said of it.               *)
(***************************************************************************)
Decisions == {"approve", "reject", "complete"}
Trying == {"handle", "posted", "defer", "pause", "fail"}
Failing == {"count", "schedule", "bury", "report"}
Ending == {"complete_retry", "tell_document", "defer_retry", "ask"}
Executing == Trying \cup Failing \cup Ending

RowStates == {"absent", "approved", "posted", "posting_failed",
              "posting_in_progress", "posting_deferred",
              "supervision_required"} \cup Postings!Approvable
RetryRows == [status : {"none", "pending", "completed", "dead_letter"},
              count : 0..2, due : BOOLEAN]
Reasons == {"execution_failed", "dead_lettered", "supervision"}

\* A process rests or has a list, decides on an attempt, or executes one.
Rests == [at : {"idle", "pass"}, todo : SUBSET {"a"}]
Decides == [at : Decisions, todo : SUBSET {"a"}, a : {"a"}]
Executes == [at : Executing, a : {"a"}, todo : SUBSET {"a"},
             count : Nat, handler : BOOLEAN]

DataTypes ==
    /\ posting \in [{"a"} -> RowStates]
    /\ retries \in [{"a"} -> RetryRows]
    /\ asked \in [{"a"} -> SUBSET Reasons]
    /\ outside \in [{"a"} -> Nat]
    /\ failures \in [{"a"} -> Nat] /\ letters \in [{"a"} -> Nat]
    /\ refused \subseteq {"a"} /\ disputed \subseteq {"a"}
    /\ excused \subseteq {"a"}

PostTypes ==
    /\ DataTypes
    /\ postProc \in [Procs -> Rests \cup Decides \cup Executes]

On(p, a) == postProc[p].at \in Decisions \cup Executing /\ postProc[p].a = a

\* A failure has its next try or its review.
Followed(a) ==
    \/ retries[a].status = "pending" /\ retries[a].count < 2
    \/ "dead_lettered" \in asked[a]

\* The target has what is posted, and nothing else.
Told(a) ==
    /\ outside[a] <= 1
    /\ outside[a] = 1 <=> posting[a] = "posted"

Counted(a) == failures[a] = retries[a].count + letters[a]

AtRest(a) ==
    /\ Counted(a)
    /\ posting[a] = "posting_failed" => Followed(a)
    /\ a \notin excused => Told(a)

\* What holds of an attempt while one process alone works on it.
AtWork(a, p) ==
    /\ postProc[p].at = "approve" => posting[a] \in Postings!Approvable
    /\ postProc[p].at = "complete" => posting[a] = "supervision_required"
    /\ postProc[p].at \in Trying => posting[a] = "posting_in_progress"
    /\ postProc[p].at \in Failing => posting[a] = "posting_failed"
    /\ postProc[p].at \in Ending => posting[a] # "posting_failed"
    /\ postProc[p].at = "report" => Followed(a)
    /\ IF postProc[p].at \in {"fail", "count", "schedule"}
       THEN failures[a] = retries[a].count + letters[a] + 1
       ELSE Counted(a)
    /\ postProc[p].at = "schedule" => postProc[p].count = retries[a].count + 1
    /\ a \notin excused =>
        /\ IF postProc[p].at \in {"posted", "complete"} THEN outside[a] = 1
                                                    ELSE Told(a)
        /\ postProc[p].at = "reject" => posting[a] # "posted"

Alone(a) == \A p, q \in Procs : On(p, a) /\ On(q, a) => p = q

Right(a) ==
    /\ Alone(a)
    /\ \A p \in Procs : On(p, a) => AtWork(a, p)
    /\ (\A p \in Procs : ~ On(p, a)) => AtRest(a)

Uncrossed == \A a \in {"a"} \ disputed : Right(a)

\* Nobody executes what was refused.
RefusedHeld ==
    \A a \in refused :
        /\ posting[a] = "rejected"
        /\ \A p \in Procs : On(p, a)
             => postProc[p].at \in {"approve", "reject"}

PostInv == PostTypes /\ Uncrossed /\ RefusedHeld

-----------------------------------------------------------------------------
\* A process works on an attempt when it decides on it or executes it.
LEMMA WorksIs ==
    ASSUME PostTypes, NEW p \in Procs
    PROVE  Postings!Works(p) <=> postProc[p].at \in Decisions \cup Executing
  <1>1. CASE postProc[p] \in Rests
    <2>1. "a" \notin DOMAIN postProc[p] /\ postProc[p].at \in {"idle", "pass"}
      BY <1>1 DEF Rests
    <2> QED
      BY <2>1
         DEF Postings!Works, Decisions, Executing, Trying, Failing, Ending
  <1>2. CASE postProc[p] \in Decides
    BY <1>2 DEF Decides, Postings!Works, Decisions
  <1>3. CASE postProc[p] \in Executes
    BY <1>3 DEF Executes, Postings!Works, Executing, Trying, Failing, Ending
  <1> QED
    BY <1>1, <1>2, <1>3 DEF PostTypes

\* A process works on at most one attempt.
LEMMA OnIs ==
    ASSUME PostTypes, NEW p \in Procs, NEW a
    PROVE  On(p, a) <=> Postings!Works(p) /\ postProc[p].a = a
  BY WorksIs DEF On

\* What a process at a step is.
LEMMA AtIs ==
    ASSUME PostTypes, NEW p \in Procs
    PROVE  /\ postProc[p].at \in Executing =>
                 postProc[p] \in Executes /\ postProc[p].a \in {"a"}
                 /\ On(p, postProc[p].a)
           /\ postProc[p].at \in Decisions =>
                 postProc[p] \in Decides /\ postProc[p].a \in {"a"}
                 /\ On(p, postProc[p].a)
           /\ postProc[p].at \in {"idle", "pass"} =>
                 postProc[p] \in Rests /\ \A a : ~ On(p, a)
           /\ postProc[p].todo \subseteq {"a"}
  BY DEF PostTypes, Rests, Decides, Executes, Decisions, Executing, Trying,
         Failing, Ending, On

-----------------------------------------------------------------------------
\* What a process does to its attempt leaves the others alone.
Same(a) ==
    /\ posting'[a] = posting[a] /\ retries'[a] = retries[a]
         /\ asked'[a] = asked[a]
    /\ outside'[a] = outside[a] /\ failures'[a] = failures[a]
    /\ letters'[a] = letters[a]
    /\ (a \in excused') = (a \in excused)
    /\ (a \in refused') = (a \in refused)
    /\ (a \in disputed') = (a \in disputed)

\* An attempt that a step leaves alone is as right as it was.
LEMMA SameRight ==
    ASSUME NEW a, Same(a), Right(a),
           \A p \in Procs : On(p, a)' = On(p, a),
           \A p \in Procs : On(p, a) => postProc'[p] = postProc[p]
    PROVE  Right(a)'
  <1>1. Followed(a)' = Followed(a) /\ Told(a)' = Told(a)
        /\ Counted(a)' = Counted(a)
    BY DEF Same, Followed, Told, Counted
  <1>2. AtRest(a)' = AtRest(a)
    BY <1>1 DEF Same, AtRest
  <1>3. ASSUME NEW p \in Procs, On(p, a) PROVE AtWork(a, p)' = AtWork(a, p)
    BY <1>1, <1>3 DEF Same, AtWork
  <1> QED
    BY <1>2, <1>3 DEF Right, Alone

\* A step that changes one attempt keeps what holds of all.
LEMMA Keep ==
    ASSUME PostInv, PostTypes', NEW p \in Procs, NEW b \in {"a"},
           \A q \in Procs \ {p} : postProc'[q] = postProc[q],
           \A a \in {"a"} \ {b} : Same(a),
           \A a \in {"a"} \ {b} : ~ On(p, a) /\ ~ On(p, a)',
           b \notin disputed' => Right(b)',
           b \in refused' =>
              /\ posting'[b] = "rejected"
              /\ \A q \in Procs : On(q, b)' =>
                    postProc'[q].at \in {"approve", "reject"}
    PROVE  PostInv'
  <1>1. ASSUME NEW a \in {"a"} \ {b}, NEW q \in Procs
        PROVE  On(q, a)' = On(q, a)
                 /\ (On(q, a) => postProc'[q] = postProc[q])
    <2>1. CASE q = p
      BY <2>1 DEF On
    <2>2. CASE q # p
      <3>1. postProc'[q] = postProc[q]
        BY <2>2
      <3> QED
        BY <3>1 DEF On
    <2> QED
      BY <2>1, <2>2
  <1>2. Uncrossed'
    <2> SUFFICES ASSUME NEW a \in {"a"}, a \notin disputed' PROVE Right(a)'
      BY DEF Uncrossed
    <2>1. CASE a # b
      <3>1. Same(a) /\ Right(a)
        BY <2>1 DEF Same, PostInv, Uncrossed
      <3> QED
        BY <2>1, <3>1, <1>1, SameRight
    <2> QED
      BY <2>1
  <1>3. RefusedHeld'
    <2> SUFFICES ASSUME NEW a \in refused'
                 PROVE  /\ posting'[a] = "rejected"
                        /\ \A q \in Procs : On(q, a)' =>
                              postProc'[q].at \in {"approve", "reject"}
      BY DEF RefusedHeld
    <2>1. a \in {"a"}
      BY DEF PostTypes, DataTypes
    <2>2. CASE a # b
      <3>1. a \in refused /\ posting'[a] = posting[a]
        BY <2>1, <2>2 DEF Same
      <3> QED
        BY <2>1, <2>2, <3>1, <1>1 DEF PostInv, RefusedHeld
    <2> QED
      BY <2>2
  <1> QED
    BY <1>2, <1>3 DEF PostInv

\* A process goes to its next step.
LEMMA GotoIs ==
    ASSUME PostTypes, NEW p \in Procs, postProc[p] \in Executes,
           NEW step \in Executing, Postings!Goto(p, step)
    PROVE  \E c \in Executes :
              /\ c.at = step /\ c.a = postProc[p].a
                   /\ c.count = postProc[p].count
              /\ c.handler = postProc[p].handler
              /\ postProc' = [postProc EXCEPT ![p] = c]
  <1>1. PICK c \in Executes : c = [postProc[p] EXCEPT !.at = step]
    BY DEF Executes
  <1>2. /\ c.at = step /\ c.a = postProc[p].a /\ c.count = postProc[p].count
        /\ c.handler = postProc[p].handler
    BY <1>1 DEF Executes
  <1>3. postProc' = [postProc EXCEPT ![p] = c]
    BY <1>1 DEF Postings!Goto
  <1> QED
    BY <1>2, <1>3

\* A process is done with its attempt and goes on with its list.
LEMMA DoneIs ==
    ASSUME PostTypes, NEW p \in Procs, postProc[p] \in Executes,
           Postings!Done(p)
    PROVE  \E c \in Rests : postProc' = [postProc EXCEPT ![p] = c]
  <1>1. PICK ts \in SUBSET {"a"} : ts = postProc[p].todo
    BY DEF Executes
  <1>2. PICK at \in {"idle", "pass"} :
            at = IF postProc[p].todo = {} THEN "idle" ELSE "pass"
    OBVIOUS
  <1>3. PICK c \in Rests : c = [Postings!Idle EXCEPT !.todo = ts, !.at = at]
    BY DEF Postings!Idle, Rests
  <1>4. postProc' = [postProc EXCEPT ![p] = c]
    BY <1>1, <1>2, <1>3 DEF Postings!Done
  <1> QED
    BY <1>4

\* The process that executes an attempt goes on, or is done with it.
LEMMA Moves ==
    ASSUME PostInv, NEW p \in Procs, NEW b \in {"a"}, NEW c \in Executes,
           postProc[p].at \in Executing, postProc[p].a = b, c.a = b,
           postProc' = [postProc EXCEPT ![p] = c], DataTypes',
           disputed' = disputed, refused' = refused,
           \A a \in {"a"} \ {b} : Same(a),
           b \notin disputed => AtWork(b, p)'
    PROVE  PostInv'
  <1>1. PostTypes' /\ postProc'[p] = c
          /\ \A q \in Procs \ {p} : postProc'[q] = postProc[q]
    BY DEF PostInv, PostTypes
  <1>2. On(p, b) /\ On(p, b)'
    BY <1>1 DEF On, Executes
  <1>3. \A a \in {"a"} \ {b} : ~ On(p, a) /\ ~ On(p, a)'
    BY <1>1 DEF On
  <1>4. b \notin refused
    BY <1>2 DEF PostInv, RefusedHeld, Executing, Trying, Failing, Ending
  <1>5. ASSUME b \notin disputed PROVE Right(b)'
    <2>1. Alone(b)
      BY <1>5 DEF PostInv, Uncrossed, Right
    <2>2. ASSUME NEW q \in Procs, q # p PROVE ~ On(q, b) /\ ~ On(q, b)'
      BY <2>1, <2>2, <1>1, <1>2 DEF Alone, On
    <2> QED
      BY <1>2, <1>5, <2>2 DEF Right, Alone
  <1> QED
    BY <1>1, <1>3, <1>4, <1>5, Keep

\* The process leaves its attempt, which comes to rest.
LEMMA Leaves ==
    ASSUME PostInv, NEW p \in Procs, NEW b \in {"a"}, NEW c \in Rests,
           postProc[p].at \in Decisions \cup Executing, postProc[p].a = b,
           postProc' = [postProc EXCEPT ![p] = c], DataTypes',
           disputed' = disputed,
           \A a \in {"a"} \ {b} : Same(a),
           b \notin disputed => AtRest(b)',
           b \in refused' =>
              /\ posting'[b] = "rejected"
              /\ \A q \in Procs \ {p} : On(q, b) =>
                    postProc[q].at \in {"approve", "reject"}
    PROVE  PostInv'
  <1>1. PostTypes' /\ postProc'[p] = c
          /\ \A q \in Procs \ {p} : postProc'[q] = postProc[q]
    BY DEF PostInv, PostTypes
  <1>2. On(p, b) /\ \A a : ~ On(p, a)'
    BY <1>1 DEF On, Rests, Decisions, Executing, Trying, Failing, Ending
  <1>3. \A a \in {"a"} \ {b} : ~ On(p, a) /\ ~ On(p, a)'
    BY <1>2 DEF On
  <1>4. ASSUME b \in refused'
        PROVE  \A q \in Procs : On(q, b)' =>
                    postProc'[q].at \in {"approve", "reject"}
    BY <1>1, <1>2, <1>4 DEF On
  <1>5. ASSUME b \notin disputed PROVE Right(b)'
    <2>1. Alone(b)
      BY <1>5 DEF PostInv, Uncrossed, Right
    <2>2. ASSUME NEW q \in Procs PROVE ~ On(q, b)'
      BY <2>1, <1>1, <1>2 DEF Alone, On
    <2> QED
      BY <1>5, <2>2 DEF Right, Alone
  <1> QED
    BY <1>1, <1>3, <1>4, <1>5, Keep

\* A process begins to work on an attempt: with others, it crosses them.
LEMMA Begins ==
    ASSUME PostInv, NEW p \in Procs, NEW b \in {"a"},
           NEW c \in Decides \cup Executes,
           postProc[p].at \in {"idle", "pass"}, c.a = b,
           postProc' = [postProc EXCEPT ![p] = c], DataTypes',
           Postings!Meet(p, b), refused' = refused,
           \A a \in {"a"} \ {b} : Same(a),
           AtRest(b) /\ b \notin disputed => AtWork(b, p)',
           b \in refused =>
              posting'[b] = "rejected" /\ c.at \in {"approve", "reject"}
    PROVE  PostInv'
  <1>1. PostTypes' /\ postProc'[p] = c
          /\ \A q \in Procs \ {p} : postProc'[q] = postProc[q]
    BY DEF PostInv, PostTypes
  <1>2. On(p, b)' /\ \A a : ~ On(p, a)
    BY <1>1
       DEF On, Decides, Executes, Decisions, Executing, Trying, Failing,
           Ending
  <1>3. \A a \in {"a"} \ {b} : ~ On(p, a) /\ ~ On(p, a)'
    BY <1>1, <1>2 DEF On
  <1>4. ASSUME b \in refused'
        PROVE  /\ posting'[b] = "rejected"
               /\ \A q \in Procs : On(q, b)' =>
                    postProc'[q].at \in {"approve", "reject"}
    BY <1>1, <1>4 DEF On, PostInv, RefusedHeld
  <1>5. ASSUME b \notin disputed' PROVE Right(b)'
    <2>1. b \notin disputed /\ Postings!Others(p, b) = {}
      BY <1>5 DEF Postings!Meet
    <2>2. ASSUME NEW q \in Procs, q # p PROVE ~ On(q, b) /\ ~ On(q, b)'
      <3>1. ~ On(q, b)
        BY <2>1, <2>2, OnIs DEF Postings!Others, PostInv
      <3> QED
        BY <3>1, <2>2, <1>1 DEF On
    <2>3. AtRest(b)
      BY <2>1, <2>2, <1>2 DEF PostInv, Uncrossed, Right
    <2> QED
      BY <1>2, <2>1, <2>2, <2>3 DEF Right, Alone
  <1> QED
    BY <1>1, <1>3, <1>4, <1>5, Keep

-----------------------------------------------------------------------------
LEMMA PostInitInv == ASSUME Postings!Init PROVE PostInv
  <1>1. DataTypes
    BY DEF Postings!Init, DataTypes, RowStates, RetryRows, Reasons
  <1>2. Postings!Idle \in Rests
    BY DEF Postings!Idle, Rests
  <1>3. PostTypes
    BY <1>1, <1>2 DEF Postings!Init, PostTypes
  <1>4. \A p \in Procs, a \in {"a"} : ~ On(p, a)
    BY DEF Postings!Init, On, Postings!Idle, Decisions, Executing, Trying,
           Failing, Ending
  <1>5. ASSUME NEW a \in {"a"} PROVE AtRest(a)
    BY DEF Postings!Init, AtRest, Counted, Told
  <1> QED
    BY <1>3, <1>4, <1>5
       DEF PostInv, Uncrossed, Right, Alone, RefusedHeld, Postings!Init

\* An attempt that changes by itself: its dry run, the time of its retry.
LEMMA AlsoRight ==
    ASSUME PostInv, NEW b \in {"a"}, postProc' = postProc, DataTypes',
           \A a \in {"a"} \ {b} : Same(a), disputed' = disputed,
           refused' = refused, posting'[b] = "rejected" \/ b \notin refused,
           \A p \in Procs :
              On(p, b) /\ b \notin disputed /\ AtWork(b, p) => AtWork(b, p)',
           AtRest(b) => AtRest(b)'
    PROVE  PostInv'
  <1>1. PostTypes'
    BY DEF PostInv, PostTypes
  <1>2. \A p \in Procs, a \in {"a"} : On(p, a)' = On(p, a)
    BY DEF On
  <1>3. ASSUME NEW a \in {"a"}, a \notin disputed PROVE Right(a)'
    <2>1. Right(a)
      BY <1>3 DEF PostInv, Uncrossed
    <2>2. CASE a = b
      <3>1. Alone(a)'
        BY <1>2, <2>1 DEF Right, Alone
      <3>2. ASSUME NEW p \in Procs, On(p, a)' PROVE AtWork(a, p)'
        <4>1. On(p, b) /\ AtWork(b, p)
          BY <1>2, <2>1, <2>2, <3>2 DEF Right
        <4>2. AtWork(b, p)'
          BY <1>3, <2>2, <4>1
        <4> QED
          BY <2>2, <4>2 DEF AtWork, Counted, Told, Followed
      <3>3. (\A p \in Procs : ~ On(p, a)') => AtRest(a)'
        <4> SUFFICES ASSUME \A p \in Procs : ~ On(p, a)' PROVE AtRest(a)'
          OBVIOUS
        <4>1. AtRest(b)'
          BY <1>2, <2>1, <2>2 DEF Right
        <4> QED
          BY <2>2, <4>1 DEF AtRest, Counted, Told, Followed
      <3> QED
        BY <3>1, <3>2, <3>3 DEF Right
    <2>3. CASE a # b
      BY <1>2, <2>1, <2>3, SameRight
    <2> QED
      BY <2>2, <2>3
  <1>4. ASSUME NEW a \in refused' PROVE posting'[a] = "rejected"
    <2>1. a \in refused /\ a \in {"a"} /\ posting[a] = "rejected"
      BY DEF PostInv, PostTypes, DataTypes, RefusedHeld
    <2>2. CASE a = b
      BY <2>1, <2>2
    <2>3. CASE a # b
      BY <2>1, <2>3 DEF Same
    <2> QED
      BY <2>2, <2>3
  <1>5. RefusedHeld'
    BY <1>4 DEF PostInv, RefusedHeld, On
  <1> QED
    BY <1>1, <1>3, <1>5 DEF PostInv, Uncrossed

\* create_dry_run, and a retry that becomes due.
LEMMA DryRunKeeps ==
    ASSUME PostInv, NEW b \in {"a"}, Postings!CreateDryRun(b) PROVE PostInv'
  <1> USE DEF Postings!CreateDryRun
  <1>1. DataTypes'
    BY DEF PostInv, PostTypes, DataTypes, RowStates, Postings!Approvable,
           Postings!ghosts
  <1>2. posting'[b] = "dry_run_created"
    BY DEF PostInv, PostTypes, DataTypes
  <1>3. \A a \in {"a"} \ {b} : Same(a)
    BY DEF PostInv, PostTypes, DataTypes, Same, Postings!ghosts
  <1>4. b \notin refused
    BY DEF PostInv, RefusedHeld
  <1>5. ASSUME NEW p \in Procs, AtWork(b, p) PROVE AtWork(b, p)'
    BY <1>2, <1>5
       DEF AtWork, Counted, Told, Followed, Postings!ghosts,
           Postings!Approvable, Trying, Failing, Ending
  <1>6. AtRest(b) => AtRest(b)'
    BY <1>2 DEF AtRest, Counted, Told, Followed, Postings!ghosts
  <1> QED
    BY <1>1, <1>3, <1>4, <1>5, <1>6, AlsoRight DEF Postings!ghosts

\* A field of a row of the queue changes.
LEMMA RetryOf ==
    ASSUME PostTypes, NEW b \in {"a"}
    PROVE  /\ retries[b] \in RetryRows
           /\ retries[b].status \in
                  {"none", "pending", "completed", "dead_letter"}
           /\ retries[b].count \in 0..2
           /\ retries[b].due \in BOOLEAN
  BY DEF PostTypes, DataTypes, RetryRows

LEMMA QueueType ==
    ASSUME PostTypes, NEW b \in {"a"}, NEW r \in RetryRows,
           retries' = [retries EXCEPT ![b] = r]
    PROVE  /\ retries' \in [{"a"} -> RetryRows] /\ retries'[b] = r
           /\ \A a \in {"a"} \ {b} : retries'[a] = retries[a]
  BY DEF PostTypes, DataTypes

LEMMA DueKeeps ==
    ASSUME PostInv, NEW b \in {"a"}, Postings!BecomeDue(b) PROVE PostInv'
  <1>1. PICK r \in RetryRows : r = [retries[b] EXCEPT !.due = TRUE]
    BY RetryOf DEF PostInv, RetryRows
  <1>2. r.status = retries[b].status /\ r.count = retries[b].count
    BY <1>1, RetryOf DEF PostInv, RetryRows
  <1>3. retries' = [retries EXCEPT ![b] = r]
    BY <1>1 DEF Postings!BecomeDue
  <1>4. /\ retries' \in [{"a"} -> RetryRows] /\ retries'[b] = r
        /\ \A a \in {"a"} \ {b} : retries'[a] = retries[a]
    BY <1>3, QueueType DEF PostInv
  <1>5. UNCHANGED <<posting, asked, postProc, outside, failures, letters,
                    refused, disputed, excused>>
    BY DEF Postings!BecomeDue, Postings!ghosts
  <1>6. DataTypes'
    BY <1>4, <1>5 DEF PostInv, PostTypes, DataTypes
  <1>7. \A a \in {"a"} \ {b} : Same(a)
    BY <1>4, <1>5 DEF Same
  <1>8. ASSUME NEW p \in Procs, AtWork(b, p) PROVE AtWork(b, p)'
    BY <1>2, <1>4, <1>5, <1>8 DEF AtWork, Counted, Told, Followed
  <1>9. AtRest(b) => AtRest(b)'
    BY <1>2, <1>4, <1>5 DEF AtRest, Counted, Told, Followed
  <1>10. posting'[b] = "rejected" \/ b \notin refused
    BY <1>5 DEF PostInv, RefusedHeld
  <1> QED
    BY <1>5, <1>6, <1>7, <1>8, <1>9, <1>10, AlsoRight

\* A process that decides, or that lists attempts.
LEMMA ListKeeps ==
    ASSUME PostInv, NEW p \in Procs, NEW c \in Rests,
           postProc[p].at \in {"idle", "pass"},
           postProc' = [postProc EXCEPT ![p] = c],
           UNCHANGED <<Postings!rowVars, Postings!ghosts, disputed, excused>>
    PROVE  PostInv'
  <1>1. PostTypes'
    BY DEF PostInv, PostTypes, DataTypes, Postings!rowVars, Postings!ghosts
  <1>2. \A q \in Procs, a \in {"a"} : On(q, a)' = On(q, a)
    BY DEF PostInv, PostTypes, On, Rests, Decisions, Executing, Trying,
           Failing, Ending
  <1>3. \A q \in Procs, a \in {"a"} : On(q, a) => postProc'[q] = postProc[q]
    BY DEF PostInv, PostTypes, On, Rests, Decisions, Executing, Trying,
           Failing, Ending
  <1>4. ASSUME NEW a \in {"a"}, Right(a) PROVE Right(a)'
    <2>1. Same(a)
      BY DEF Same, Postings!rowVars, Postings!ghosts
    <2> QED
      BY <1>2, <1>3, <1>4, <2>1, SameRight
  <1>5. Uncrossed'
    BY <1>4 DEF PostInv, Uncrossed
  <1>6. RefusedHeld'
    <2> SUFFICES ASSUME NEW a \in refused, NEW q \in Procs, On(q, a)'
                 PROVE  postProc'[q].at \in {"approve", "reject"}
      BY DEF PostInv, RefusedHeld, Postings!rowVars, Postings!ghosts
    <2>1. a \in {"a"}
      BY DEF PostInv, PostTypes, DataTypes
    <2>2. On(q, a) /\ postProc'[q] = postProc[q]
      BY <1>2, <1>3, <2>1
    <2> QED
      BY <2>2 DEF PostInv, RefusedHeld
  <1> QED
    BY <1>1, <1>5, <1>6 DEF PostInv

\* A pass lists what is to be executed.
LEMMA PassKeeps ==
    ASSUME PostInv, NEW p \in Procs, Postings!ProcessDueRetries(p)
             \/ Postings!ProcessApproved(p)
    PROVE  PostInv'
  <1>1. PICK listed \in SUBSET {"a"} : Postings!Pass(p, listed)
    BY DEF Postings!ProcessDueRetries, Postings!ProcessApproved,
           Postings!DueItems
  <1>2. PICK c \in Rests : c = [at |-> "pass", todo |-> listed]
    BY DEF Rests
  <1>3. postProc[p].at \in {"idle", "pass"}
          /\ postProc' = [postProc EXCEPT ![p] = c]
    BY <1>1, <1>2 DEF Postings!Pass, Postings!Idle
  <1>4. UNCHANGED <<Postings!rowVars, Postings!ghosts, disputed, excused>>
    BY <1>1 DEF Postings!Pass
  <1> QED
    BY <1>3, <1>4, ListKeeps

\* An operator begins to decide.
LEMMA ActKeeps ==
    ASSUME PostInv, NEW p \in Procs, NEW b \in {"a"},
           NEW step \in Decisions, Postings!Act(p, b, step),
           outside' = outside \/ outside' = [outside EXCEPT ![b] = @ + 1],
           excused' = excused \/ excused' = excused \cup {b},
           posting[b] # "absent",
           step = "approve" => posting[b] \in Postings!Approvable,
           step \in {"approve", "reject"} => outside' = outside,
           step = "reject" /\ excused' = excused
             => posting[b] # "posted" \/ b \in excused,
           step = "complete" => /\ posting[b] = "supervision_required"
                                /\ outside'[b] = outside[b] + 1
                                /\ excused' = excused
    PROVE  PostInv'
  <1>1. PICK c \in Decides : c = [at |-> step, todo |-> {}, a |-> b]
    BY DEF Decides
  <1>2. c.at = step /\ c.a = b
    BY <1>1
  <1>3. postProc' = [postProc EXCEPT ![p] = c] /\ postProc[p].at = "idle"
    BY <1>1 DEF Postings!Act, Postings!Idle
  <1>4. UNCHANGED <<posting, retries, asked, failures, letters, refused>>
    BY DEF Postings!Act, Postings!rowVars
  <1>5. disputed' \subseteq {"a"} /\ \A a \in {"a"} \ {b} :
            (a \in disputed') = (a \in disputed)
    BY DEF Postings!Act, Postings!Meet, PostInv, PostTypes, DataTypes
  <1>6. DataTypes'
    <2>1. outside' \in [{"a"} -> Nat]
      <3>1. PICK n \in Nat : n = outside[b] + 1
        BY DEF PostInv, PostTypes, DataTypes
      <3>2. outside' = outside \/ outside' = [outside EXCEPT ![b] = n]
        BY <3>1
      <3> QED
        BY <3>2 DEF PostInv, PostTypes, DataTypes
    <2>2. excused' \subseteq {"a"}
      BY DEF PostInv, PostTypes, DataTypes
    <2> QED
      BY <1>4, <1>5, <2>1, <2>2 DEF PostInv, PostTypes, DataTypes
  <1>7. \A a \in {"a"} \ {b} : Same(a)
    BY <1>4, <1>5 DEF Same, PostInv, PostTypes, DataTypes
  <1>8. postProc'[p] = c
    BY <1>3 DEF PostInv, PostTypes
  <1>9. ASSUME AtRest(b), b \notin disputed PROVE AtWork(b, p)'
    <2>1. Counted(b)'
      BY <1>4, <1>9 DEF AtRest, Counted
    <2>2. ASSUME b \notin excused'
          PROVE  /\ IF step = "complete" THEN outside'[b] = 1 ELSE Told(b)'
                 /\ step = "reject" => posting'[b] # "posted"
      <3>1. b \notin excused /\ Told(b)
        BY <1>9, <2>2 DEF AtRest
      <3>2. outside[b] \in Nat
        BY DEF PostInv, PostTypes, DataTypes
      <3>3. excused' = excused
        BY <2>2
      <3> QED
        BY <1>4, <3>1, <3>2, <3>3 DEF Told, Decisions
    <2>3. step \notin Executing
      BY DEF Decisions, Executing, Trying, Failing, Ending
    <2> QED
      BY <1>2, <1>4, <1>8, <2>1, <2>2, <2>3
         DEF AtWork, Decisions, Trying, Failing, Ending
  <1>10. b \in refused => posting'[b] = "rejected"
           /\ c.at \in {"approve", "reject"}
    BY <1>2, <1>4 DEF PostInv, RefusedHeld, Decisions
  <1>11. Postings!Meet(p, b)
    BY DEF Postings!Act
  <1> QED
    BY <1>2, <1>3, <1>4, <1>6, <1>7, <1>9, <1>10, <1>11, Begins

\* The decisions of the operator: approve, reject, complete.
LEMMA DecideKeeps ==
    ASSUME PostInv, NEW p \in Procs, NEW b \in {"a"},
           Postings!Approve(p, b) \/ Postings!Reject(p, b)
             \/ Postings!Complete(p, b)
    PROVE  PostInv'
  <1>1. CASE Postings!Approve(p, b)
    <2>1. "approve" \in Decisions /\ posting[b] # "absent"
      BY <1>1 DEF Postings!Approve, Decisions, Postings!Approvable
    <2> QED
      BY <1>1, <2>1, ActKeeps DEF Postings!Approve
  <1>2. CASE Postings!Reject(p, b)
    <2>1. "reject" \in Decisions
      BY DEF Decisions
    <2> QED
      BY <1>2, <2>1, ActKeeps DEF Postings!Reject
  <1>3. CASE Postings!Complete(p, b)
    <2>1. "complete" \in Decisions
      BY DEF Decisions
    <2>2. outside'[b] = outside[b] + 1
      BY <1>3 DEF Postings!Complete, PostInv, PostTypes, DataTypes
    <2> QED
      BY <1>3, <2>1, <2>2, ActKeeps DEF Postings!Complete
  <1> QED
    BY <1>1, <1>2, <1>3

\* What an attempt is when its only process is at a step.
LEMMA WorkIs ==
    ASSUME PostInv, NEW p \in Procs, NEW b \in {"a"}, b \notin disputed,
           postProc[p].at \in Decisions \cup Executing, postProc[p].a = b
    PROVE  AtWork(b, p)
  BY DEF PostInv, Uncrossed, Right, On

\* The decision is written.
LEMMA DecidedKeeps ==
    ASSUME PostInv, NEW p \in Procs, NEW b \in {"a"},
           NEW status \in {"approved", "rejected", "posted"},
           postProc[p].at \in Decisions, postProc[p].a = b,
           Postings!Decided(p, status),
           status = "posted" <=> postProc[p].at = "complete",
           asked' \in [{"a"} -> SUBSET Reasons],
           \A a \in {"a"} \ {b} : asked'[a] = asked[a],
           refused' \subseteq {"a"},
           \A a \in {"a"} \ {b} : (a \in refused') = (a \in refused),
           b \in refused' => status = "rejected"
             /\ (b \in refused \/ Postings!Others(p, b) = {})
    PROVE  PostInv'
  <1>1. Postings!Idle \in Rests
    BY DEF Postings!Idle, Rests
  <1>2. /\ posting' = [posting EXCEPT ![b] = status]
        /\ postProc' = [postProc EXCEPT ![p] = Postings!Idle]
        /\ UNCHANGED <<retries, outside, failures, letters, disputed,
           excused>>
    BY DEF Postings!Decided
  <1>3. DataTypes'
    BY <1>2 DEF PostInv, PostTypes, DataTypes, RowStates, Postings!Approvable
  <1>4. /\ posting'[b] = status
        /\ \A a \in {"a"} \ {b} : posting'[a] = posting[a]
    BY <1>2 DEF PostInv, PostTypes, DataTypes
  <1>5. \A a \in {"a"} \ {b} : Same(a)
    BY <1>2, <1>4 DEF Same
  <1>6. ASSUME b \notin disputed PROVE AtRest(b)'
    <2>1. AtWork(b, p)
      BY <1>6, WorkIs
    <2>2. Counted(b)'
      BY <2>1, <1>2 DEF AtWork, Counted, Decisions
    <2>3. b \notin excused => Told(b)'
      <3>1. outside[b] \in Nat
        BY DEF PostInv, PostTypes, DataTypes
      <3> QED
        BY <2>1, <1>2, <1>4, <3>1
           DEF AtWork, Told, Decisions, Postings!Approvable
    <2> QED
      BY <2>2, <2>3, <1>2, <1>4 DEF AtRest
  <1>7. ASSUME b \in refused', NEW q \in Procs \ {p}, On(q, b)
        PROVE  postProc[q].at \in {"approve", "reject"}
    <2>1. Postings!Others(p, b) # {}
      BY <1>7, OnIs DEF Postings!Others, PostInv
    <2> QED
      BY <2>1, <1>7 DEF PostInv, RefusedHeld
  <1> QED
    BY <1>1, <1>2, <1>3, <1>4, <1>5, <1>6, <1>7, Leaves

LEMMA DecisionsKeep ==
    ASSUME PostInv, NEW p \in Procs,
           Postings!ApproveWrite(p) \/ Postings!RejectWrite(p)
             \/ Postings!CompleteWrite(p)
    PROVE  PostInv'
  <1>1. PICK b \in {"a"} : b = postProc[p].a /\ postProc[p].at \in Decisions
    BY AtIs
       DEF Postings!ApproveWrite, Postings!RejectWrite,
           Postings!CompleteWrite, Postings!At, PostInv, Decisions
  <1>2. /\ asked \in [{"a"} -> SUBSET Reasons] /\ refused \subseteq {"a"}
    BY DEF PostInv, PostTypes, DataTypes
  <1>3. CASE Postings!ApproveWrite(p)
    BY <1>1, <1>2, <1>3, DecidedKeeps DEF Postings!ApproveWrite, Postings!At
  <1>4. CASE Postings!RejectWrite(p)
    BY <1>1, <1>2, <1>4, DecidedKeeps DEF Postings!RejectWrite, Postings!At
  <1>5. CASE Postings!CompleteWrite(p)
    <2>1. /\ asked' \in [{"a"} -> SUBSET Reasons]
          /\ \A a \in {"a"} \ {b} : asked'[a] = asked[a]
      BY <1>1, <1>2, <1>5 DEF Postings!CompleteWrite
    <2>2. b \notin refused
      BY <1>1, <1>5
         DEF Postings!CompleteWrite, Postings!At, PostInv, RefusedHeld, On
    <2> QED
      BY <1>1, <1>2, <1>5, <2>1, <2>2, DecidedKeeps
         DEF Postings!CompleteWrite, Postings!At
  <1> QED
    BY <1>3, <1>4, <1>5

\* The claim of an attempt that is listed.
LEMMA ClaimKeeps ==
    ASSUME PostInv, NEW p \in Procs, NEW b \in {"a"}, Postings!Claim(p, b)
    PROVE  PostInv'
  <1>1. postProc[p].at = "pass" /\ postProc[p] \in Rests
    BY AtIs DEF Postings!Claim, PostInv
  <1>2. PICK ts \in SUBSET {"a"} : ts = postProc[p].todo \ {b}
    BY <1>1 DEF Rests
  <1>3. CASE Postings!Claimable(posting[b])
    <2>1. PICK no \in Nat, yes \in BOOLEAN : no = 0 /\ yes = TRUE
      OBVIOUS
    <2>2. "handle" \in Executing
      BY DEF Executing, Trying
    <2>3. PICK c \in Executes : c = [at |-> "handle", a |-> b, todo |-> ts,
                                    count |-> no, handler |-> yes]
      BY <2>2 DEF Executes
    <2>4. c.at = "handle" /\ c.a = b
      BY <2>3
    <2>5. postProc' = [postProc EXCEPT ![p] = c] /\ Postings!Meet(p, b)
      BY <1>2, <1>3, <2>1, <2>3 DEF Postings!Claim
    <2>6. /\ posting' = [posting EXCEPT ![b] = "posting_in_progress"]
          /\ UNCHANGED <<retries, asked, outside, failures, letters, refused,
                         excused>>
      BY <1>3 DEF Postings!Claim, Postings!ghosts
    <2>7. disputed' \subseteq {"a"} /\ \A a \in {"a"} \ {b} :
              (a \in disputed') = (a \in disputed)
      BY <2>5 DEF Postings!Meet, PostInv, PostTypes, DataTypes
    <2>8. DataTypes'
      BY <2>6, <2>7 DEF PostInv, PostTypes, DataTypes, RowStates
    <2>9. /\ posting'[b] = "posting_in_progress"
          /\ \A a \in {"a"} \ {b} : Same(a)
      BY <2>6, <2>7 DEF Same, PostInv, PostTypes, DataTypes
    <2>10. postProc'[p] = c
      BY <2>5 DEF PostInv, PostTypes
    <2>11. posting[b] # "posted" /\ b \notin refused
      BY <1>3 DEF Postings!Claimable, PostInv, RefusedHeld
    <2>12. AtRest(b) => AtWork(b, p)'
      <3>1. outside[b] \in Nat
        BY DEF PostInv, PostTypes, DataTypes
      <3> QED
        BY <2>4, <2>6, <2>9, <2>10, <2>11, <3>1
           DEF AtRest, AtWork, Counted, Told, Trying, Failing, Ending
    <2> QED
      BY <1>1, <2>4, <2>5, <2>6, <2>8, <2>9, <2>11, <2>12, Begins
  <1>4. CASE ~ Postings!Claimable(posting[b])
    <2>1. PICK c \in Rests :
              c = IF ts = {} THEN Postings!Idle
                  ELSE [at |-> "pass", todo |-> ts]
      <3>1. Postings!Idle \in Rests
              /\ [at |-> "pass", todo |-> ts] \in Rests
        BY DEF Rests, Postings!Idle
      <3> QED
        BY <3>1
    <2>2. postProc' = [postProc EXCEPT ![p] = c]
      BY <1>2, <1>4, <2>1 DEF Postings!Claim
    <2>3. UNCHANGED <<Postings!rowVars, Postings!ghosts, disputed, excused>>
      BY <1>4 DEF Postings!Claim, Postings!rowVars
    <2> QED
      BY <1>1, <2>2, <2>3, ListKeeps
  <1> QED
    BY <1>3, <1>4

\* The process that executes has an attempt.
LEMMA ExecutingAt ==
    ASSUME PostInv, NEW p \in Procs, NEW step \in Executing,
           Postings!At(p, step)
    PROVE  /\ postProc[p].at = step /\ postProc[p] \in Executes
           /\ \E b \in {"a"} : b = postProc[p].a
  BY AtIs DEF Postings!At, PostInv

\* The process goes on to its next step, or is done.
LEMMA StepKeeps ==
    ASSUME PostInv, NEW p \in Procs, NEW b \in {"a"}, NEW step \in Executing,
           postProc[p].at \in Executing, postProc[p].a = b,
           Postings!Goto(p, step),
           DataTypes', disputed' = disputed, refused' = refused,
           \A a \in {"a"} \ {b} : Same(a),
           /\ postProc'[p].at = step /\ postProc'[p].count = postProc[p].count
           /\ b \notin disputed /\ AtWork(b, p)
           => AtWork(b, p)'
    PROVE  PostInv'
  <1>1. postProc[p] \in Executes
    BY AtIs DEF PostInv
  <1>2. PICK c \in Executes :
              /\ c.at = step /\ c.a = postProc[p].a
                   /\ c.count = postProc[p].count
              /\ postProc' = [postProc EXCEPT ![p] = c]
    BY <1>1, GotoIs DEF PostInv
  <1>3. postProc'[p] = c
    BY <1>2 DEF PostInv, PostTypes
  <1>4. b \notin disputed => AtWork(b, p)'
    BY <1>2, <1>3, WorkIs
  <1> QED
    BY <1>2, <1>4, Moves

\* The process is done with its attempt.
LEMMA DoneKeeps ==
    ASSUME PostInv, NEW p \in Procs, NEW b \in {"a"},
           postProc[p].at \in Executing, postProc[p].a = b, Postings!Done(p),
           DataTypes', disputed' = disputed, refused' = refused,
           \A a \in {"a"} \ {b} : Same(a),
           b \notin disputed /\ AtWork(b, p) => AtRest(b)'
    PROVE  PostInv'
  <1>1. PICK c \in Rests : postProc' = [postProc EXCEPT ![p] = c]
    BY AtIs, DoneIs DEF PostInv
  <1>2. b \notin disputed => AtRest(b)'
    BY WorkIs
  <1>3. b \notin refused
    BY DEF PostInv, RefusedHeld, On, Executing, Trying, Failing, Ending
  <1> QED
    BY <1>1, <1>2, <1>3, Leaves

\* The target answers, or does not.
LEMMA AnswerKeeps ==
    ASSUME PostInv, NEW p \in Procs,
           Postings!Accept(p) \/ Postings!Throttle(p)
             \/ Postings!Supervise(p) \/ Postings!Unheard(p)
    PROVE  PostInv'
  <1> USE DEF Postings!Answered, Executing, Trying, Postings!rowVars
  <1>1. Postings!Answered(p) /\ Postings!At(p, "handle")
    BY DEF Postings!Accept, Postings!Throttle, Postings!Supervise,
           Postings!Unheard
  <1>2. postProc[p].at = "handle" /\ \E b \in {"a"} : b = postProc[p].a
    BY <1>1, ExecutingAt
  <1>3. PICK b \in {"a"} : b = postProc[p].a
    BY <1>2
  <1>4. UNCHANGED <<posting, retries, asked, letters, refused, disputed>>
    BY <1>1
  <1>5a. PICK n \in Nat, m \in Nat :
             n = outside[b] + 1 /\ m = failures[b] + 1
    BY DEF PostInv, PostTypes, DataTypes
  <1>5b. outside' = outside \/ outside' = [outside EXCEPT ![b] = n]
    BY <1>3, <1>5a
       DEF Postings!Accept, Postings!Throttle, Postings!Supervise,
           Postings!Unheard, Postings!Arrives
  <1>5c. failures' = failures \/ failures' = [failures EXCEPT ![b] = m]
    BY <1>3, <1>5a
       DEF Postings!Accept, Postings!Throttle, Postings!Supervise,
           Postings!Unheard, Postings!Fails
  <1>5d. excused' = excused \/ excused' = excused \cup {b}
    BY <1>3
       DEF Postings!Accept, Postings!Throttle, Postings!Supervise,
           Postings!Unheard
  <1>5. /\ outside' \in [{"a"} -> Nat] /\ failures' \in [{"a"} -> Nat]
        /\ excused' \subseteq {"a"}
        /\ \A a \in {"a"} \ {b} :
            /\ outside'[a] = outside[a] /\ failures'[a] = failures[a]
            /\ (a \in excused') = (a \in excused)
    <2>1. outside' \in [{"a"} -> Nat]
      BY <1>5b DEF PostInv, PostTypes, DataTypes
    <2>2. failures' \in [{"a"} -> Nat]
      BY <1>5c DEF PostInv, PostTypes, DataTypes
    <2>3. excused' \subseteq {"a"}
      BY <1>5d DEF PostInv, PostTypes, DataTypes
    <2>4. \A a \in {"a"} : a = b
      OBVIOUS
    <2> QED
      BY <2>1, <2>2, <2>3, <2>4
  <1>6. DataTypes'
    BY <1>4, <1>5 DEF PostInv, PostTypes, DataTypes
  <1>7. \A a \in {"a"} \ {b} : Same(a)
    BY <1>4, <1>5 DEF Same
  <1>8. /\ outside[b] \in Nat /\ failures[b] \in Nat /\ letters[b] \in Nat
        /\ retries[b].count \in 0..2
    BY RetryOf DEF PostInv, PostTypes, DataTypes
  <1>9. PICK step \in {"posted", "defer", "pause", "fail"} :
            /\ Postings!Goto(p, step)
            /\ step = "posted" => /\ outside'[b] = outside[b] + 1
                                  /\ failures' = failures
                                       /\ excused' = excused
            /\ step \in {"defer", "pause"} =>
                  UNCHANGED <<outside, failures, excused>>
            /\ step = "fail" => /\ failures'[b] = failures[b] + 1
                                /\ b \in excused'
    BY <1>3
       DEF Postings!Accept, Postings!Throttle, Postings!Supervise,
           Postings!Unheard, Postings!Fails, Postings!Arrives, PostInv,
           PostTypes, DataTypes
  <1>10. ASSUME postProc'[p].at = step, AtWork(b, p) PROVE AtWork(b, p)'
    BY <1>2, <1>4, <1>8, <1>9, <1>10
       DEF AtWork, Counted, Told, Failing, Ending
  <1> QED
    BY <1>2, <1>3, <1>4, <1>6, <1>7, <1>9, <1>10, StepKeeps

\* The handler of the target fails before anything is sent.
LEMMA RefuseKeeps ==
    ASSUME PostInv, NEW p \in Procs, Postings!Refuse(p) PROVE PostInv'
  <1> USE DEF Postings!Answered, Executing, Trying, Postings!rowVars
  <1>1. /\ postProc[p].at = "handle" /\ postProc[p] \in Executes
        /\ \E b \in {"a"} : b = postProc[p].a
    BY ExecutingAt DEF Postings!Refuse
  <1>2. PICK b \in {"a"} : b = postProc[p].a
    BY <1>1
  <1>3. PICK handler \in BOOLEAN :
            postProc' =
                [postProc EXCEPT ![p].at = "fail", ![p].handler = handler]
    BY DEF Postings!Refuse
  <1>4. PICK c \in Executes :
            c = [postProc[p] EXCEPT !.at = "fail", !.handler = handler]
    BY <1>1 DEF Executes
  <1>5. c.at = "fail" /\ c.a = b
    BY <1>1, <1>2, <1>4 DEF Executes
  <1>6. postProc' = [postProc EXCEPT ![p] = c]
    BY <1>3, <1>4
  <1>7. /\ UNCHANGED <<posting, retries, asked, letters, refused, disputed,
                       outside, excused>>
        /\ failures' = [failures EXCEPT ![b] = @ + 1]
    BY <1>2 DEF Postings!Refuse, Postings!Fails
  <1>8. DataTypes' /\ failures'[b] = failures[b] + 1
    BY <1>7 DEF PostInv, PostTypes, DataTypes
  <1>9. \A a \in {"a"} \ {b} : Same(a)
    BY <1>7 DEF Same, PostInv, PostTypes, DataTypes
  <1>10. postProc'[p] = c
    BY <1>6 DEF PostInv, PostTypes
  <1>11. ASSUME b \notin disputed PROVE AtWork(b, p)'
    <2>1. AtWork(b, p)
      BY <1>1, <1>2, <1>11, WorkIs
    <2>2. /\ failures[b] \in Nat /\ letters[b] \in Nat
          /\ retries[b].count \in 0..2
      BY RetryOf DEF PostInv, PostTypes, DataTypes
    <2> QED
      BY <1>1, <1>5, <1>7, <1>8, <1>10, <2>1, <2>2
         DEF AtWork, Counted, Told, Failing, Ending
  <1> QED
    BY <1>1, <1>2, <1>5, <1>6, <1>7, <1>8, <1>9, <1>11, Moves

\* What the process writes of its attempt: a status, a row of the queue, a
\* review.
LEMMA StatusKeeps ==
    ASSUME PostInv, NEW p \in Procs,
           Postings!MarkExecuted(p) \/ Postings!Defer(p)
             \/ Postings!Pause(p) \/ Postings!MarkFailed(p)
    PROVE  PostInv'
  <1> USE DEF Executing, Trying, Failing, Ending, Postings!Unchanged
  <1>1. PICK from \in Trying, status \in RowStates, step \in Executing :
            /\ Postings!At(p, from) /\ Postings!SetRow(p, status)
                 /\ Postings!Goto(p, step)
            /\ <<from, status, step>> \in
                  {<<"posted", "posted", "complete_retry">>,
                   <<"defer", "posting_deferred", "defer_retry">>,
                   <<"pause", "supervision_required", "ask">>,
                   <<"fail", "posting_failed", "count">>}
            /\ UNCHANGED <<retries, asked, outside, failures, letters,
                           refused, disputed, excused>>
    BY DEF Postings!MarkExecuted, Postings!Defer, Postings!Pause,
           Postings!MarkFailed, RowStates
  <1>2. postProc[p].at = from /\ \E b \in {"a"} : b = postProc[p].a
    BY <1>1, ExecutingAt
  <1>3. PICK b \in {"a"} : b = postProc[p].a
    BY <1>2
  <1>4. posting' = [posting EXCEPT ![b] = status]
    BY <1>1, <1>3 DEF Postings!SetRow
  <1>5. DataTypes' /\ posting'[b] = status
    BY <1>1, <1>4 DEF PostInv, PostTypes, DataTypes
  <1>6. \A a \in {"a"} \ {b} : Same(a)
    BY <1>1, <1>4 DEF Same, PostInv, PostTypes, DataTypes
  <1>7. outside[b] \in Nat
    BY DEF PostInv, PostTypes, DataTypes
  <1>8. ASSUME postProc'[p].at = step, AtWork(b, p) PROVE AtWork(b, p)'
    BY <1>1, <1>2, <1>5, <1>7, <1>8 DEF AtWork, Counted, Told
  <1> QED
    BY <1>1, <1>2, <1>3, <1>5, <1>6, <1>8, StepKeeps

\* The retry is completed, and the row of the queue with it.
LEMMA MarkCompleteKeeps ==
    ASSUME PostInv, NEW p \in Procs, Postings!MarkComplete(p) PROVE PostInv'
  <1> USE DEF Executing, Trying, Failing, Ending, Postings!Unchanged
  <1>1. postProc[p].at = "complete_retry"
          /\ \E b \in {"a"} : b = postProc[p].a
    BY ExecutingAt DEF Postings!MarkComplete
  <1>2. PICK b \in {"a"} : b = postProc[p].a
    BY <1>1
  <1>3. PICK status \in {"none", "completed"} :
            status = IF retries[b].status = "none" THEN "none"
                     ELSE "completed"
    OBVIOUS
  <1>4. PICK r \in RetryRows : r = [retries[b] EXCEPT !.status = status]
    BY RetryOf DEF PostInv, RetryRows
  <1>5. r.count = retries[b].count
    BY <1>4, RetryOf DEF PostInv, RetryRows
  <1>6. retries' = [retries EXCEPT ![b] = r]
    BY <1>2, <1>3, <1>4 DEF Postings!MarkComplete
  <1>7. /\ retries' \in [{"a"} -> RetryRows] /\ retries'[b] = r
        /\ \A a \in {"a"} \ {b} : retries'[a] = retries[a]
    BY <1>6, QueueType DEF PostInv
  <1>8. UNCHANGED <<posting, asked, outside, failures, letters, refused,
                    disputed, excused>>
    BY DEF Postings!MarkComplete
  <1>9. DataTypes'
    BY <1>7, <1>8 DEF PostInv, PostTypes, DataTypes
  <1>10. \A a \in {"a"} \ {b} : Same(a)
    BY <1>7, <1>8 DEF Same
  <1>11. ASSUME postProc'[p].at = "tell_document", AtWork(b, p)
    PROVE AtWork(b, p)'
    BY <1>1, <1>5, <1>7, <1>8, <1>11 DEF AtWork, Counted, Told
  <1>12. Postings!Goto(p, "tell_document")
    BY DEF Postings!MarkComplete
  <1> QED
    BY <1>1, <1>2, <1>8, <1>9, <1>10, <1>11, <1>12, StepKeeps

\* The document is told.
LEMMA TellKeeps ==
    ASSUME PostInv, NEW p \in Procs, Postings!MarkDocumentPosted(p)
    PROVE PostInv'
  <1> USE DEF Executing, Trying, Failing, Ending, Postings!Unchanged
  <1>1. postProc[p].at = "tell_document" /\ \E b \in {"a"} : b = postProc[p].a
    BY ExecutingAt DEF Postings!MarkDocumentPosted
  <1>2. PICK b \in {"a"} : b = postProc[p].a
    BY <1>1
  <1>3. UNCHANGED <<posting, retries, asked, outside, failures, letters,
                    refused, disputed, excused>>
    BY DEF Postings!MarkDocumentPosted
  <1>4. DataTypes' /\ \A a \in {"a"} : Same(a)
    BY <1>3 DEF PostInv, PostTypes, DataTypes, Same
  <1>5. ASSUME AtWork(b, p) PROVE AtRest(b)'
    BY <1>1, <1>3, <1>5 DEF AtWork, AtRest, Counted, Told
  <1>6. Postings!Done(p)
    BY DEF Postings!MarkDocumentPosted
  <1> QED
    BY <1>1, <1>2, <1>3, <1>4, <1>5, <1>6, DoneKeeps

\* A retry is put off.
LEMMA DeferRetryKeeps ==
    ASSUME PostInv, NEW p \in Procs, Postings!DeferRetry(p) PROVE PostInv'
  <1> USE DEF Executing, Trying, Failing, Ending, Postings!Unchanged
  <1>1. postProc[p].at = "defer_retry" /\ \E b \in {"a"} : b = postProc[p].a
    BY ExecutingAt DEF Postings!DeferRetry
  <1>2. PICK b \in {"a"} : b = postProc[p].a
    BY <1>1
  <1>3. PICK no \in BOOLEAN, word \in {"pending"} : no = FALSE
    OBVIOUS
  <1>4. PICK r \in RetryRows :
            r = [retries[b] EXCEPT !.status = word, !.due = no]
    BY RetryOf DEF PostInv, RetryRows
  <1>5. r.count = retries[b].count
    BY <1>4, RetryOf DEF PostInv, RetryRows
  <1>6. retries' = [retries EXCEPT ![b] = r]
    BY <1>2, <1>3, <1>4 DEF Postings!DeferRetry
  <1>7. /\ retries' \in [{"a"} -> RetryRows] /\ retries'[b] = r
        /\ \A a \in {"a"} \ {b} : retries'[a] = retries[a]
    BY <1>6, QueueType DEF PostInv
  <1>8. UNCHANGED <<posting, asked, outside, failures, letters, refused,
                    disputed, excused>>
    BY DEF Postings!DeferRetry
  <1>9. DataTypes'
    BY <1>7, <1>8 DEF PostInv, PostTypes, DataTypes
  <1>10. \A a \in {"a"} \ {b} : Same(a)
    BY <1>7, <1>8 DEF Same
  <1>11. ASSUME AtWork(b, p) PROVE AtRest(b)'
    BY <1>1, <1>5, <1>7, <1>8, <1>11 DEF AtWork, AtRest, Counted, Told
  <1>12. Postings!Done(p)
    BY DEF Postings!DeferRetry
  <1> QED
    BY <1>1, <1>2, <1>8, <1>9, <1>10, <1>11, <1>12, DoneKeeps

\* A review is asked for.
LEMMA ReviewKeeps ==
    ASSUME PostInv, NEW p \in Procs, Postings!Ask(p) \/ Postings!Bury(p)
             \/ Postings!ReportFailure(p)
    PROVE  PostInv'
  <1> USE DEF Executing, Trying, Failing, Ending, Postings!Unchanged
  <1>1. PICK from \in {"ask", "bury", "report"}, why \in Reasons :
            /\ Postings!At(p, from)
            /\ asked' = [asked EXCEPT ![postProc[p].a] = @ \cup {why}]
            /\ from = "bury" => why = "dead_lettered"
            /\ Postings!Done(p)
                 \/ (from = "bury" /\ Postings!Goto(p, "report"))
            /\ UNCHANGED <<posting, retries, outside, failures, letters,
                           refused, disputed, excused>>
    BY DEF Postings!Ask, Postings!Bury, Postings!ReportFailure, Reasons
  <1>2. postProc[p].at = from /\ \E b \in {"a"} : b = postProc[p].a
    BY <1>1, ExecutingAt
  <1>3. PICK b \in {"a"} : b = postProc[p].a
    BY <1>2
  <1>4. /\ asked' \in [{"a"} -> SUBSET Reasons]
        /\ asked'[b] = asked[b] \cup {why}
        /\ \A a \in {"a"} \ {b} : asked'[a] = asked[a]
    BY <1>1, <1>3 DEF PostInv, PostTypes, DataTypes
  <1>5. DataTypes' /\ \A a \in {"a"} \ {b} : Same(a)
    BY <1>1, <1>4 DEF PostInv, PostTypes, DataTypes, Same
  <1>6. ASSUME AtWork(b, p) PROVE AtRest(b)'
    <2>1. Counted(b)' /\ (b \notin excused' => Told(b)')
      BY <1>1, <1>2, <1>6 DEF AtWork, Counted, Told
    <2>2. posting[b] = "posting_failed" => Followed(b)'
      BY <1>1, <1>2, <1>4, <1>6 DEF AtWork, Followed
    <2> QED
      BY <1>1, <2>1, <2>2 DEF AtRest
  <1>7. ASSUME AtWork(b, p), from = "bury", postProc'[p].at = "report"
        PROVE  AtWork(b, p)'
    BY <1>1, <1>2, <1>4, <1>7 DEF AtWork, Counted, Told, Followed
  <1>8. CASE Postings!Done(p)
    BY <1>1, <1>2, <1>3, <1>5, <1>6, <1>8, DoneKeeps
  <1>9. CASE from = "bury" /\ Postings!Goto(p, "report")
    BY <1>1, <1>2, <1>3, <1>5, <1>7, <1>9, StepKeeps
  <1> QED
    BY <1>1, <1>8, <1>9

\* A failure is counted in two transactions.
LEMMA CountKeeps ==
    ASSUME PostInv, NEW p \in Procs, Postings!CountFailure(p) PROVE PostInv'
  <1> USE DEF Executing, Trying, Failing, Ending, Postings!Unchanged
  <1>1. /\ postProc[p].at = "count" /\ postProc[p] \in Executes
        /\ \E b \in {"a"} : b = postProc[p].a
    BY ExecutingAt DEF Postings!CountFailure
  <1>2. PICK b \in {"a"} : b = postProc[p].a
    BY <1>1
  <1>3. PICK n \in Nat : n = retries[b].count + 1
    BY RetryOf DEF PostInv
  <1>4. PICK c \in Executes :
            c = [postProc[p] EXCEPT !.count = n, !.at = "schedule"]
    BY <1>1 DEF Executes
  <1>5. c.at = "schedule" /\ c.a = b /\ c.count = n
    BY <1>1, <1>2, <1>4 DEF Executes
  <1>6. postProc' = [postProc EXCEPT ![p] = c]
    BY <1>2, <1>3, <1>4 DEF Postings!CountFailure
  <1>7. UNCHANGED <<posting, retries, asked, outside, failures, letters,
                    refused, disputed, excused>>
    BY DEF Postings!CountFailure, Postings!rowVars
  <1>8. DataTypes' /\ \A a \in {"a"} : Same(a)
    BY <1>7 DEF PostInv, PostTypes, DataTypes, Same
  <1>9. postProc'[p] = c
    BY <1>6 DEF PostInv, PostTypes
  <1>10. ASSUME b \notin disputed PROVE AtWork(b, p)'
    <2>1. AtWork(b, p)
      BY <1>1, <1>2, <1>10, WorkIs
    <2> QED
      BY <1>1, <1>3, <1>5, <1>7, <1>9, <2>1 DEF AtWork, Counted, Told
  <1> QED
    BY <1>1, <1>2, <1>5, <1>6, <1>7, <1>8, <1>10, Moves

\* The next retry is scheduled, or the failure is buried.
LEMMA ScheduleKeeps ==
    ASSUME PostInv, NEW p \in Procs, Postings!ScheduleRetry(p)
    PROVE  PostInv'
  <1> USE DEF Executing, Trying, Failing, Ending, Postings!Unchanged
  <1>1. /\ postProc[p].at = "schedule" /\ postProc[p] \in Executes
        /\ \E b \in {"a"} : b = postProc[p].a
    BY ExecutingAt DEF Postings!ScheduleRetry
  <1>2. PICK b \in {"a"} : b = postProc[p].a
    BY <1>1
  <1>3. postProc[p].count \in Nat
    BY <1>1 DEF Executes
  <1>4. UNCHANGED <<posting, asked, outside, failures, refused, disputed,
        excused>>
    BY DEF Postings!ScheduleRetry
  <1>5. /\ letters[b] \in Nat /\ failures[b] \in Nat /\ outside[b] \in Nat
        /\ retries[b].count \in 0..2
    BY RetryOf DEF PostInv, PostTypes, DataTypes
  <1>6. CASE Postings!Exhausted(postProc[p].count)
    <2>1. Postings!MoveToDeadLetter(b) /\ Postings!Goto(p, "bury")
      BY <1>2, <1>6 DEF Postings!ScheduleRetry
    <2>2. PICK status \in {"none", "dead_letter"} :
              status = IF retries[b].status = "none" THEN "none"
                       ELSE "dead_letter"
      OBVIOUS
    <2>3. PICK r \in RetryRows : r = [retries[b] EXCEPT !.status = status]
      BY RetryOf DEF PostInv, RetryRows
    <2>4. r.count = retries[b].count
      BY <2>3, RetryOf DEF PostInv, RetryRows
    <2>5. retries' = [retries EXCEPT ![b] = r]
      BY <2>1, <2>2, <2>3 DEF Postings!MoveToDeadLetter
    <2>6. /\ retries' \in [{"a"} -> RetryRows] /\ retries'[b] = r
          /\ \A a \in {"a"} \ {b} : retries'[a] = retries[a]
      BY <2>5, QueueType DEF PostInv
    <2>7. /\ letters' \in [{"a"} -> Nat] /\ letters'[b] = letters[b] + 1
          /\ \A a \in {"a"} \ {b} : letters'[a] = letters[a]
      BY <2>1, <1>5
         DEF Postings!MoveToDeadLetter, PostInv, PostTypes, DataTypes
    <2>8. DataTypes' /\ \A a \in {"a"} \ {b} : Same(a)
      BY <1>4, <2>6, <2>7 DEF PostInv, PostTypes, DataTypes, Same
    <2>9. ASSUME postProc'[p].at = "bury", AtWork(b, p) PROVE AtWork(b, p)'
      BY <1>1, <1>4, <1>5, <2>4, <2>6, <2>7, <2>9 DEF AtWork, Counted, Told
    <2> QED
      BY <1>1, <1>2, <1>4, <2>1, <2>8, <2>9, StepKeeps
  <1>7. CASE ~ Postings!Exhausted(postProc[p].count)
    <2>1. PICK n \in 0..2 : n = postProc[p].count
      BY <1>3, <1>7 DEF Postings!Exhausted
    <2>2. PICK r \in RetryRows :
              r = [status |-> "pending", count |-> n, due |-> FALSE]
      BY DEF RetryRows
    <2>3. r.status = "pending" /\ r.count = n /\ n < 2
      BY <1>7, <2>1, <2>2 DEF Postings!Exhausted
    <2>4. /\ retries' = [retries EXCEPT ![b] = r] /\ letters' = letters
          /\ Postings!Goto(p, "report") \/ Postings!Done(p)
      BY <1>2, <1>7, <2>1, <2>2 DEF Postings!ScheduleRetry
    <2>5. /\ retries' \in [{"a"} -> RetryRows] /\ retries'[b] = r
          /\ \A a \in {"a"} \ {b} : retries'[a] = retries[a]
      BY <2>4, QueueType DEF PostInv
    <2>6. DataTypes' /\ \A a \in {"a"} \ {b} : Same(a)
      BY <1>4, <2>4, <2>5 DEF PostInv, PostTypes, DataTypes, Same
    <2>7. Followed(b)'
      BY <2>3, <2>5 DEF Followed
    <2>8. ASSUME AtWork(b, p)
          PROVE  Counted(b)' /\ (b \notin excused' => Told(b)')
      BY <1>1, <1>4, <1>5, <2>1, <2>3, <2>4, <2>5, <2>8
         DEF AtWork, Counted, Told
    <2>9. ASSUME AtWork(b, p) PROVE AtRest(b)'
      BY <2>7, <2>8, <2>9 DEF AtRest
    <2>10. ASSUME postProc'[p].at = "report", AtWork(b, p) PROVE AtWork(b, p)'
      BY <1>1, <1>4, <2>7, <2>8, <2>10 DEF AtWork
    <2>11. CASE Postings!Done(p)
      BY <1>1, <1>2, <1>4, <2>4, <2>6, <2>9, <2>11, DoneKeeps
    <2>12. CASE Postings!Goto(p, "report")
      BY <1>1, <1>2, <1>4, <2>4, <2>6, <2>10, <2>12, StepKeeps
    <2> QED
      BY <2>4, <2>11, <2>12
  <1> QED
    BY <1>6, <1>7

\* A process that dies leaves its attempt crossed.
LEMMA PostCrashKeeps ==
    ASSUME PostInv, NEW p \in Procs, Postings!Crash(p) PROVE PostInv'
  <1>1. /\ postProc' = [postProc EXCEPT ![p] = Postings!Idle]
        /\ UNCHANGED <<posting, retries, asked, outside, failures, letters,
           refused>>
    BY DEF Postings!Crash, Postings!rowVars, Postings!ghosts
  <1>2. Postings!Idle \in Rests
    BY DEF Postings!Idle, Rests
  <1>3. disputed' \subseteq {"a"} /\ excused' \subseteq {"a"}
    BY DEF Postings!Crash, PostInv, PostTypes, DataTypes
  <1>4. DataTypes'
    BY <1>1, <1>3 DEF PostInv, PostTypes, DataTypes
  <1>5. PostTypes'
    BY <1>1, <1>2, <1>4 DEF PostInv, PostTypes
  <1>6. ASSUME NEW a \in {"a"}
        PROVE  /\ ~ On(p, a)'
               /\ On(p, a) => a \in disputed'
               /\ ~ On(p, a) => /\ (a \in disputed') = (a \in disputed)
                                /\ (a \in excused') = (a \in excused)
    BY <1>1, OnIs
       DEF Postings!Crash, On, PostInv, PostTypes, Postings!Idle, Decisions,
           Executing, Trying, Failing, Ending
  <1>7. \A q \in Procs \ {p} : postProc'[q] = postProc[q]
    BY <1>1 DEF PostInv, PostTypes
  <1>8. Uncrossed'
    <2> SUFFICES ASSUME NEW a \in {"a"}, a \notin disputed' PROVE Right(a)'
      BY DEF Uncrossed
    <2>1. ~ On(p, a)
      BY <1>6
    <2>2. Same(a)
      BY <1>1, <1>6, <2>1 DEF Same
    <2>3. Right(a)
      BY <2>2 DEF Same, PostInv, Uncrossed
    <2>4. ASSUME NEW q \in Procs
          PROVE  On(q, a)' = On(q, a)
                   /\ (On(q, a) => postProc'[q] = postProc[q])
      <3>1. CASE q = p
        BY <1>6, <2>1, <3>1 DEF On
      <3>2. CASE q # p
        BY <1>7, <3>2 DEF On
      <3> QED
        BY <3>1, <3>2
    <2> QED
      BY <2>2, <2>3, <2>4, SameRight
  <1>9. RefusedHeld'
    <2> SUFFICES ASSUME NEW a \in refused, NEW q \in Procs, On(q, a)'
                 PROVE  postProc'[q].at \in {"approve", "reject"}
      BY <1>1 DEF PostInv, RefusedHeld
    <2>1. a \in {"a"}
      BY DEF PostInv, PostTypes, DataTypes
    <2>2. q # p
      BY <1>6, <2>1 DEF On
    <2> QED
      BY <1>7, <2>2 DEF PostInv, RefusedHeld, On
  <1> QED
    BY <1>5, <1>8, <1>9 DEF PostInv

\* Every step of a posting.
LEMMA PostNextInv == ASSUME PostInv, Postings!Next PROVE PostInv'
  <1>1. CASE \E a \in {"a"} : Postings!CreateDryRun(a)
               \/ Postings!BecomeDue(a)
    BY <1>1, DryRunKeeps, DueKeeps
  <1>2. CASE \E p \in Procs, a \in {"a"} :
                Postings!Approve(p, a) \/ Postings!Reject(p, a)
                  \/ Postings!Complete(p, a) \/ Postings!Claim(p, a)
    BY <1>2, DecideKeeps, ClaimKeeps
  <1>3. CASE \E p \in Procs :
                \/ Postings!ApproveWrite(p) \/ Postings!RejectWrite(p)
                     \/ Postings!CompleteWrite(p)
                \/ Postings!ProcessDueRetries(p)
                     \/ Postings!ProcessApproved(p)
    BY <1>3, DecisionsKeep, PassKeeps
  <1>4. CASE \E p \in Procs :
                \/ Postings!Accept(p) \/ Postings!Throttle(p)
                     \/ Postings!Supervise(p) \/ Postings!Refuse(p)
                \/ Postings!Unheard(p)
    BY <1>4, AnswerKeeps, RefuseKeeps
  <1>5. CASE \E p \in Procs :
                \/ Postings!MarkExecuted(p) \/ Postings!MarkComplete(p)
                     \/ Postings!MarkDocumentPosted(p)
                \/ Postings!Defer(p) \/ Postings!DeferRetry(p)
                     \/ Postings!Pause(p) \/ Postings!Ask(p)
    BY <1>5, StatusKeeps, MarkCompleteKeeps, TellKeeps, DeferRetryKeeps,
       ReviewKeeps
  <1>6. CASE \E p \in Procs :
                \/ Postings!MarkFailed(p) \/ Postings!CountFailure(p)
                     \/ Postings!ScheduleRetry(p)
                \/ Postings!Bury(p) \/ Postings!ReportFailure(p)
                     \/ Postings!Crash(p)
    BY <1>6, StatusKeeps, CountKeeps, ScheduleKeeps, ReviewKeeps,
       PostCrashKeeps
  <1> QED
    BY <1>1, <1>2, <1>3, <1>4, <1>5, <1>6 DEF Postings!Next

LEMMA PostStutters == ASSUME PostInv, UNCHANGED Postings!vars PROVE PostInv'
  <1>1. PostTypes'
    BY DEF Postings!vars, PostInv, PostTypes, DataTypes
  <1>2. \A p \in Procs, a \in {"a"} : On(p, a)' = On(p, a)
    BY DEF Postings!vars, On
  <1>3. ASSUME NEW a \in {"a"}, Right(a) PROVE Right(a)'
    <2>1. Same(a)
      BY DEF Postings!vars, Same
    <2> QED
      BY <1>2, <1>3, <2>1, SameRight DEF Postings!vars
  <1>4. Uncrossed' /\ RefusedHeld'
    BY <1>3 DEF Postings!vars, PostInv, Uncrossed, RefusedHeld, On
  <1> QED
    BY <1>1, <1>4 DEF PostInv

\* What is promised of the postings follows.
LEMMA PostingsRight ==
    ASSUME PostInv PROVE Postings!RejectionHolds /\ Postings!PostedOnce
             /\ Postings!FailuresCounted
  <1>1. Postings!RejectionHolds
    BY DEF PostInv, RefusedHeld, Postings!RejectionHolds
  <1>2. ASSUME NEW a \in {"a"} \ disputed
        PROVE  /\ a \notin excused => /\ outside[a] <= 1
                                      /\ posting[a] = "posted"
                                        => outside[a] = 1
               /\ \/ \E p \in Procs : Postings!Works(p) /\ postProc[p].a = a
                  \/ /\ failures[a] = retries[a].count + letters[a]
                     /\ posting[a] = "posting_failed" =>
                          \/ retries[a].status = "pending"
                               /\ retries[a].count < 2
                          \/ "dead_lettered" \in asked[a]
    <2>1. Right(a)
      BY DEF PostInv, Uncrossed
    <2>2. CASE \A p \in Procs : ~ On(p, a)
      BY <2>1, <2>2 DEF Right, AtRest, Counted, Told, Followed
    <2>3. CASE \E p \in Procs : On(p, a)
      <3>1. PICK p \in Procs : On(p, a)
        BY <2>3
      <3>2. AtWork(a, p) /\ Postings!Works(p) /\ postProc[p].a = a
        BY <2>1, <3>1, OnIs DEF Right, PostInv
      <3>3. a \notin excused => outside[a] <= 1
              /\ (posting[a] = "posted" => outside[a] = 1)
        BY <3>2 DEF AtWork, Told
      <3> QED
        BY <3>2, <3>3
    <2> QED
      BY <2>2, <2>3
  <1>3. Postings!PostedOnce /\ Postings!FailuresCounted
    BY <1>2 DEF Postings!PostedOnce, Postings!FailuresCounted
  <1> QED
    BY <1>1, <1>3

-----------------------------------------------------------------------------
\* The routes again, with what is proved of them.
RoutesProof == INSTANCE DraftRoutes_proofs WITH
    proc <- routeProc, edits <- routeEdits, calls <- routeCalls,
    crashes <- routeCrashes, MaxEdits <- 1, MaxCalls <- 2, MaxCrashes <- 1

DraftsProof == INSTANCE DraftRoutes_proofs WITH
    proc <- routeProc, edits <- routeEdits, calls <- routeCalls,
    crashes <- routeCrashes, Procs <- {Solo},
    MaxEdits <- 1, MaxCalls <- 4, MaxCrashes <- 0

-----------------------------------------------------------------------------
\* What two instances of a module say is the same.
LEMMA RoutesInit == ASSUME Routes!Init PROVE RoutesProof!Init
  BY Zenon
     DEF Routes!Facts, Routes!Unknown, Routes!NoRecord, Routes!Idle,
         Routes!Types, Routes!Recons, Routes!Targets, Routes!FactsAfter,
         Routes!NoOperation, Routes!Init, RoutesProof!Facts,
         RoutesProof!Unknown, RoutesProof!NoRecord, RoutesProof!Idle,
         RoutesProof!Types, RoutesProof!Recons, RoutesProof!Targets,
         RoutesProof!FactsAfter, RoutesProof!NoOperation, RoutesProof!Init

LEMMA RoutesNext == ASSUME Routes!Next PROVE RoutesProof!Next
  BY Zenon
     DEF Routes!Targets, Routes!Types, Routes!Recons,
         Routes!RoutableDocument, Routes!RoutableRecord,
         Routes!RoutableExport, Routes!Facts, Routes!Unknown,
         Routes!NoRecord, Routes!Idle, Routes!NoOperation, Routes!Operation,
         Routes!HasDraft, Routes!HasAnyDraft, Routes!FirstOf, Routes!Gates,
         Routes!RecordGates, Routes!PlanChecks, Routes!TypeChecks,
         Routes!DocumentOutcome, Routes!RecordOutcome, Routes!ExportOf,
         Routes!Reviewed, Routes!StatusOfDocument, Routes!ExportOfDocument,
         Routes!DocumentRecord, Routes!BankRecord, Routes!Insert,
         Routes!SetSource, Routes!Review, Routes!Derive, Routes!Store,
         Routes!Export, Routes!Look, Routes!Upsert, Routes!StatusFor,
         Routes!Refused, Routes!DocumentSteps, Routes!RecordRefused,
         Routes!RecordSteps, Routes!Starts, Routes!Route, Routes!Refresh,
         Routes!Resolution, Routes!Resolve, Routes!Done, Routes!Facing,
         Routes!Counted, Routes!LookUp, Routes!InsertAttempt,
         Routes!UpdateSource, Routes!DeriveRecord, Routes!StoreRecord,
         Routes!StoreExport, Routes!Edited, Routes!Correct, Routes!Gate,
         Routes!Reconcile, Routes!Crash, Routes!FactsAfter, Routes!Init,
         Routes!Next, Routes!SelectInSeq, Routes!Min, RoutesProof!Targets,
         RoutesProof!Types, RoutesProof!Recons, RoutesProof!RoutableDocument,
         RoutesProof!RoutableRecord, RoutesProof!RoutableExport,
         RoutesProof!Facts, RoutesProof!Unknown, RoutesProof!NoRecord,
         RoutesProof!Idle, RoutesProof!NoOperation, RoutesProof!Operation,
         RoutesProof!HasDraft, RoutesProof!HasAnyDraft, RoutesProof!FirstOf,
         RoutesProof!Gates, RoutesProof!RecordGates, RoutesProof!PlanChecks,
         RoutesProof!TypeChecks, RoutesProof!DocumentOutcome,
         RoutesProof!RecordOutcome, RoutesProof!ExportOf,
         RoutesProof!Reviewed, RoutesProof!StatusOfDocument,
         RoutesProof!ExportOfDocument, RoutesProof!DocumentRecord,
         RoutesProof!BankRecord, RoutesProof!Insert, RoutesProof!SetSource,
         RoutesProof!Review, RoutesProof!Derive, RoutesProof!Store,
         RoutesProof!Export, RoutesProof!Look, RoutesProof!Upsert,
         RoutesProof!StatusFor, RoutesProof!Refused,
         RoutesProof!DocumentSteps, RoutesProof!RecordRefused,
         RoutesProof!RecordSteps, RoutesProof!Starts, RoutesProof!Route,
         RoutesProof!Refresh, RoutesProof!Resolution, RoutesProof!Resolve,
         RoutesProof!Done, RoutesProof!Facing, RoutesProof!Counted,
         RoutesProof!LookUp, RoutesProof!InsertAttempt,
         RoutesProof!UpdateSource, RoutesProof!DeriveRecord,
         RoutesProof!StoreRecord, RoutesProof!StoreExport,
         RoutesProof!Edited, RoutesProof!Correct, RoutesProof!Gate,
         RoutesProof!Reconcile, RoutesProof!Crash, RoutesProof!FactsAfter,
         RoutesProof!Init, RoutesProof!Next, RoutesProof!SelectInSeq,
         RoutesProof!Min

LEMMA DraftsInit == ASSUME Drafts!Init PROVE DraftsProof!Init
  BY Zenon
     DEF Drafts!Facts, Drafts!Unknown, Drafts!NoRecord, Drafts!Idle,
         Drafts!Types, Drafts!Recons, Drafts!Targets, Drafts!FactsAfter,
         Drafts!NoOperation, Drafts!Init, DraftsProof!Facts,
         DraftsProof!Unknown, DraftsProof!NoRecord, DraftsProof!Idle,
         DraftsProof!Types, DraftsProof!Recons, DraftsProof!Targets,
         DraftsProof!FactsAfter, DraftsProof!NoOperation, DraftsProof!Init

LEMMA DraftsNext == ASSUME Drafts!Next PROVE DraftsProof!Next
  BY Zenon
     DEF Drafts!Targets, Drafts!Types, Drafts!Recons,
         Drafts!RoutableDocument, Drafts!RoutableRecord,
         Drafts!RoutableExport, Drafts!Facts, Drafts!Unknown,
         Drafts!NoRecord, Drafts!Idle, Drafts!NoOperation, Drafts!Operation,
         Drafts!HasDraft, Drafts!HasAnyDraft, Drafts!FirstOf, Drafts!Gates,
         Drafts!RecordGates, Drafts!PlanChecks, Drafts!TypeChecks,
         Drafts!DocumentOutcome, Drafts!RecordOutcome, Drafts!ExportOf,
         Drafts!Reviewed, Drafts!StatusOfDocument, Drafts!ExportOfDocument,
         Drafts!DocumentRecord, Drafts!BankRecord, Drafts!Insert,
         Drafts!SetSource, Drafts!Review, Drafts!Derive, Drafts!Store,
         Drafts!Export, Drafts!Look, Drafts!Upsert, Drafts!StatusFor,
         Drafts!Refused, Drafts!DocumentSteps, Drafts!RecordRefused,
         Drafts!RecordSteps, Drafts!Starts, Drafts!Route, Drafts!Refresh,
         Drafts!Resolution, Drafts!Resolve, Drafts!Done, Drafts!Facing,
         Drafts!Counted, Drafts!LookUp, Drafts!InsertAttempt,
         Drafts!UpdateSource, Drafts!DeriveRecord, Drafts!StoreRecord,
         Drafts!StoreExport, Drafts!Edited, Drafts!Correct, Drafts!Gate,
         Drafts!Reconcile, Drafts!Crash, Drafts!FactsAfter, Drafts!Init,
         Drafts!Next, Drafts!SelectInSeq, Drafts!Min, DraftsProof!Targets,
         DraftsProof!Types, DraftsProof!Recons, DraftsProof!RoutableDocument,
         DraftsProof!RoutableRecord, DraftsProof!RoutableExport,
         DraftsProof!Facts, DraftsProof!Unknown, DraftsProof!NoRecord,
         DraftsProof!Idle, DraftsProof!NoOperation, DraftsProof!Operation,
         DraftsProof!HasDraft, DraftsProof!HasAnyDraft, DraftsProof!FirstOf,
         DraftsProof!Gates, DraftsProof!RecordGates, DraftsProof!PlanChecks,
         DraftsProof!TypeChecks, DraftsProof!DocumentOutcome,
         DraftsProof!RecordOutcome, DraftsProof!ExportOf,
         DraftsProof!Reviewed, DraftsProof!StatusOfDocument,
         DraftsProof!ExportOfDocument, DraftsProof!DocumentRecord,
         DraftsProof!BankRecord, DraftsProof!Insert, DraftsProof!SetSource,
         DraftsProof!Review, DraftsProof!Derive, DraftsProof!Store,
         DraftsProof!Export, DraftsProof!Look, DraftsProof!Upsert,
         DraftsProof!StatusFor, DraftsProof!Refused,
         DraftsProof!DocumentSteps, DraftsProof!RecordRefused,
         DraftsProof!RecordSteps, DraftsProof!Starts, DraftsProof!Route,
         DraftsProof!Refresh, DraftsProof!Resolution, DraftsProof!Resolve,
         DraftsProof!Done, DraftsProof!Facing, DraftsProof!Counted,
         DraftsProof!LookUp, DraftsProof!InsertAttempt,
         DraftsProof!UpdateSource, DraftsProof!DeriveRecord,
         DraftsProof!StoreRecord, DraftsProof!StoreExport,
         DraftsProof!Edited, DraftsProof!Correct, DraftsProof!Gate,
         DraftsProof!Reconcile, DraftsProof!Crash, DraftsProof!FactsAfter,
         DraftsProof!Init, DraftsProof!Next, DraftsProof!SelectInSeq,
         DraftsProof!Min

\* What the routes promise is the same.
LEMMA RoutesPromise ==
    ASSUME RoutesProof!RouteInv
    PROVE  Routes!RoutedOnce /\ Routes!ClaimedDraftsExist
  BY DEF RoutesProof!RouteInv, RoutesProof!RoutedOnce, Routes!RoutedOnce,
         RoutesProof!ClaimedDraftsExist, Routes!ClaimedDraftsExist,
         RoutesProof!HasAnyDraft, Routes!HasAnyDraft

LEMMA DraftsPromise ==
    ASSUME DraftsProof!RouteInv
    PROVE  Drafts!RoutedOnce /\ Drafts!ClaimedDraftsExist
  BY DEF DraftsProof!RouteInv, DraftsProof!RoutedOnce, Drafts!RoutedOnce,
         DraftsProof!ClaimedDraftsExist, Drafts!ClaimedDraftsExist,
         DraftsProof!HasAnyDraft, Drafts!HasAnyDraft

\* A step is one of a module, and leaves the others alone.
LEMMA OneFocus ==
    ASSUME [Next]_vars
    PROVE  /\ Bank!Next \/ UNCHANGED bankVars
           /\ Postings!Next \/ UNCHANGED postVars
           /\ focus' = focus
           /\ focus = "routes" => Routes!Next \/ UNCHANGED routeVars
           /\ focus = "drafts" => Drafts!Next \/ UNCHANGED routeVars
  BY DEF Next, vars, otherVars

-----------------------------------------------------------------------------
\* The two together, and the routes when they are followed.
DocumentsInv ==
    /\ BankInv /\ PostInv
    /\ focus = "routes" => RoutesProof!RouteInv
    /\ focus = "drafts" => DraftsProof!RouteInv

LEMMA DocumentsInit == Init => DocumentsInv
  <1> SUFFICES ASSUME Init PROVE DocumentsInv
    OBVIOUS
  <1>1. Bank!Init /\ Postings!Init
    BY DEF Init
  <1>2. BankInv /\ PostInv
    BY <1>1, BankInitInv, PostInitInv
  <1>3. ASSUME focus = "routes" PROVE RoutesProof!RouteInv
    <2>1. Routes!Init
      BY <1>3 DEF Init
    <2> QED
      BY <2>1, RoutesInit, RoutesProof!RouteInitInv
  <1>4. ASSUME focus = "drafts" PROVE DraftsProof!RouteInv
    <2>1. Drafts!Init
      BY <1>4 DEF Init
    <2> QED
      BY <2>1, DraftsInit, DraftsProof!RouteInitInv
  <1> QED
    BY <1>2, <1>3, <1>4 DEF DocumentsInv

LEMMA DocumentsStep == DocumentsInv /\ [Next]_vars => DocumentsInv'
  <1> SUFFICES ASSUME DocumentsInv, [Next]_vars PROVE DocumentsInv'
    OBVIOUS
  <1>1. BankInv'
    <2>1. CASE Bank!Next
      BY <2>1, BankNextInv, StatementLines DEF DocumentsInv
    <2>2. CASE UNCHANGED bankVars
      <3>1. UNCHANGED Bank!vars
        BY <2>2 DEF bankVars, Bank!vars
      <3> QED
        BY <3>1, BankStutters DEF DocumentsInv
    <2> QED
      BY <2>1, <2>2, OneFocus
  <1>2. PostInv'
    <2>1. CASE Postings!Next
      BY <2>1, PostNextInv DEF DocumentsInv
    <2>2. CASE UNCHANGED postVars
      <3>1. UNCHANGED Postings!vars
        BY <2>2 DEF postVars, Postings!vars
      <3> QED
        BY <3>1, PostStutters DEF DocumentsInv
    <2> QED
      BY <2>1, <2>2, OneFocus
  <1>3. focus' = focus
    BY OneFocus
  <1>4. ASSUME focus = "routes" PROVE RoutesProof!RouteInv'
    <2>1. RoutesProof!RouteInv
      BY <1>4 DEF DocumentsInv
    <2>2. CASE Routes!Next
      BY <2>1, <2>2, RoutesNext, RoutesProof!RouteNextInv
    <2>3. CASE UNCHANGED routeVars
      <3>1. UNCHANGED RoutesProof!vars
        BY <2>3 DEF routeVars, RoutesProof!vars
      <3> QED
        BY <2>1, <3>1, RoutesProof!RouteStutters
    <2> QED
      BY <1>4, <2>2, <2>3, OneFocus
  <1>5. ASSUME focus = "drafts" PROVE DraftsProof!RouteInv'
    <2>1. DraftsProof!RouteInv
      BY <1>5 DEF DocumentsInv
    <2>2. CASE Drafts!Next
      BY <2>1, <2>2, DraftsNext, DraftsProof!RouteNextInv
    <2>3. CASE UNCHANGED routeVars
      <3>1. UNCHANGED DraftsProof!vars
        BY <2>3 DEF routeVars, DraftsProof!vars
      <3> QED
        BY <2>1, <3>1, DraftsProof!RouteStutters
    <2> QED
      BY <1>5, <2>2, <2>3, OneFocus
  <1> QED
    BY <1>1, <1>2, <1>3, <1>4, <1>5 DEF DocumentsInv

\* import_transactions and upsert_bank_transaction: however statements
\* overlap and imports of them race, die and are repeated, the ledger has a
\* transaction without a reference as often as the statement that shows it
\* most often, and a finished import has counted each of its lines.
THEOREM RowsOfStatements == Spec => []StatementRows
  <1>1. DocumentsInv => StatementRows
    BY BankRows, StatementLines DEF DocumentsInv, StatementRows
  <1> QED
    BY DocumentsInit, DocumentsStep, <1>1, PTL DEF Spec

\* prepare_document_route, prepare_bookkeeping_record_route and the posting
\* without a ledger: facts are drafted once, a transaction once for Wave, and
\* a source that says so has a draft; an attempt reaches its target once, a
\* rejected one does not, and a failure is counted and followed up.
THEOREM RoutesOnce == Spec => []RoutedOnce
  <1>1. DocumentsInv => RoutedOnce
    BY RoutesPromise, DraftsPromise, PostingsRight
       DEF DocumentsInv, RoutedOnce
  <1> QED
    BY DocumentsInit, DocumentsStep, <1>1, PTL DEF Spec
=============================================================================
