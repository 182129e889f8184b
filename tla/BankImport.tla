----------------------------- MODULE BankImport -----------------------------
(***************************************************************************)
(* Importing bank statements: LocalBankTransactionImportService over       *)
(* bank_statement_imports and bank_transactions.                           *)
(*                                                                         *)
(* A statement is a sequence of lines.  A line has a fingerprint (account, *)
(* date, amount, currency, description, counterparty), a reference of the  *)
(* bank or none, and is readable or not; what the parsers make of bytes is *)
(* what these fields say.  Several imports may be at work.                 *)
(***************************************************************************)
EXTENDS Integers, Sequences, FiniteSets

CONSTANTS
    Procs,          \* threads of the API server and the worker
    Statements,     \* [format, lines], lines a sequence of
                    \* [key, ref, readable]
    NoRef,          \* the reference of a line that has none
    MaxImports,     \* bound: rows of bank_statement_imports
    MaxCrashes      \* bound: processes that die

VARIABLES
    rows,       \* identities in bank_transactions of the account
    imports,    \* bank_statement_imports
    proc, crashes

vars == <<rows, imports, proc, crashes>>

Idle == [at |-> "idle", id |-> 0, line |-> 1, seen |-> <<>>, known |-> FALSE,
         imported |-> 0, duplicates |-> 0]

Init ==
    /\ rows = {}
    /\ imports = <<>>
    /\ proc = [p \in Procs |-> Idle]
    /\ crashes = 0

\* import_transactions: the row of the import, before any line is read.
Begin(p, s) ==
    /\ proc[p].at = "idle"
    /\ Len(imports) < MaxImports
    /\ imports' = Append(imports, [statement |-> s, status |-> "running",
                                   imported |-> 0, duplicates |-> 0])
    /\ proc' = [proc EXCEPT ![p] = [Idle EXCEPT !.at = "read",
                                                !.id = Len(imports) + 1]]
    /\ UNCHANGED <<rows, crashes>>

Lines(p) == imports[proc[p].id].statement.lines
Line(p) == Lines(p)[proc[p].line]

\* normalize_bank_transaction with the occurrences of import_transactions: a
\* line without a reference is known by its fingerprint and by how many lines
\* of this statement had that fingerprint before.  MT940 lines always have a
\* reference, made of their place and their text.
\* Mutant: identical lines are one transaction.
Identity_Plain(format, line, at, seen) ==
    CASE format = "mt940" -> [kind |-> "place", key |-> line.key, n |-> at]
      [] format # "mt940" /\ line.ref # NoRef ->
            [kind |-> "reference", key |-> line.ref, n |-> 1]
      [] OTHER -> [kind |-> "generated", key |-> line.key, n |-> 1]
Identity(format, line, at, seen) ==
    CASE format = "mt940" -> [kind |-> "place", key |-> line.key, n |-> at]
      [] format # "mt940" /\ line.ref # NoRef ->
            [kind |-> "reference", key |-> line.ref, n |-> 1]
      [] OTHER -> [kind |-> "generated", key |-> line.key,
                   n |-> 1 + Cardinality({i \in DOMAIN seen :
                                            seen[i] = line.key})]

IdentityOf(p) ==
    Identity(imports[proc[p].id].statement.format, Line(p), proc[p].line,
             proc[p].seen)

More(p) == proc[p].at = "read" /\ proc[p].line <= Len(Lines(p))

\* A line without a date or an amount is skipped; it has no occurrence.
Skip(p) ==
    /\ More(p)
    /\ ~ Line(p).readable
    /\ proc' = [proc EXCEPT ![p].line = @ + 1]
    /\ UNCHANGED <<rows, imports, crashes>>

\* get_bank_transaction_by_identity.
Look(p) ==
    /\ More(p)
    /\ Line(p).readable
    /\ proc' = [proc EXCEPT ![p].at = "upsert",
                            ![p].known = IdentityOf(p) \in rows]
    /\ UNCHANGED <<rows, imports, crashes>>

\* upsert_bank_transaction, one transaction that looks again.
Upsert(p) ==
    LET known == proc[p].known IN
    /\ proc[p].at = "upsert"
    /\ rows' = rows \cup {IdentityOf(p)}
    /\ proc' = [proc EXCEPT
            ![p].at = "read",
            ![p].line = @ + 1,
            ![p].seen = IF Line(p).ref = NoRef THEN Append(@, Line(p).key)
                                               ELSE @,
            ![p].imported = IF known THEN @ ELSE @ + 1,
            ![p].duplicates = IF known THEN @ + 1 ELSE @]
    /\ UNCHANGED <<imports, crashes>>

Complete(p) ==
    /\ proc[p].at = "read" /\ ~ More(p)
    /\ imports' = [imports EXCEPT
            ![proc[p].id].status =
                IF proc[p].imported + proc[p].duplicates > 0
                THEN "completed" ELSE "empty",
            ![proc[p].id].imported = proc[p].imported,
            ![proc[p].id].duplicates = proc[p].duplicates]
    /\ proc' = [proc EXCEPT ![p] = Idle]
    /\ UNCHANGED <<rows, crashes>>

\* The import stays running.
Crash(p) ==
    /\ proc[p].at # "idle"
    /\ crashes < MaxCrashes
    /\ crashes' = crashes + 1
    /\ proc' = [proc EXCEPT ![p] = Idle]
    /\ UNCHANGED <<rows, imports>>

Next ==
    \E p \in Procs :
        \/ \E s \in Statements : Begin(p, s)
        \/ Skip(p) \/ Look(p) \/ Upsert(p) \/ Complete(p) \/ Crash(p)

Spec == Init /\ [][Next]_vars

-----------------------------------------------------------------------------
Keys == UNION {{s.lines[i].key : i \in DOMAIN s.lines} : s \in Statements}

\* How often a transaction without a reference stands in a statement.
Multiplicity(s, key) ==
    IF s.format = "mt940" THEN 0
    ELSE Cardinality({i \in DOMAIN s.lines : /\ s.lines[i].key = key
                                             /\ s.lines[i].ref = NoRef
                                             /\ s.lines[i].readable})

Greatest(S) == CHOOSE n \in S : \A m \in S : m <= n

Most(key, status) ==
    Greatest({0} \cup {Multiplicity(imports[i].statement, key) :
                        i \in {j \in DOMAIN imports :
                                imports[j].status \in status}})

Stored(key) == Cardinality({r \in rows : r.kind = "generated" /\ r.key = key})

\* However statements overlap and imports of them race, die and are repeated,
\* the ledger has a transaction without a reference as often as the statement
\* that shows it most often: identical lines are all kept, a repeated one adds
\* nothing.  A finished import has counted each of its lines.
\* (import_transactions, upsert_bank_transaction)
StatementRows ==
    /\ \A key \in Keys :
        /\ Most(key, {"completed", "empty"}) <= Stored(key)
        /\ Stored(key) <= Most(key, {"completed", "empty", "running"})
    /\ \A i \in DOMAIN imports : imports[i].status = "completed" =>
        LET ls == imports[i].statement.lines IN
        imports[i].imported + imports[i].duplicates
            = Cardinality({k \in DOMAIN ls : ls[k].readable})

TypeOK ==
    /\ \A i \in DOMAIN imports :
        imports[i].status \in {"running", "completed", "empty"}
    /\ \A p \in Procs : proc[p].at \in {"idle", "read", "upsert"}
    /\ Len(imports) <= MaxImports
=============================================================================
