------------------------------ MODULE Statement ------------------------------
(***************************************************************************)
(* A statement and the records made of it: db::statement                   *)
(* (db/statement.cpp), turbo_statement's way of building its query         *)
(* (turbo/turbostatement.cpp), db_rec and mem_db_rec (db/dbrec.cpp).       *)
(*                                                                         *)
(* ODBC is external.  Its driver promises as little as it may: a column is *)
(* read once, after those on its left, and a statement with an open cursor *)
(* is neither prepared nor executed.  A value is a sequence of character   *)
(* codes or Null, a query its first piece of text.  Single characters,     *)
(* which operator<< adds to a query without a look at m_fresh, are not     *)
(* streamed.                                                               *)
(***************************************************************************)
EXTENDS Integers, SequencesExt

CONSTANTS
  Results,    \* of each good query: columns (as the driver spells them), sizes, rows
  Lowercase,  \* of the names of columns
  Variables,  \* a handler's dbstrings and dbints
  BadText,    \* a query that does not prepare
  NoQuery,    \* what is prepared of a query that does not
  Null,
  BufSize,    \* of row_load's buffer
  MaxStreamed \* bound on what is streamed into one statement

StatementAssumption ==
  /\ BufSize \in Nat \ {0, 1} /\ MaxStreamed \in Nat
  /\ BadText \notin DOMAIN Results /\ NoQuery \notin DOMAIN Results
  /\ \A q \in DOMAIN Results :
       LET result == Results[q] IN
       /\ result.columns \in Seq(DOMAIN Lowercase)
       /\ result.sizes \in Seq(Nat) /\ Len(result.sizes) = Len(result.columns)
       /\ result.rows \in Seq([DOMAIN result.columns -> {Null} \cup Seq(Nat)])

VARIABLES
  st,   \* the statement with its ODBC handle
  rec   \* a record made of it

statementvars == <<st, rec>>

Mark == "?"
NoRecord == [kind |-> "none"]
Unread == [fetched |-> FALSE, isnull |-> FALSE, value |-> <<>>]

NewStatement ==
  [query |-> <<>>, fresh |-> TRUE, params |-> <<>>, outs |-> <<>>,
   names |-> <<>>, row |-> <<>>, valid |-> FALSE,
   prepared |-> NoQuery, marks |-> 0, open |-> FALSE, pos |-> 0, col |-> 0, ok |-> TRUE]

StatementInit == st = NewStatement /\ rec = NoRecord

-----------------------------------------------------------------------------
(* ODBC.  ok is the result of the last call.                               *)

Rows(s) == IF s.open THEN Results[s.prepared].rows ELSE <<>>
OnRow(s) == s.pos \in DOMAIN Rows(s)

SQLPrepare(s, q, marks) ==
  IF s.open THEN [s EXCEPT !.ok = FALSE]
  ELSE [s EXCEPT !.ok = q # BadText, !.prepared = IF q = BadText THEN NoQuery ELSE q,
                 !.marks = marks]

SQLExecute(s) ==
  IF s.open \/ s.prepared = NoQuery \/ s.marks # Len(s.params) THEN [s EXCEPT !.ok = FALSE]
  ELSE [s EXCEPT !.ok = TRUE, !.open = TRUE, !.pos = 0, !.col = 0]

SQLFetch(s) ==
  LET next == IF s.pos <= Len(Rows(s)) THEN s.pos + 1 ELSE s.pos IN
  [s EXCEPT !.pos = next, !.col = 0, !.ok = next \in DOMAIN Rows(s)]

Shortened(value, n) == SubSeq(value, 1, IF n < Len(value) THEN n ELSE Len(value))

\* What a call of SQLGetData leaves in a buffer of the given size: as much as fits with a
\* null character, and the length of all that was left to read.
SQLGetData(rest, size) ==
  [buf |-> Shortened(rest, size - 1) \o <<0>>, outlen |-> Len(rest), more |-> Len(rest) >= size]

-----------------------------------------------------------------------------
(* statement                                                               *)

Prepare(s) == SQLPrepare(s, s.query[1], Len(s.query) - 1)
Execute(s) == SQLExecute([s EXCEPT !.names = <<>>])
ExecuteDirect(s, q) == Execute(SQLPrepare(s, q, 0))

(* Mutant: what was read of the row before stays. *)
FetchNextKeep(s) == LET f == SQLFetch(s) IN [f EXCEPT !.valid = f.ok]

\* fetch_next, which forgets what was read of the row before.
FetchNext(s) ==
  LET f == SQLFetch(s) IN
  [f EXCEPT !.row = [c \in DOMAIN @ |-> Unread], !.valid = f.ok]

CloseCursor(s) ==
  [s EXCEPT !.params = <<>>, !.outs = <<>>, !.valid = FALSE,
            !.open = FALSE, !.pos = 0, !.col = 0]

Columns(s) == IF s.prepared = NoQuery THEN <<>> ELSE Results[s.prepared].columns

\* load_fieldnames, if it is called for.
WithNames(s) ==
  IF s.names # <<>> THEN s
  ELSE [s EXCEPT !.names = [c \in DOMAIN Columns(s) |-> Lowercase[Columns(s)[c]]]]

\* find_colnum; 0 is false.
FindColumn(s, name) ==
  LET found == {c \in DOMAIN WithNames(s).names : WithNames(s).names[c] = name} IN
  IF found = {} THEN 0 ELSE CHOOSE c \in found : \A d \in found : c <= d

\* The value row_load puts together from blocks that do not hold the null character.
Assembled(value) ==
  LET from[at \in Nat \ {0}] ==
        LET got == SQLGetData(SubSeq(value, at, Len(value)), BufSize)
            len == IF got.outlen >= BufSize THEN BufSize - 1 ELSE got.outlen IN
        SubSeq(got.buf, 1, len) \o (IF got.more THEN from[at + len] ELSE <<>>)
  IN from[1]

\* A column as row_load reads it; one that the driver does not give any more counts as null.
Cell(s, c) ==
  LET value == IF OnRow(s) /\ c > s.col THEN Rows(s)[s.pos][c] ELSE Null IN
  [fetched |-> TRUE, isnull |-> value = Null,
   value |-> IF value = Null THEN <<>> ELSE Assembled(value)]

\* row_load
RowLoad(s, col) ==
  LET n == WithNames(s)
      row == IF Len(n.row) = Len(n.names) THEN n.row ELSE [c \in DOMAIN n.names |-> Unread]
      new == {c \in 1 .. col : ~row[c].fetched} IN
  [n EXCEPT !.row = [c \in DOMAIN row |-> IF c \in new THEN Cell(s, c) ELSE row[c]],
            !.col = IF new = {} THEN @ ELSE CHOOSE c \in new : \A d \in new : d <= c]

\* is_null and operator[] of a column that exists: the statement afterwards.
WithColumn(s, name) ==
  LET c == FindColumn(s, name)
      n == WithNames(s) IN
  IF c = 0 \/ (c <= Len(n.row) /\ n.row[c].fetched) THEN n ELSE RowLoad(n, c)

\* get_string into a buffer of the given size.
GetString(s, c, size) ==
  LET value == IF OnRow(s) THEN Rows(s)[s.pos][c] ELSE <<>> IN
  IF value = Null THEN <<>> ELSE Shortened(value, size - 1)

-----------------------------------------------------------------------------
(* turbo_statement: variables before the query are bound to columns, later  *)
(* ones to parameters; what follows a prepare begins a new query.           *)

InternalReset(s) == [CloseCursor(s) EXCEPT !.query = <<>>, !.fresh = TRUE]
Fresh(s) == IF s.fresh THEN s ELSE InternalReset(s)

StreamVariable(s, v) ==
  LET f == Fresh(s) IN
  IF f.query = <<>> THEN [f EXCEPT !.outs = Append(@, v)]
  ELSE [f EXCEPT !.query = Append(@, Mark), !.params = Append(@, v)]

StreamText(s, text) == [Fresh(s) EXCEPT !.query = Append(@, text)]

\* preparef, prepare_executef, prepare_execute_fetchf; a failure throws a db_error.
Preparef(s) == Prepare([s EXCEPT !.fresh = FALSE])
PrepareExecutef(s) == LET p == Preparef(s) IN IF p.ok THEN Execute(p) ELSE p
PrepareExecuteFetchf(s) == LET e == PrepareExecutef(s) IN IF e.ok THEN FetchNext(e) ELSE e

\* table_statement::render: the rows that are left, each as shown by operator[].
RenderTable(s) ==
  LET after[n \in Nat] ==
        IF n = 0 THEN s
        ELSE LET f == FetchNext(after[n - 1]) IN RowLoad(f, Len(WithNames(f).names)) IN
  [n \in 1 .. Len(Rows(s)) - s.pos |-> after[n].row]

-----------------------------------------------------------------------------
(* Records.  size is that of the buffer columns are copied through.        *)

MaxSize(s) == LET sizes == ToSet(Results[s.prepared].sizes) IN
              CHOOSE n \in sizes : \A m \in sizes : m <= n
RowStrings(s) == [c \in DOMAIN Columns(s) |-> GetString(s, c, MaxSize(s))]

\* mem_db_rec's loop over the result.
DataSet(s, freshst) ==
  LET first == IF freshst THEN FetchNext(s) ELSE s
      more[n \in Nat] == IF n = 0 THEN first ELSE FetchNext(more[n - 1])
      count == IF first.pos \in DOMAIN Rows(s) THEN Len(Rows(s)) - first.pos + 1 ELSE 0 IN
  [rows |-> [n \in 1 .. count |-> RowStrings(more[n - 1])], after |-> more[count]]

MakeMemRec(freshst) ==
  /\ st.open /\ st.col = 0 /\ rec = NoRecord
  /\ IF freshst THEN st.pos = 0 ELSE OnRow(st)
  /\ LET data == DataSet(WithNames(st), freshst) IN
     /\ st' = data.after
     /\ rec' = [kind |-> "mem", names |-> WithNames(st).names, rows |-> data.rows,
                query |-> st.prepared, from |-> IF freshst THEN st.pos + 1 ELSE st.pos]

MakeDbRec(freshst) ==
  /\ st.open /\ st.col = 0 /\ rec = NoRecord
  /\ IF freshst THEN st.pos = 0 ELSE OnRow(st)
  /\ LET s == WithNames(IF freshst THEN FetchNext(st) ELSE st) IN
     /\ st' = s
     /\ rec' = [kind |-> "db", empty |-> ~OnRow(s), iterating |-> FALSE,
                first |-> IF OnRow(s) THEN RowStrings(s) ELSE <<>>,
                current |-> <<>>, valid |-> FALSE]

\* get_rec_iterator, once; its first row is the record's.
DbRecIterator ==
  /\ rec # NoRecord /\ rec.kind = "db" /\ ~rec.iterating /\ ~rec.empty
  /\ rec' = [rec EXCEPT !.iterating = TRUE, !.current = rec.first, !.valid = TRUE]
  /\ UNCHANGED st

\* db_sub_iterator::next
DbRecNext ==
  /\ rec # NoRecord /\ rec.kind = "db" /\ rec.valid
  /\ st' = FetchNext(st)
  /\ rec' = [rec EXCEPT !.current = RowStrings(st'), !.valid = st'.ok]

\* A db_rec's statement goes with it.
DropRecord ==
  /\ rec # NoRecord
  /\ rec' = NoRecord
  /\ st' = IF rec.kind = "db" THEN NewStatement ELSE st

\* A db_rec has the statement to itself, a mem_db_rec has none.
StatementCall ==
  /\ rec # NoRecord => rec.kind = "mem"
  /\ \/ /\ st.fresh => ~st.open /\ Len(st.query) + Len(st.outs) < MaxStreamed
        /\ \/ \E v \in Variables : st' = StreamVariable(st, v)
           \/ \E q \in DOMAIN Results \cup {BadText} :
                /\ Fresh(st).query = <<>>
                /\ st' = StreamText(st, q)
     \/ st.query # <<>> /\ st' \in {Preparef(st), PrepareExecutef(st), PrepareExecuteFetchf(st)}
     \/ ~st.fresh /\ st' \in {Execute(st), CloseCursor(st)}
     \/ st.query = <<>> /\ \E q \in DOMAIN Results : st' = ExecuteDirect(st, q)
     \/ st.open /\ st' = FetchNext(st)
     \/ st.open /\ \E name \in ToSet(WithNames(st).names) : st' = WithColumn(st, name)
  /\ UNCHANGED rec

StatementNext ==
  \/ StatementCall \/ DbRecIterator \/ DbRecNext \/ DropRecord
  \/ \E freshst \in BOOLEAN : MakeMemRec(freshst) \/ MakeDbRec(freshst)

StatementSpec == StatementInit /\ [][StatementNext]_statementvars

-----------------------------------------------------------------------------
Stored(cell) == IF cell.isnull THEN Null ELSE cell.value

\* A record shows a null as an empty string, and a value that fills the widest column
\* without its last character, which the property leaves open.
ShownAs(row, strings, size) ==
  \A c \in DOMAIN row :
    IF row[c] = Null THEN strings[c] = <<>>
    ELSE Len(row[c]) < size => strings[c] = row[c]

\* What is read by name is the value of the current row, in full, whatever was executed,
\* fetched and read before and in whichever order: columns are cached per row, names per
\* query, and long values come in blocks.  A query that has been streamed can be executed,
\* whatever was done with the one before.  A table shows the rows that are left, a db_rec's
\* iterator the row the statement is on, a mem_db_rec all rows, even when the statement has
\* gone on to another query.  Not promised: what is read between an execute and the first
\* fetch_next, which comes from the row read last.
RowsReadAsStored ==
  /\ OnRow(st) /\ rec = NoRecord =>
       \A name \in {Lowercase[n] : n \in DOMAIN Lowercase} :
         LET c == CHOOSE d \in DOMAIN Columns(st) :
                    /\ Lowercase[Columns(st)[d]] = name
                    /\ \A b \in 1 .. d - 1 : Lowercase[Columns(st)[b]] # name IN
         IF name \in {Lowercase[n] : n \in ToSet(Columns(st))}
         THEN Stored(WithColumn(st, name).row[FindColumn(st, name)]) = Rows(st)[st.pos][c]
         ELSE FindColumn(st, name) = 0
  /\ st.fresh /\ st.query # <<>> /\ st.query[1] # BadText => PrepareExecutef(st).ok
  /\ rec = NoRecord =>
       RenderTable(st) = [n \in 1 .. Len(Rows(st)) - st.pos |->
                            [c \in DOMAIN Columns(st) |->
                               LET value == Rows(st)[st.pos + n][c] IN
                               [fetched |-> TRUE, isnull |-> value = Null,
                                value |-> IF value = Null THEN <<>> ELSE value]]]
  /\ rec # NoRecord =>
       IF rec.kind = "mem"
       THEN LET all == Results[rec.query].rows
                size == MaxSize([st EXCEPT !.prepared = rec.query]) IN
            /\ Len(rec.rows) = Len(all) - rec.from + 1
            /\ \A n \in DOMAIN rec.rows : ShownAs(all[rec.from + n - 1], rec.rows[n], size)
       ELSE rec.valid => OnRow(st) /\ ShownAs(Rows(st)[st.pos], rec.current, MaxSize(st))
=============================================================================
