----------------------------- MODULE RestTables -----------------------------
(***************************************************************************)
(* The REST API over a Fluss catalogue: the handlers of server/rest/mod.rs *)
(* with the calls of backend/mod.rs that they make, for requests that run  *)
(* at the same time, drop and replace the tables that others read and      *)
(* write, fail on their way to Fluss and lose their clients.               *)
(*                                                                         *)
(* Credentials and connections are the matter of GatewayServer, and the    *)
(* writes of more than one row of ProducePath.  An optional field of a     *)
(* request is a set of at most one value.  Comments, properties, partition *)
(* keys and bucket keys are left out: no table here is partitioned.        *)
(*                                                                         *)
(* Fluss is external.  A call changes its state when it is executed, which *)
(* may be after the gateway has given up on the answer.                    *)
(***************************************************************************)
EXTENDS Datums, GatewayErrors, FiniteSets, SequencesExt

CONSTANTS
    Slots,              \* of requests: each serves one
    Requests,           \* of each slot: the requests it may serve
    Names,              \* of databases, tables and columns
    Underscored,        \* the names that begin with an underscore
    Texts, Values,      \* of query parameters and keys; JSON values of produced rows
    InitialDatabases, InitialTables,
    MaxTables,          \* bound: tables ever made
    MaxRows             \* bound: rows of a bucket

-----------------------------------------------------------------------------
(***************************************************************************)
(* What a request is made of (types/mod.rs)                                *)
(***************************************************************************)

DatabaseRequests ==
    [op : {"list_databases"}]
    \cup [op : {"create_database"}, database_name : Names, ignore_if_exists : BOOLEAN]
    \cup [op : {"drop_database"}, db : Names,
          ignore_if_not_exists : BOOLEAN, cascade : BOOLEAN]
    \cup [op : {"list_tables"}, db : Names]

ColumnSpec == [name : Names, data_type : STRING]

CreateTableRequests ==
    [op : {"create_table"}, db : Names, table : Names, schema : Seq(ColumnSpec),
     primary_key : Seq(Names), bucket_count : Nat \ {0}, ignore_if_exists : BOOLEAN]

TableRequests ==
    [op : {"table_info", "table_info_put", "prefix_scan", "list_partitions"},
     db : Names, table : Names]
    \cup [op : {"drop_table"}, db : Names, table : Names, ignore_if_not_exists : BOOLEAN]

\* The parameters of a lookup are one key, those of a batch several.
LookupParams == UNION {[cols -> Texts] : cols \in SUBSET Names}

LookupRequests ==
    [op : {"lookup", "batch_lookup"}, db : Names, table : Names, keys : Seq(LookupParams)]

ScanParams ==
    [op : {"scan"}, db : Names, table : Names,
     projection : SUBSET Seq(Nat), limit : SUBSET Nat]

ListOffsetsRequests ==
    [op : {"list_offsets"}, db : Names, table : Names, spec : SUBSET STRING,
     timestamp : SUBSET Nat, buckets : SUBSET Seq(Nat)]

ProduceRequests ==
    [op : {"produce"}, db : Names, table : Names, values : Seq(Values), delete : BOOLEAN]

AnyRequest ==
    DatabaseRequests \cup CreateTableRequests \cup TableRequests \cup LookupRequests
        \cup ScanParams \cup ListOffsetsRequests \cup ProduceRequests

\* Names that routes have for themselves reach no database and no table, where a
\* path has these in their place.
ASSUME RequestsAssumption ==
    /\ DOMAIN Requests = Slots
    /\ \A r \in Slots : \A q \in Requests[r] :
          /\ q \in AnyRequest
          /\ "db" \in DOMAIN q /\ q.op \notin {"create_database", "drop_database"} =>
                q.db # "_databases"
          /\ "table" \in DOMAIN q /\ q.op \notin {"create_table", "table_info_put", "drop_table"} =>
                q.table # "_tables"
          /\ \A f \in DOMAIN q \cap {"projection", "limit", "spec", "timestamp", "buckets"} :
                \A a, b \in q[f] : a = b

ASSUME TextsAssumption ==
    /\ \A s \in Texts : IsText(s)
    /\ \A v \in Values : IsJson(v)

ASSUME BoundsAssumption == MaxTables \in Nat /\ MaxRows \in Nat /\ Underscored \subseteq Names

-----------------------------------------------------------------------------
(***************************************************************************)
(* Tables                                                                  *)
(***************************************************************************)

\* A table: its path, its schema, who made it, whether it is still there, and
\* the rows of its buckets, for a primary key table the current ones.
Table(db, name, columns, pk, buckets, by) ==
    [db |-> db, name |-> name, columns |-> columns, pk |-> pk, by |-> by,
     live |-> TRUE, log |-> [b \in 1..buckets |-> <<>>]]

Column(t, name) == CHOOSE j \in DOMAIN t.columns : t.columns[j].name = name

KeyOf(t, row) == [k \in DOMAIN t.pk |-> row[Column(t, t.pk[k])]]

\* Where in its log a table has rows with the given key.
Places(t, key) ==
    {p \in UNION {{b} \X DOMAIN t.log[b] : b \in DOMAIN t.log} : KeyOf(t, t.log[p[1]][p[2]]) = key}

\* The row has the types of the table's columns.
RowOf(t, row) ==
    /\ Len(row) = Len(t.columns)
    /\ \A j \in DOMAIN row : Holds(t.columns[j].type, row[j])

IsSeq(s) == s \in Seq(ToSet(s))

IsRow(row) == IsSeq(row) /\ \A j \in DOMAIN row : IsDatum(row[j])

IsTable(t) ==
    /\ t \in [db : Names, name : Names, columns : Seq([name : Names, type : Types]),
              pk : Seq(Names), by : SUBSET Slots, live : BOOLEAN, log : {t.log}]
    /\ \A i, j \in DOMAIN t.columns : t.columns[i].name = t.columns[j].name => i = j
    /\ ToSet(t.pk) \subseteq {c.name : c \in ToSet(t.columns)}
    /\ IsSeq(t.log)
    /\ \A bucket \in ToSet(t.log) :
          /\ IsSeq(bucket)
          /\ \A row \in ToSet(bucket) :
                IsRow(row) /\ RowOf(t, row) /\ Null \notin ToSet(KeyOf(t, row))

\* A primary key table has no two rows of one key.
UniqueKeys(t) ==
    t.pk # <<>> => \A b, c \in DOMAIN t.log : \A i \in DOMAIN t.log[b], j \in DOMAIN t.log[c] :
                     KeyOf(t, t.log[b][i]) = KeyOf(t, t.log[c][j]) => b = c /\ i = j

ASSUME InitialAssumption ==
    /\ InitialDatabases \subseteq Names
    /\ IsSeq(InitialTables) /\ Len(InitialTables) <= MaxTables
    /\ \A t \in ToSet(InitialTables) :
          IsTable(t) /\ UniqueKeys(t) /\ t.by = {} /\ (t.live => t.db \in InitialDatabases)
    /\ \A i, j \in DOMAIN InitialTables : LET t == InitialTables[i]
                                              u == InitialTables[j] IN
          t.live /\ u.live /\ t.db = u.db /\ t.name = u.name => i = j

-----------------------------------------------------------------------------
VARIABLES
    databases,  \* the databases there are
    tables,     \* every table ever made, also those dropped since
    handler,    \* of each slot: where its handler is, and what it carries
    call        \* of each slot: the call it makes that Fluss has to execute

catalogue == <<databases, tables>>
vars      == <<databases, tables, handler, call>>

NoAnswer == [status |-> 0, error_code |-> 0]

Idle == [pc |-> "new", req |-> [op |-> "none"], table |-> 0, carry |-> <<>>,
         done |-> 0, out |-> <<>>, answer |-> NoAnswer]

Running == {"table", "read", "poll", "open", "call"}

\* The answers there are.
Answers ==
    {IntoResponse(e) : e \in Errors} \cup {Success(n) : n \in {200, 201, 204}}

TypeOK ==
    /\ databases \subseteq Names
    /\ IsSeq(tables) /\ Len(tables) <= MaxTables
    /\ \A t \in ToSet(tables) : IsTable(t) /\ (t.live => t.db \in databases)
    /\ DOMAIN handler = Slots
    /\ \A r \in Slots : LET h == handler[r] IN
          /\ h \in [pc : Running \cup {"new", "done", "gone"}, req : {Idle.req} \cup Requests[r],
                    table : 0..Len(tables), carry : {h.carry}, done : Nat, out : {h.out},
                    answer : Answers \cup {NoAnswer}]
          /\ h.pc = "new" \/ h.req \in Requests[r]
          /\ IF h.pc = "done" THEN h.answer \in Answers ELSE h.answer = NoAnswer
          /\ h.answer.error_code # 0 => h.answer.error_code \div 100 = h.answer.status
    /\ call \in [Slots -> {"none", "sent", "ok", "refused", "unpartitioned"}]

Init ==
    /\ databases = InitialDatabases
    /\ tables = InitialTables
    /\ handler = [r \in Slots |-> Idle]
    /\ call = [r \in Slots |-> "none"]

-----------------------------------------------------------------------------
(***************************************************************************)
(* Routes and their labels                                                 *)
(***************************************************************************)

\* GatewayServer::app: the method and the path that lead to a handler.
Method(q) ==
    CASE q.op \in {"create_database", "create_table", "batch_lookup", "scan", "produce",
                   "list_offsets"} -> "POST"
      [] q.op \in {"drop_database", "drop_table"} -> "DELETE"
      [] q.op = "table_info_put" -> "PUT"
      [] OTHER -> "GET"

Suffix ==
    [table_info |-> "_info", prefix_scan |-> "prefix", batch_lookup |-> "batch",
     scan |-> "scan", produce |-> "rows", list_offsets |-> "offsets",
     list_partitions |-> "partitions"]

Segments(q) ==
    <<"v1">> \o
    CASE q.op \in {"list_databases", "create_database"} -> <<"_databases">>
      [] q.op = "drop_database" -> <<"_databases", q.db>>
      [] q.op \in {"list_tables", "create_table"} -> <<q.db, "_tables">>
      [] q.op \in {"table_info_put", "drop_table"} -> <<q.db, "_tables", q.table>>
      [] q.op = "lookup" -> <<q.db, q.table>>
      [] OTHER -> <<q.db, q.table, Suffix[q.op]>>

\* Mutated: a path of two names is one of a table, whatever they begin with.
NormalizeTables(path) ==
    IF path[1] # "v1" \/ Len(path) <= 2 THEN path
    ELSE <<"v1", "{db}", "{table}">> \o SubSeq(path, 4, Len(path))

\* metrics::normalize_path; no route has more than four segments.
NormalizePath(path) ==
    IF path[1] # "v1" \/ Len(path) <= 2 THEN path
    ELSE IF Len(path) = 3 /\ path[3] \in Underscored \cup {"_tables"} THEN <<"v1", "{db}", path[3]>>
    ELSE <<"v1", "{db}", "{table}">> \o SubSeq(path, 4, Len(path))

-----------------------------------------------------------------------------
(***************************************************************************)
(* Handlers                                                                *)
(***************************************************************************)

\* A handler with the fields of new changed.
With(h, new) == [f \in DOMAIN h |-> IF f \in DOMAIN new THEN new[f] ELSE h[f]]

\* The handler of r goes on.
Goes(r, new) == handler' = [handler EXCEPT ![r] = With(@, new)]

\* It ends, and with it what it carries, but for a call not yet executed.
Ends(r, new) ==
    LET kept == IF call[r] = "sent" THEN handler[r] ELSE [Idle EXCEPT !.req = handler[r].req]
    IN  /\ handler' = [handler EXCEPT ![r] = With(kept, new)]
        /\ call' = [call EXCEPT ![r] = IF @ = "sent" THEN @ ELSE "none"]

Reply(r, answer) == Ends(r, [pc |-> "done", answer |-> answer])
Fail(r, e)       == Reply(r, IntoResponse(e))

At(r, pc, ops) == handler[r].pc = pc /\ handler[r].req.op \in ops

Reads  == {"lookup", "batch_lookup"}
Served == {"table_info", "table_info_put", "lookup", "batch_lookup", "scan", "produce"}

\* A table needs a name and columns of known types, and a schema can be built
\* of columns with different names and a primary key made of these columns.
ObjectionToTable(q) ==
    IF q.table = "" \/ \E c \in ToSet(q.schema) : ParseDataType(c.data_type) = {}
    THEN {"BadRequest"}
    ELSE {e \in {"FlussError"} :
            \/ \E i, j \in DOMAIN q.schema : i # j /\ q.schema[i].name = q.schema[j].name
            \/ ~(ToSet(q.primary_key) \subseteq {c.name : c \in ToSet(q.schema)})}

\* Offsets are asked for by one of three words, one of which needs a timestamp.
ObjectionToOffsets(q) ==
    {e \in {"BadRequest"} : \/ ~(q.spec \subseteq {"earliest", "latest", "timestamp"})
                            \/ q.spec = {"timestamp"} /\ q.timestamp = {}}

\* What is wrong with a request that no backend call is made for.
Objection(q) ==
    CASE q.op = "create_database" -> {e \in {"BadRequest"} : q.database_name = ""}
      [] q.op = "create_table" -> ObjectionToTable(q)
      [] q.op = "list_offsets" -> ObjectionToOffsets(q)
      [] q.op = "prefix_scan"  -> {"Internal"}
      [] OTHER -> {}

\* A request arrives.  It is refused; or has nothing to look up; or needs a
\* table; or is a call to Fluss.
Receive(r, q) ==
    /\ handler[r].pc = "new"
    /\ \/ /\ \E e \in Objection(q) :
                Goes(r, [req |-> q, pc |-> "done", answer |-> IntoResponse(e)])
          /\ UNCHANGED call
       \/ /\ q.op \in Reads /\ q.keys = <<>>
          /\ Goes(r, [req |-> q, pc |-> "done", answer |-> Success(200)])
          /\ UNCHANGED call
       \/ /\ q.op \in Served
          /\ q.op \in Reads => q.keys # <<>>
          /\ Goes(r, [req |-> q, pc |-> "table"])
          /\ UNCHANGED call
       \/ /\ Objection(q) = {} /\ q.op \notin Served
          /\ Goes(r, [req |-> q, pc |-> "call"])
          /\ call' = [call EXCEPT ![r] = "sent"]
    /\ UNCHANGED catalogue

\* The table that a path leads to, if there is one.
LiveAt(db, name) ==
    {id \in DOMAIN tables : tables[id].live /\ tables[id].db = db /\ tables[id].name = name}

Found(r) == LiveAt(handler[r].req.db, handler[r].req.table)

\* get_table_info, for a request that asks for nothing else.
TableInfo(r) ==
    /\ At(r, "table", {"table_info", "table_info_put"})
    /\ Found(r) # {}
    /\ Reply(r, Success(200))
    /\ UNCHANGED catalogue

-----------------------------------------------------------------------------
(***************************************************************************)
(* Lookups and scans                                                       *)
(***************************************************************************)

\* The key that the parameters of a lookup are converted to, if they are one:
\* each column of the primary key is given as text that its type takes.
LookupKey(t, params) ==
    LET ds == [k \in DOMAIN t.pk |->
                IF t.pk[k] \in DOMAIN params
                THEN JsonToDatum(String(params[t.pk[k]]), t.columns[Column(t, t.pk[k])].type)
                ELSE {}]
    IN  IF \E k \in DOMAIN ds : ds[k] = {} THEN {} ELSE {[k \in DOMAIN ds |-> CHOOSE d \in ds[k] : TRUE]}

\* FlussBackend::lookup gets the table anew for each key of a batch.
StartLookup(r) ==
    /\ At(r, "table", Reads)
    /\ \E id \in Found(r) :
         LET t    == tables[id]
             keys == LookupKey(t, handler[r].req.keys[handler[r].done + 1])
         IN  IF t.pk = <<>> THEN Fail(r, "InvalidOperation")
             ELSE IF keys = {} THEN Fail(r, "BadRequest")
             ELSE \E key \in keys : Goes(r, [pc |-> "read", table |-> id, carry |-> key])
    /\ UNCHANGED <<catalogue, call>>

\* A row as it is shown, the given columns of it.
Shown(t, row, columns) ==
    [name \in {t.columns[j].name : j \in columns} |-> ToJson(row)[Column(t, name)]]

\* Mutated: each key's rows come before those of the keys before it.
ExtendInFront(rows, more) == more \o rows

\* batch_lookup: the rows of a key come after those of the keys before it.
Extend(rows, more) == rows \o more

\* A lookup returns the rows of its key, and the next begins.
Lookup(r) ==
    /\ At(r, "read", Reads)
    /\ LET h    == handler[r]
           t    == tables[h.table]
           last == h.done + 1 = Len(h.req.keys)
           AsRow(p) == [table |-> h.table, bucket |-> p[1],
                     row |-> Shown(t, t.log[p[1]][p[2]], DOMAIN t.columns)]
       IN  /\ t.live
           /\ \E found \in SetToSeqs(Places(t, h.carry)) :
                 Goes(r, [pc |-> IF last THEN "done" ELSE "table",
                          done |-> h.done + 1,
                          out |-> Extend(h.out, [i \in DOMAIN found |-> AsRow(found[i])]),
                          answer |-> IF last THEN Success(200) ELSE NoAnswer])
    /\ UNCHANGED <<catalogue, call>>

\* Mutated: the scan begins where the log ends.
SubscribeLatest(t) == [b \in DOMAIN t.log |-> Len(t.log[b])]

\* The offsets a scan begins at: the earliest of each bucket.
Subscribe(t) == [b \in DOMAIN t.log |-> 0]

\* FlussBackend::scan up to poll.  Fluss takes no projection on a column that
\* is not there, and gives no scanner for the log of a primary key table.
StartScan(r) ==
    /\ At(r, "table", {"scan"})
    /\ \E id \in Found(r) :
         LET t == tables[id]
         IN  IF \/ t.pk # <<>>
                \/ \E cols \in handler[r].req.projection : \E j \in ToSet(cols) : j >= Len(t.columns)
             THEN Fail(r, "FlussError")
             ELSE Goes(r, [pc |-> "poll", table |-> id, carry |-> Subscribe(t)])
    /\ UNCHANGED <<catalogue, call>>

\* The columns of a table that a projection leaves, which counts them from zero.
Projected(t, projection) ==
    IF projection = {} THEN DOMAIN t.columns ELSE {j + 1 : j \in UNION {ToSet(cols) : cols \in projection}}

\* What a poll brings, as places of a log: of each bucket what comes first, if
\* anything has come within the timeout, one bucket after the other.
Polled(log, from) ==
    LET come == {upto \in [DOMAIN log -> 0..MaxRows] : \A b \in DOMAIN log : upto[b] \in from[b]..Len(log[b])}
        places(upto) == UNION {{b} \X ((from[b] + 1)..upto[b]) : b \in DOMAIN log}
    IN  {seen \in UNION {SetToSeqs(places(upto)) : upto \in come} :
            \A i, j \in DOMAIN seen : i < j /\ seen[i][1] = seen[j][1] =>
                seen[i][2] < seen[j][2] /\ \A k \in i..j : seen[k][1] = seen[i][1]}

\* The scan polls once, and returns at most limit rows.
Scan(r) ==
    /\ At(r, "poll", {"scan"})
    /\ LET h == handler[r]
           t == tables[h.table]
           cols == Projected(t, h.req.projection)
       IN  /\ t.live
           /\ \E seen \in Polled(t.log, h.carry) :
                 LET rows == [i \in DOMAIN seen |->
                                [table |-> h.table, bucket |-> seen[i][1],
                                 row |-> Shown(t, t.log[seen[i][1]][seen[i][2]], cols)]]
                 IN  Goes(r, [pc |-> "done", answer |-> Success(200),
                              out |-> SubSeq(rows, 1, Min({Len(rows)} \cup h.req.limit))])
    /\ UNCHANGED <<catalogue, call>>

-----------------------------------------------------------------------------
(***************************************************************************)
(* Writes and administration                                               *)
(***************************************************************************)

\* produce has the table's columns and converts the row.
Convert(r) ==
    /\ At(r, "table", {"produce"})
    /\ \E id \in Found(r) :
         LET rows == ToRow(handler[r].req.values, tables[id].columns)
         IN  IF rows = {} THEN Fail(r, "BadRequest")
             ELSE \E row \in rows : Goes(r, [pc |-> "open", table |-> id, carry |-> row])
    /\ UNCHANGED <<catalogue, call>>

\* append_rows, upsert_rows or delete_rows gets the table again.  It has to be of
\* the kind that produce chose the call for; a row that does not fit is refused.
OpenWriter(r) ==
    /\ At(r, "open", {"produce"})
    /\ \E id \in Found(r) :
         LET t == tables[id]
             chosen == tables[handler[r].table]
         IN  IF (t.pk = <<>>) # (chosen.pk = <<>>)
             THEN Fail(r, "InvalidOperation")
             ELSE IF ~RowOf(t, handler[r].carry) \/ Null \in ToSet(KeyOf(t, handler[r].carry))
             THEN Fail(r, "FlussError")
             ELSE /\ Goes(r, [pc |-> "call", table |-> id])
                  /\ call' = [call EXCEPT ![r] = "sent"]
    /\ UNCHANGED catalogue

\* The status of an operation that succeeds.
Done(op) ==
    CASE op \in {"create_database", "create_table"} -> 201
      [] op \in {"drop_database", "drop_table"} -> 204
      [] OTHER -> 200

\* Fluss has executed the call, and its answer arrives.  That a table is not
\* partitioned is an error of Fluss but not of list_partitions.
Answer(r) ==
    /\ handler[r].pc = "call"
    /\ \/ /\ call[r] \in {"ok", "unpartitioned"}
          /\ Reply(r, Success(Done(handler[r].req.op)))
       \/ /\ call[r] = "refused"
          /\ Fail(r, "FlussError")
    /\ UNCHANGED catalogue

\* Mutated: what fails on the way to Fluss is blamed on the request.
CallFailsBlamed(r) ==
    /\ handler[r].pc \in Running
    /\ Fail(r, "BadRequest")
    /\ UNCHANGED catalogue

\* FlussError: there is no such table, or the call or its answer is lost.
CallFails(r) ==
    /\ handler[r].pc \in Running
    /\ Fail(r, "FlussError")
    /\ UNCHANGED catalogue

\* The client leaves and the handler is dropped, its call is not.
ClientLeaves(r) ==
    /\ handler[r].pc \in Running
    /\ Ends(r, [pc |-> "gone"])
    /\ UNCHANGED catalogue

-----------------------------------------------------------------------------
(***************************************************************************)
(* Fluss                                                                   *)
(***************************************************************************)

Sent(r, op) == call[r] = "sent" /\ handler[r].req.op = op

\* The result reaches a handler that still waits for it.
Returns(r, result) ==
    /\ call' = [call EXCEPT ![r] = IF handler[r].pc = "call" THEN result ELSE "none"]
    /\ UNCHANGED handler

\* The call changes nothing: it is allowed to, or it is refused.
Unchanging(r, allowed) ==
    Returns(r, IF allowed THEN "ok" ELSE "refused") /\ UNCHANGED catalogue

CreateDatabase(r) ==
    /\ Sent(r, "create_database")
    /\ LET q == handler[r].req
       IN  IF q.database_name \in databases THEN Unchanging(r, q.ignore_if_exists)
           ELSE /\ databases' = databases \cup {q.database_name}
                /\ Returns(r, "ok") /\ UNCHANGED tables

\* Mutated: the two flags in the order of the other backend.
DropFlagsSwapped(q) == [ignore |-> q.cascade, cascade |-> q.ignore_if_not_exists]

\* The flags that drop_database hands to Fluss.
DropFlags(q) == [ignore |-> q.ignore_if_not_exists, cascade |-> q.cascade]

TablesOf(db) == {id \in DOMAIN tables : tables[id].live /\ tables[id].db = db}

Without(ids) ==
    [id \in DOMAIN tables |-> IF id \in ids THEN [tables[id] EXCEPT !.live = FALSE] ELSE tables[id]]

DropDatabase(r) ==
    /\ Sent(r, "drop_database")
    /\ LET q == handler[r].req
       IN  IF q.db \notin databases THEN Unchanging(r, DropFlags(q).ignore)
           ELSE IF TablesOf(q.db) # {} /\ ~DropFlags(q).cascade THEN Unchanging(r, FALSE)
           ELSE /\ databases' = databases \ {q.db}
                /\ tables' = Without(TablesOf(q.db))
                /\ Returns(r, "ok")

\* The columns of the schema that a request describes.
Columns(q) ==
    [j \in DOMAIN q.schema |->
        [name |-> q.schema[j].name,
         type |-> CHOOSE t \in ParseDataType(q.schema[j].data_type) : TRUE]]

CreateTable(r) ==
    /\ Sent(r, "create_table")
    /\ LET q == handler[r].req
       IN  IF q.db \notin databases THEN Unchanging(r, FALSE)
           ELSE IF LiveAt(q.db, q.table) # {} THEN Unchanging(r, q.ignore_if_exists)
           ELSE /\ Len(tables) < MaxTables
                /\ tables' = Append(tables, Table(q.db, q.table, Columns(q), q.primary_key, q.bucket_count, {r}))
                /\ Returns(r, "ok") /\ UNCHANGED databases

DropTable(r) ==
    /\ Sent(r, "drop_table")
    /\ IF Found(r) = {} THEN Unchanging(r, handler[r].req.ignore_if_not_exists)
       ELSE /\ tables' = Without(Found(r))
            /\ Returns(r, "ok") /\ UNCHANGED databases

\* The buckets that list_offsets asks for.
Buckets(q) == IF q.buckets = {} THEN {0} ELSE UNION {ToSet(bs) : bs \in q.buckets}

ListDatabases(r) == Sent(r, "list_databases") /\ Unchanging(r, TRUE)

ListTables(r) == Sent(r, "list_tables") /\ Unchanging(r, handler[r].req.db \in databases)

ListOffsets(r) ==
    /\ Sent(r, "list_offsets")
    /\ Unchanging(r, \E id \in Found(r) :
                        \A b \in Buckets(handler[r].req) : b < Len(tables[id].log))

ListPartitions(r) ==
    /\ Sent(r, "list_partitions")
    /\ Returns(r, IF Found(r) = {} THEN "refused" ELSE "unpartitioned")
    /\ UNCHANGED catalogue

\* The logs that a table may have once a row has been written to it: appended,
\* or in place of the row with its key, or that row deleted.
LogsAfter(t, row, delete) ==
    LET places == Places(t, KeyOf(t, row))
    IN  IF t.pk = <<>> \/ (places = {} /\ ~delete)
        THEN {[t.log EXCEPT ![b] = Append(@, row)] : b \in DOMAIN t.log}
        ELSE IF places = {} THEN {t.log}
        ELSE {IF delete THEN [t.log EXCEPT ![p[1]] = RemoveAt(@, p[2])]
                        ELSE [t.log EXCEPT ![p[1]] = [@ EXCEPT ![p[2]] = row]] : p \in places}

Write(r) ==
    /\ Sent(r, "produce")
    /\ LET h == handler[r]
           t == tables[h.table]
       IN  IF ~t.live THEN Unchanging(r, FALSE)
           ELSE /\ \E log \in LogsAfter(t, h.carry, h.req.delete) :
                      /\ \A b \in DOMAIN log : Len(log[b]) <= MaxRows
                      /\ tables' = [tables EXCEPT ![h.table].log = log]
                /\ Returns(r, "ok") /\ UNCHANGED databases

-----------------------------------------------------------------------------
Handle(r) ==
    \/ TableInfo(r) \/ StartLookup(r) \/ Lookup(r) \/ StartScan(r) \/ Scan(r)
    \/ Convert(r) \/ OpenWriter(r) \/ Answer(r) \/ CallFails(r)

Execute(r) ==
    \/ CreateDatabase(r) \/ DropDatabase(r) \/ CreateTable(r) \/ DropTable(r)
    \/ ListDatabases(r) \/ ListTables(r) \/ ListOffsets(r) \/ ListPartitions(r)
    \/ Write(r)

Next ==
    \E r \in Slots : \/ \E q \in Requests[r] : Receive(r, q)
                     \/ Handle(r) \/ Execute(r) \/ ClientLeaves(r)

Spec == Init /\ [][Next]_vars

-----------------------------------------------------------------------------
(***************************************************************************)
(* What the API guarantees                                                 *)
(***************************************************************************)

Succeeded(r) == handler[r].answer.status \in {200, 201, 204}

\* A table created with 201 was made by that very request, once and as it was
\* described, unless it asked to ignore one that exists; then there was one.  A
\* request answered with a 4xx has made nothing and never will, although calls
\* are executed after the gateway has given up on them.
CreatedMeansMade ==
    \A r \in Slots :
        LET h    == handler[r]
            mine == {id \in DOMAIN tables : tables[id].by = {r}}
        IN  /\ Cardinality(mine) <= 1
            /\ h.answer.status \in 400..499 => mine = {} /\ call[r] # "sent"
            /\ h.req.op = "create_table" /\ Succeeded(r) =>
                 \E id \in IF h.req.ignore_if_exists THEN DOMAIN tables ELSE mine :
                    /\ tables[id].db = h.req.db /\ tables[id].name = h.req.table
                    /\ id \in mine => \A j \in DOMAIN h.req.schema :
                          h.req.schema[j].data_type \in TypeNames[tables[id].columns[j].type]

\* The rows of a lookup or a batch answer its keys, in their order, at most one
\* row to a key, each with the texts that were asked for, as far as a type keeps
\* its text - also when the table is written, dropped or replaced by another one
\* between two keys.
AnswersInKeyOrder ==
    \A r \in Slots : LET h == handler[r] IN
        h.req.op \in Reads => \E key \in [DOMAIN h.out -> 1..h.done] :
            /\ \A i, j \in DOMAIN h.out : i < j => key[i] < key[j]
            /\ \A i \in DOMAIN h.out : LET t == tables[h.out[i].table] IN
                  \A name \in ToSet(t.pk) : t.columns[Column(t, name)].type \in LookupTypes =>
                      Written(h.out[i].row[name]) = h.req.keys[key[i]][name]

\* What a scan returns is, of each bucket, the first rows of its log, without a
\* gap or a repetition, whatever is appended while it runs; at most limit rows.
ScanIsPrefix ==
    \A r \in Slots : LET h == handler[r] IN
        h.req.op = "scan" /\ Succeeded(r) =>
            LET t == tables[h.table]
            IN  /\ \A n \in h.req.limit : Len(h.out) <= n
                /\ \E place \in [DOMAIN h.out -> UNION {DOMAIN bucket : bucket \in ToSet(t.log)}] :
                      \A i \in DOMAIN h.out : LET b == h.out[i].bucket IN
                         /\ place[i] \in DOMAIN t.log[b]
                         /\ \A name \in DOMAIN h.out[i].row :
                               h.out[i].row[name] = DatumToJson(t.log[b][place[i]][Column(t, name)])
                         /\ {place[j] : j \in {k \in 1..(i - 1) : h.out[k].bucket = b}} = 1..(place[i] - 1)

\* A row reads back as what it is: written again as it is shown, it does not
\* change, and its key, as it is shown, is one that a lookup takes and finds.
\* Not so for bytes, which are shown in hexadecimal, for NaN and the infinities,
\* which are shown as 0, and for the keys of other types, which no text leads to.
RowsReadBack ==
    \A id \in DOMAIN tables : LET t == tables[id] IN
        \A b \in DOMAIN t.log : \A row \in ToSet(t.log[b]) : \A j \in DOMAIN row :
            LET type  == t.columns[j].type
                shown == DatumToJson(row[j])
            IN  /\ type # "bytes" /\ row[j] \notin {Float(f, x) : f \in Real, x \in NotFinite}
                   => JsonToDatum(shown, type) = {row[j]}
                /\ /\ t.columns[j].name \in ToSet(t.pk)
                   /\ type \in LookupTypes
                   => JsonToDatum(String(Written(shown)), type) = {row[j]}

\* A request is counted only with those of its own operation: no other that
\* clients send has its method and its label, whatever its database and its
\* table are called.
SeriesTellRoutesApart ==
    \A r \in {r \in Slots : handler[r].pc = "done"} : \A s \in Slots : \A q \in Requests[s] :
        LET p == handler[r].req
        IN  Method(p) = Method(q) /\ NormalizePath(Segments(p)) = NormalizePath(Segments(q))
                => p.op = q.op

-----------------------------------------------------------------------------
(***************************************************************************)
(* The API implements AtomicCatalogue: where a handler is, and what it     *)
(* carries, is nothing to its client.                                      *)
(***************************************************************************)
Told(r) ==
    LET h == handler[r]
    IN  CASE h.pc \in Running \cup {"new"} -> "nothing"
          [] h.pc = "gone"                 -> "unknown"
          [] h.pc = "done"                 -> IF Succeeded(r) THEN "yes"
                                              ELSE IF h.answer.status \in 400..499 THEN "no"
                                              ELSE "unknown"

Fate(r) ==
    IF call[r] = "sent" THEN "due"
    ELSE IF handler[r].pc # "call" THEN "none"
    ELSE IF call[r] = "refused" THEN "declined" ELSE "done"

Creations == {q \in UNION {Requests[r] : r \in Slots} : q.op = "create_table"}

Schema(columns, pk) == [columns |-> columns, pk |-> pk]

Entry(t) == [db |-> t.db, name |-> t.name, schema |-> Schema(t.columns, t.pk)]

Entries == {Entry(tables[id]) : id \in {i \in DOMAIN tables : tables[i].live}}

Promise == INSTANCE AtomicCatalogue WITH
               Clients  <- Slots,
               Orders   <- Requests,
               SchemaOf <- [q \in Creations |-> Schema(Columns(q), q.primary_key)],
               tables   <- Entries,
               order    <- [r \in Slots |-> handler[r].req],
               call     <- [r \in Slots |-> Fate(r)],
               told     <- [r \in Slots |-> Told(r)]

\* For its clients the API is an atomic catalogue: each request takes effect once
\* at most and as a whole, between its arrival and a success, never after a 4xx,
\* and perhaps still after a 5xx or without an answer.  What a handler has found is
\* there when it succeeds, although it looks a table up long before it uses it.
CatalogueIsAtomic == Promise!Spec
=============================================================================
