-------------------------- MODULE AtomicCatalogue --------------------------
(***************************************************************************)
(* What clients may count on when they use a catalogue of databases and    *)
(* tables through the REST API, said without handlers, lost answers or the *)
(* rows of tables.                                                         *)
(*                                                                         *)
(* An order reaches the catalogue in at most one call, and the call takes  *)
(* effect as a whole, at one moment.  When the answer is "yes", that       *)
(* moment lies between the order and its answer; when it is "no", it never *)
(* comes; and when nobody knows, it may still come.                        *)
(***************************************************************************)

CONSTANTS
    Clients,        \* each gives one order
    Orders,         \* of each client: those it may give
    SchemaOf        \* of each order of a table: its columns and its primary key

VARIABLES
    databases,  \* the databases there are
    tables,     \* the tables there are: their paths and schemas
    order,      \* of each client: its order, None until it is given
    call,       \* what became of its call: "none", "due", "done" or "declined"
    told        \* what it was told: "nothing" yet, "yes", "no" or "unknown"

catalogue == <<databases, tables>>
vars      == <<databases, tables, order, call, told>>

None == [op |-> "none"]

TablesOf(db) == {t \in tables : t.db = db}

\* The tables that the path of an order leads to.
Target(q) == {t \in TablesOf(q.db) : t.name = q.table}

\* Every table is in a database, and alone at its path.
Consistent ==
    /\ \A t \in tables : t.db \in databases
    /\ \A t, u \in tables : t.db = u.db /\ t.name = u.name => t = u

Init ==
    /\ Consistent
    /\ order = [c \in Clients |-> None]
    /\ call  = [c \in Clients |-> "none"]
    /\ told  = [c \in Clients |-> "nothing"]

-----------------------------------------------------------------------------
(***************************************************************************)
(* Orders and answers                                                      *)
(***************************************************************************)

\* Orders about a table that is there, and which leave the catalogue alone.
Reading == {"table_info", "table_info_put", "lookup", "batch_lookup", "scan"}

AsksForNothing(q) == "keys" \in DOMAIN q /\ q.keys = <<>>

\* The call is made, once.
Call(c, q) ==
    /\ q.op \notin Reading /\ call[c] = "none"
    /\ call' = [call EXCEPT ![c] = "due"]
    /\ UNCHANGED told

\* The client is told; from then on only a call that is due matters.
Tell(c, q) ==
    \E answer \in {"yes", "no", "unknown"} :
        /\ answer = "yes" => \/ call[c] = "done"
                             \/ q.op \in Reading /\ (AsksForNothing(q) \/ Target(q) # {})
        /\ answer = "no" => call[c] = "none"
        /\ told' = [told EXCEPT ![c] = answer]
        /\ call' = [call EXCEPT ![c] = IF @ = "due" THEN "due" ELSE "none"]

\* An order is given, and served until its client is told something.
Serve(c, q) ==
    /\ order[c] \in {None, q} /\ told[c] = "nothing"
    /\ order' = [order EXCEPT ![c] = q]
    /\ Call(c, q) \/ Tell(c, q) \/ UNCHANGED <<call, told>>
    /\ UNCHANGED catalogue

-----------------------------------------------------------------------------
(***************************************************************************)
(* Effects                                                                 *)
(***************************************************************************)

\* A call has something to change, and may.
Possible(q) ==
    CASE q.op = "create_database" -> q.database_name \notin databases
      [] q.op = "drop_database"   -> q.db \in databases /\ (TablesOf(q.db) = {} \/ q.cascade)
      [] q.op = "create_table"    -> q.db \in databases /\ Target(q) = {}
      [] q.op = "drop_table"      -> Target(q) # {}
      [] OTHER                    -> FALSE

Change(q) ==
    /\ databases' = CASE q.op = "create_database" -> databases \cup {q.database_name}
                      [] q.op = "drop_database"   -> databases \ {q.db}
                      [] OTHER                    -> databases
    /\ tables' = CASE q.op = "drop_database" -> tables \ TablesOf(q.db)
                   [] q.op = "create_table"  ->
                        tables \cup {[db |-> q.db, name |-> q.table, schema |-> SchemaOf[q]]}
                   [] q.op = "drop_table"    -> tables \ Target(q)
                   [] OTHER                  -> tables

\* It succeeds without changing anything.
Granted(q) ==
    CASE q.op = "create_database" -> q.database_name \in databases /\ q.ignore_if_exists
      [] q.op = "drop_database"   -> q.db \notin databases /\ q.ignore_if_not_exists
      [] q.op = "create_table"    -> q.db \in databases /\ Target(q) # {} /\ q.ignore_if_exists
      [] q.op = "drop_table"      -> Target(q) = {} /\ q.ignore_if_not_exists
      [] q.op = "list_databases"  -> TRUE
      [] q.op = "list_tables"     -> q.db \in databases
      [] OTHER                    -> Target(q) # {}

\* It does not: a write, or a question about buckets, may need more than a table.
Declined(q) == q.op \in {"produce", "list_offsets"} \/ ~(Possible(q) \/ Granted(q))

Execute(c) ==
    /\ call[c] = "due"
    /\ \E result \in {"done", "declined"} :
          /\ call' = [call EXCEPT ![c] = IF told[c] = "nothing" THEN result ELSE "none"]
          /\ IF result = "done"
             THEN \/ Possible(order[c]) /\ Change(order[c])
                  \/ Granted(order[c]) /\ UNCHANGED catalogue
             ELSE Declined(order[c]) /\ UNCHANGED catalogue
    /\ UNCHANGED <<order, told>>

Next == \E c \in Clients : Execute(c) \/ \E q \in Orders[c] : Serve(c, q)

Spec == Init /\ [][Next]_vars
=============================================================================
