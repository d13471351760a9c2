---------------------------- MODULE MCRestTables ----------------------------
(***************************************************************************)
(* RestTables for TLC: a database with a primary key table "t", a log      *)
(* table "_log" of two buckets, and a table "k" of the other types, whose  *)
(* key is a TINYINT.                                                       *)
(***************************************************************************)
EXTENDS RestTables

CONSTANTS s1, s2, s3

ThreeSlots == {s1, s2, s3}

SlotSymmetry == Permutations({s2, s3})

\* Integer types of 2, 3, 4 and 5 bits.
SmallHalf == [tinyint |-> 2, smallint |-> 4, int |-> 8, bigint |-> 16]

SomeNames == {"", "d", "t", "k", "_log", "id", "v", "b", "x", "f", "g"}
SomeUnderscored == {"_log"}

SomeTexts  == {Digits(1), Digits(2), Digits(9)}
SomeValues == {Number(1), Number(2), Number(9), Number(17), Null, Bool(FALSE),
               String(Word("a")), String(NaN), String(Infinity), Fraction(Point("1.5")),
               Fraction(Large("1e300"))}

Col(name, type) == [name |-> name, type |-> type]

SomeDatabases == {"d"}

\* Tables as they are after some use.
SomeTables ==
    <<[Table("d", "t", <<Col("id", "int"), Col("v", "string")>>, <<"id">>, 1, {}) EXCEPT
          !.log = << << <<Integer("int", 1), String(Word("a"))>>, <<Integer("int", 2), Null>> >> >>],
      [Table("d", "_log", <<Col("id", "bigint")>>, <<>>, 2, {}) EXCEPT
          !.log = << << <<Integer("bigint", 1)>> >>, << <<Integer("bigint", 2)>> >> >>],
      [Table("d", "k", <<Col("id", "tinyint"), Col("b", "boolean"), Col("x", "bytes"),
                         Col("f", "double"), Col("g", "float")>>, <<"id">>, 1, {}) EXCEPT
          !.log = << << <<Integer("tinyint", 1), Bool(TRUE), Blob(Word("a")),
                          Float("double", NaN), Float("float", Point("1.5"))>> >> >>]>>

On(op, table) == [op |-> op, db |-> "d", table |-> table]

Key(n) == [col \in {"id"} |-> Digits(n)]

Described(name, type) == [name |-> name, data_type |-> type]

Creation(table, type, pk, ignore) ==
    On("create_table", table) @@
    [schema |-> <<Described("id", type)>>, primary_key |-> pk, bucket_count |-> 1,
     ignore_if_exists |-> ignore]

\* A creation that names a column twice.
Twice ==
    [Creation("t", "int", <<"id">>, FALSE) EXCEPT
        !.schema = <<Described("id", "int"), Described("id", "bigint")>>]

Production(table, values, delete) == On("produce", table) @@ [values |-> values, delete |-> delete]

AnyOfThem ==
    {[op |-> "list_databases"], [op |-> "list_tables", db |-> "d"],
     [op |-> "create_database", database_name |-> "", ignore_if_exists |-> TRUE],
     [op |-> "create_database", database_name |-> "d", ignore_if_exists |-> TRUE],
     [op |-> "drop_database", db |-> "d", ignore_if_not_exists |-> TRUE, cascade |-> FALSE],
     [op |-> "drop_database", db |-> "d", ignore_if_not_exists |-> FALSE, cascade |-> TRUE],
     [op |-> "drop_database", db |-> "_log", ignore_if_not_exists |-> TRUE, cascade |-> TRUE],
     On("table_info", "t"), On("table_info_put", "t"), On("prefix_scan", "t"),
     On("list_partitions", "t"),
     On("drop_table", "t") @@ [ignore_if_not_exists |-> TRUE],
     Creation("t", "varchar", <<"id">>, TRUE),
     Creation("t", "int", <<"v">>, FALSE), Creation("t", "i8", <<>>, FALSE),
     Twice,
     On("lookup", "t") @@ [keys |-> <<Key(9)>>],
     On("batch_lookup", "t") @@ [keys |-> <<Key(2), Key(1)>>],
     On("batch_lookup", "t") @@ [keys |-> <<>>],
     On("scan", "_log") @@ [projection |-> {}, limit |-> {2}],
     On("scan", "t") @@ [projection |-> {}, limit |-> {}],
     On("list_offsets", "_log") @@ [spec |-> {"latest"}, timestamp |-> {}, buckets |-> {<<0, 1>>}],
     On("list_offsets", "_log") @@ [spec |-> {"timestamp"}, timestamp |-> {}, buckets |-> {}],
     Production("t", <<Number(9)>>, FALSE),
     Production("t", <<Number(2)>>, TRUE),
     Production("k", <<Number(9), Bool(FALSE), String(Word("a")), Fraction(Point("1.5")),
                       String(NaN)>>, FALSE),
     Production("k", <<Number(2), Null, Null, String(Infinity), Fraction(Large("1e300"))>>, FALSE),
     Production("k", <<Number(1), Null, Null, Fraction(Large("1e300")), Null>>, FALSE),
     On("lookup", "k") @@ [keys |-> <<Key(1)>>], On("lookup", "_log") @@ [keys |-> <<Key(1)>>],
     Production("_log", <<Number(9), Number(1)>>, FALSE)}

\* Requests that get in the way of others.
Disturbing ==
    {q \in AnyOfThem :
        \/ q.op \in {"drop_table", "create_table"} /\ q # Twice
        \/ q.op = "create_database" /\ q.database_name = "d"
        \/ q.op = "drop_database" /\ q.cascade /\ q.db = "d"
        \/ q.op = "produce" /\ q.table \in {"t", "_log"} /\ ~q.delete}

SomeRequests == (s1 :> AnyOfThem) @@ [s \in {s2, s3} |-> Disturbing]
=============================================================================
