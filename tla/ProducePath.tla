---------------------------- MODULE ProducePath ----------------------------
(***************************************************************************)
(* Writing rows: produce of server/rest/mod.rs with get_table_info,        *)
(* append_rows, upsert_rows and delete_rows of backend/mod.rs, for         *)
(* requests that run at the same time on one table path while the table    *)
(* is dropped and created again, calls fail, clients leave and the gateway *)
(* crashes.                                                                *)
(*                                                                         *)
(* How connections are obtained is the matter of ConnectionPool.  Fluss is *)
(* external: tables keep an identity that a table created again under the  *)
(* same path does not share; a writer buffers rows, delivers those of one  *)
(* bucket in order, in the background, and flush waits for the writer's    *)
(* own rows and fails when one of them could not be delivered.             *)
(***************************************************************************)
EXTENDS Naturals, Sequences, FiniteSets

CONSTANTS
    Sends,      \* produce requests; a client's retry is another one
    Rows,       \* rows: their bucket, whether their values convert, their change_type
    MaxRows,    \* bound: rows of a request
    MaxTables   \* bound: tables created under the path

ASSUME RowsAssumption ==
    \A w \in Rows : /\ DOMAIN w = {"bucket", "converts", "delete"}
                    /\ w.converts \in BOOLEAN
                    /\ w.delete \in BOOLEAN
ASSUME BoundsAssumption == MaxRows \in Nat /\ MaxTables \in Nat

VARIABLES
    pc,         \* of each request: where its handler is, or how it ended
    rows,       \* the rows it carries
    op,         \* the backend call it makes: append, upsert or delete
    target,     \* the table its writer writes to
    next,       \* how many rows it has given to its writer
    buffer,     \* rows in the writers' buffer, in order
    applied,    \* rows written to tables, in order
    failed,     \* requests of which a row could not be delivered
    kinds,      \* of each table created: "log" or "pk"
    live        \* the table that the path leads to, 0 for none

fluss   == <<applied, failed, kinds, live>>
handler == <<pc, rows, op, target, next>>
vars    == <<pc, rows, op, target, next, buffer, applied, failed, kinds, live>>

Requests == UNION {[1..n -> Rows] : n \in 0..MaxRows}
Ops      == {"append", "upsert", "delete"}
Tables   == 1..Len(kinds)
Entry    == [send : Sends, row : 1..MaxRows, op : Ops, to : 1..MaxTables]
Running  == {"describe", "open", "write"}

TypeOK ==
    /\ pc \in [Sends -> Running \cup {"new", "acked", "refused", "error", "gone"}]
    /\ rows \in [Sends -> Requests]
    /\ op \in [Sends -> Ops]
    /\ target \in [Sends -> 0..Len(kinds)]
    /\ next \in [Sends -> 0..MaxRows]
    /\ buffer \in Seq(Entry)
    /\ applied \in Seq(Entry)
    /\ failed \in SUBSET Sends
    /\ kinds \in Seq({"log", "pk"})
    /\ Len(kinds) <= MaxTables
    /\ live \in 0..Len(kinds)

Init ==
    /\ pc = [s \in Sends |-> "new"]
    /\ rows = [s \in Sends |-> <<>>]
    /\ op = [s \in Sends |-> "append"]
    /\ target = [s \in Sends |-> 0]
    /\ next = [s \in Sends |-> 0]
    /\ buffer = <<>>
    /\ applied = <<>>
    /\ failed = {}
    /\ kinds = <<>>
    /\ live = 0

-----------------------------------------------------------------------------
(***************************************************************************)
(* The handler                                                             *)
(***************************************************************************)

At(s, here, there) == pc[s] = here /\ pc' = [pc EXCEPT ![s] = there]

\* A request arrives, is authorised and asks for the table's metadata.
Produce(s, rs) ==
    /\ At(s, "new", "describe")
    /\ rows' = [rows EXCEPT ![s] = rs]
    /\ UNCHANGED <<op, target, next, buffer, fluss>>

Convertible(rs) == \A i \in DOMAIN rs : rs[i].converts

\* The backend call for rows rs and a table of the given kind.
Route(rs, kind) ==
    IF kind = "log" THEN "append"
    ELSE IF \E i \in DOMAIN rs : rs[i].delete THEN "delete" ELSE "upsert"

\* The metadata is there: every row is converted before any is written.
Convert(s) ==
    /\ live # 0
    /\ Convertible(rows[s])
    /\ At(s, "describe", "open")
    /\ op' = [op EXCEPT ![s] = Route(rows[s], kinds[live])]
    /\ UNCHANGED <<rows, target, next, buffer, fluss>>

\* BadRequest: a value is not of its column's type.
RefuseRows(s) ==
    /\ live # 0
    /\ ~Convertible(rows[s])
    /\ At(s, "describe", "refused")
    /\ UNCHANGED <<rows, op, target, next, buffer, fluss>>

Fits(o, kind) == (o = "append") <=> (kind = "log")

\* Mutated: the table is taken to be what get_table_info said.
OpenUnchecked(s) ==
    /\ live # 0
    /\ At(s, "open", "write")
    /\ target' = [target EXCEPT ![s] = live]
    /\ UNCHANGED <<rows, op, next, buffer, fluss>>

\* The backend call gets the table again, and it still has the right kind.
Open(s) ==
    /\ live # 0
    /\ Fits(op[s], kinds[live])
    /\ At(s, "open", "write")
    /\ target' = [target EXCEPT ![s] = live]
    /\ UNCHANGED <<rows, op, next, buffer, fluss>>

\* InvalidOperation: it is now a table of the other kind.
RefuseKind(s) ==
    /\ live # 0
    /\ ~Fits(op[s], kinds[live])
    /\ At(s, "open", "refused")
    /\ UNCHANGED <<rows, op, target, next, buffer, fluss>>

\* FlussError: get_table fails, as it does when there is no such table.
TableFails(s) ==
    /\ At(s, "describe", "error") \/ At(s, "open", "error")
    /\ UNCHANGED <<rows, op, target, next, buffer, fluss>>

Unwritten(s) == next[s] < Len(rows[s])

\* Mutated: the table is looked up again for each row.
BufferReopened(s) ==
    /\ pc[s] = "write" /\ Unwritten(s) /\ live # 0 /\ Fits(op[s], kinds[live])
    /\ buffer' = Append(buffer, [send |-> s, row |-> next[s] + 1, op |-> op[s], to |-> live])
    /\ next' = [next EXCEPT ![s] = @ + 1]
    /\ UNCHANGED <<pc, rows, op, target, fluss>>

\* Mutated: rows are numbered from zero.
BufferZeroBased(s) ==
    /\ pc[s] = "write" /\ Unwritten(s)
    /\ buffer' = Append(buffer, [send |-> s, row |-> next[s], op |-> op[s], to |-> target[s]])
    /\ next' = [next EXCEPT ![s] = @ + 1]
    /\ UNCHANGED <<pc, rows, op, target, fluss>>

\* The next row is given to the writer, which does not wait for Fluss.
Buffer(s) ==
    /\ pc[s] = "write" /\ Unwritten(s)
    /\ buffer' = Append(buffer, [send |-> s, row |-> next[s] + 1, op |-> op[s], to |-> target[s]])
    /\ next' = [next EXCEPT ![s] = @ + 1]
    /\ UNCHANGED <<pc, rows, op, target, fluss>>

\* Mutated: a row the writer refuses is answered as a bad request.
RowFailsRefused(s) ==
    /\ At(s, "write", "refused") /\ Unwritten(s)
    /\ UNCHANGED <<rows, op, target, next, buffer, fluss>>

\* FlussError: the writer refuses the row.  Those before it stay in the buffer.
RowFails(s) ==
    /\ At(s, "write", "error") /\ Unwritten(s)
    /\ UNCHANGED <<rows, op, target, next, buffer, fluss>>

Pending(s) == {n \in 1..Len(buffer) : buffer[n].send = s}

\* Mutated: the answer does not wait for the flush.
FlushUnawaited(s) ==
    /\ At(s, "write", "acked") /\ ~Unwritten(s)
    /\ UNCHANGED <<rows, op, target, next, buffer, fluss>>

\* All rows were given to the writer, and flush returns: they are written.
Flush(s) ==
    /\ At(s, "write", "acked") /\ ~Unwritten(s)
    /\ Pending(s) = {} /\ s \notin failed
    /\ UNCHANGED <<rows, op, target, next, buffer, fluss>>

\* Mutated: when the flush fails the rows are given to the writer again.
FlushFailsRetries(s) ==
    /\ pc[s] = "write" /\ ~Unwritten(s) /\ Len(buffer) + Len(applied) < 2 * MaxRows
    /\ next' = [next EXCEPT ![s] = 0]
    /\ UNCHANGED <<pc, rows, op, target, buffer, fluss>>

\* FlussError: flush fails, for a row of its own or for any other reason.
FlushFails(s) ==
    /\ At(s, "write", "error") /\ ~Unwritten(s)
    /\ UNCHANGED <<rows, op, target, next, buffer, fluss>>

\* The client leaves and the handler is dropped; its rows stay in the buffer.
ClientLeaves(s) ==
    /\ pc[s] \in Running
    /\ pc' = [pc EXCEPT ![s] = "gone"]
    /\ UNCHANGED <<rows, op, target, next, buffer, fluss>>

\* The gateway crashes: the buffer and every request in it are gone.
Crash ==
    /\ pc' = [s \in Sends |-> IF pc[s] \in Running THEN "gone" ELSE pc[s]]
    /\ buffer' = <<>>
    /\ UNCHANGED <<rows, op, target, next, fluss>>

-----------------------------------------------------------------------------
(***************************************************************************)
(* Fluss                                                                   *)
(***************************************************************************)

BucketOf(e) == rows[e.send][e.row].bucket

\* The n-th row of the buffer is the first of its bucket.
Foremost(n) ==
    \A k \in 1..(n - 1) :
        buffer[k].to = buffer[n].to => BucketOf(buffer[k]) # BucketOf(buffer[n])

Without(seq, n) == SubSeq(seq, 1, n - 1) \o SubSeq(seq, n + 1, Len(seq))

\* A row is delivered: written, unless its table is gone or Fluss refuses it.
Deliver ==
    \E n \in 1..Len(buffer) :
        /\ Foremost(n)
        /\ buffer' = Without(buffer, n)
        /\ \/ /\ buffer[n].to = live
              /\ applied' = Append(applied, buffer[n])
              /\ UNCHANGED failed
           \/ /\ failed' = failed \cup {buffer[n].send}
              /\ UNCHANGED applied
        /\ UNCHANGED <<handler, kinds, live>>

CreateTable ==
    /\ live = 0
    /\ Len(kinds) < MaxTables
    /\ \E kind \in {"log", "pk"} : kinds' = Append(kinds, kind)
    /\ live' = Len(kinds')
    /\ UNCHANGED <<handler, buffer, applied, failed>>

DropTable ==
    /\ live # 0
    /\ live' = 0
    /\ UNCHANGED <<handler, buffer, applied, failed, kinds>>

-----------------------------------------------------------------------------
Handle(s) ==
    \/ Convert(s) \/ RefuseRows(s) \/ Open(s) \/ RefuseKind(s) \/ TableFails(s)
    \/ Buffer(s) \/ RowFails(s) \/ Flush(s) \/ FlushFails(s)

Next ==
    \/ \E s \in Sends : \/ \E rs \in Requests : Produce(s, rs)
                        \/ Handle(s) \/ ClientLeaves(s)
    \/ Deliver \/ CreateTable \/ DropTable \/ Crash

Spec == Init /\ [][Next]_vars

-----------------------------------------------------------------------------
(***************************************************************************)
(* What a write guarantees                                                 *)
(***************************************************************************)

Done(s) == {n \in 1..Len(applied) : applied[n].send = s}

\* A request that is answered 200 has had each of its rows written, although
\* the writer only buffers them and the table may be dropped meanwhile.
AckedIsWritten ==
    \A s \in Sends : pc[s] = "acked" =>
        \A i \in DOMAIN rows[s] : \E n \in Done(s) : applied[n].row = i

\* A request that is answered with a 4xx has not written a row and never
\* will: not even the rows before the one that did not convert.
RefusedLeavesNoTrace ==
    \A s \in Sends : pc[s] = "refused" => Done(s) = {} /\ Pending(s) = {}

\* Rows are appended to log tables only, and upserted and deleted in primary
\* key tables only, also when the table is created again as one of the other
\* kind between the two times the handler asks for it.
KindRespected ==
    \A n \in 1..Len(applied) : Fits(applied[n].op, kinds[applied[n].to])

\* A request writes each of its rows at most once, whatever fails in it.
\* (A client that sends its rows again makes another request.)
WrittenOnce ==
    \A s \in Sends : \A m, n \in Done(s) : m # n => applied[m].row # applied[n].row

Phase == [s \in Sends |->
    CASE pc[s] \in Running           -> "running"
      [] pc[s] \in {"error", "gone"} -> "unknown"
      [] OTHER                       -> pc[s]]

Promise == INSTANCE RowWrites WITH phase <- Phase

\* produce keeps the promise that RowWrites states.
ImplementsRowWrites == Promise!Spec

-----------------------------------------------------------------------------
(***************************************************************************)
(* What the documentation says and the code does not do                    *)
(***************************************************************************)

\* API.md:168, of a row's change_type: "Set to "Delete" to perform deletion":
\* a row is deleted only if its own change_type says so.
DeletesAreMarked ==
    \A n \in 1..Len(applied) :
        applied[n].op = "delete" => rows[applied[n].send][applied[n].row].delete
=============================================================================
