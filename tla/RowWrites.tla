----------------------------- MODULE RowWrites -----------------------------
(***************************************************************************)
(* What POST /v1/{db}/{table}/rows promises its client, without buffers,   *)
(* table handles or background delivery.  The rows of one request are      *)
(* applied with one operation to one table, each at most once, those of a  *)
(* bucket in order.  An acknowledged request has applied all of them, a    *)
(* refused one none; of any other request the client knows nothing, and    *)
(* its rows may be applied even after it has ended.                        *)
(***************************************************************************)
EXTENDS Naturals, Sequences

CONSTANTS Sends, Rows, MaxRows

VARIABLES
    phase,      \* of each request: "new", "running", "acked", "refused", "unknown"
    rows,       \* the rows it carries
    applied     \* what happened to tables, in order

Requests == UNION {[1..n -> Rows] : n \in 0..MaxRows}

Init ==
    /\ phase = [s \in Sends |-> "new"]
    /\ rows = [s \in Sends |-> <<>>]
    /\ applied = <<>>

AppliedTo(s) == {n \in 1..Len(applied) : applied[n].send = s}
AppliedRows(s) == {applied[n].row : n \in AppliedTo(s)}

Begin(s) ==
    /\ phase[s] = "new"
    /\ phase' = [phase EXCEPT ![s] = "running"]
    /\ \E rs \in Requests : rows' = [rows EXCEPT ![s] = rs]
    /\ UNCHANGED applied

End(s, how) ==
    /\ phase[s] = "running"
    /\ how = "acked"   => AppliedRows(s) = DOMAIN rows[s]
    /\ how = "refused" => AppliedRows(s) = {}
    /\ phase' = [phase EXCEPT ![s] = how]
    /\ UNCHANGED <<rows, applied>>

Apply(e) ==
    LET s == e.send IN
    /\ phase[s] \in {"running", "unknown"}
    /\ e.row \in DOMAIN rows[s] \ AppliedRows(s)
    /\ \A n \in AppliedTo(s) : e.op = applied[n].op /\ e.to = applied[n].to
    /\ \A n \in AppliedTo(s) :
          rows[s][applied[n].row].bucket = rows[s][e.row].bucket => applied[n].row < e.row
    /\ applied' = Append(applied, e)
    /\ UNCHANGED <<phase, rows>>

\* One step applies one row: the entry that applied gains.
Next ==
    \/ \E s \in Sends :
          Begin(s) \/ \E how \in {"acked", "refused", "unknown"} : End(s, how)
    \/ Len(applied') = Len(applied) + 1 /\ Apply(applied'[Len(applied')])

\* A crash of the gateway ends every running request.
Crash ==
    /\ phase' = [s \in Sends |-> IF phase[s] = "running" THEN "unknown" ELSE phase[s]]
    /\ UNCHANGED <<rows, applied>>

Spec == Init /\ [][Next \/ Crash]_<<phase, rows, applied>>
=============================================================================
