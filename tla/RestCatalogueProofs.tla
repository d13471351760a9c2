------------------------ MODULE RestCatalogueProofs ------------------------
(***************************************************************************)
(* Proof that the API implements AtomicCatalogue, for any requests, and    *)
(* what follows of the catalogue.                                          *)
(***************************************************************************)
EXTENDS RestTablesProofs

(***************************************************************************)
(* The invariant: what a handler has found is at the path of its request,  *)
(* and nothing else is.                                                    *)
(***************************************************************************)

\* A table keeps its path, dropped or not.
Placed(r) ==
    LET h == handler[r]
    IN  h.pc \in {"read", "poll"} \/ (call[r] = "sent" /\ h.req.op = "produce") =>
          /\ h.table \in DOMAIN tables
          /\ tables[h.table].db = h.req.db /\ tables[h.table].name = h.req.table

SamePath(t, u) == t.db = u.db /\ t.name = u.name

Apart ==
    \A i, j \in DOMAIN tables :
        tables[i].live /\ tables[j].live /\ SamePath(tables[i], tables[j]) => i = j

PathInv == Apart /\ \A r \in Slots : Placed(r)

\* Tables stay, at their paths.
PathsStay ==
    /\ DOMAIN tables \subseteq DOMAIN tables'
    /\ \A id \in DOMAIN tables : SamePath(tables'[id], tables[id])

\* A request is still placed after a step of another one.
LEMMA OthersArePlaced ==
    ASSUME NEW s \in Slots, Placed(s), PathsStay, handler'[s] = handler[s],
           call'[s] = "sent" => call[s] = "sent"
    PROVE  Placed(s)'
BY DEF Placed, PathsStay, SamePath

\* The end of a request leaves it placed: its call goes where it would have gone.
LEMMA EndedIsPlaced ==
    ASSUME IInv, PathInv, NEW r \in Slots, NEW new, Ends(r, new), UNCHANGED catalogue,
           DOMAIN new \subseteq {"pc", "answer"}, "pc" \in DOMAIN new,
           new["pc"] \in {"done", "gone"}
    PROVE  PathInv'
<1>1. /\ \A s \in Slots \ {r} : handler'[s] = handler[s] /\ call'[s] = call[s]
      /\ handler'[r].req = handler[r].req
      /\ call'[r] = IF call[r] = "sent" THEN "sent" ELSE "none"
      /\ handler'[r].pc = new["pc"]
      /\ call[r] = "sent" => handler'[r].table = handler[r].table
      BY EndsAs
<1>2. tables' = tables BY DEF catalogue
<1>3. PathsStay BY <1>2 DEF PathsStay, SamePath
<1>4. Placed(r)' BY <1>1, <1>2 DEF PathInv, Placed
<1>5. \A s \in Slots \ {r} : Placed(s)' BY <1>1, <1>3, OthersArePlaced DEF PathInv
<1> QED BY <1>2, <1>4, <1>5 DEF PathInv, Apart

\* A handler that goes on with a table has just found it.
LEMMA WentIsPlaced ==
    ASSUME IInv, PathInv, NEW r \in Slots, NEW new, Goes(r, new), UNCHANGED catalogue,
           call' \in [Slots -> Calls], \A s \in Slots \ {r} : call'[s] = call[s],
           Placed(r)'
    PROVE  PathInv'
<1>1. \A s \in Slots \ {r} : handler'[s] = handler[s] BY Went
<1>2. tables' = tables BY DEF catalogue
<1>3. PathsStay BY <1>2 DEF PathsStay, SamePath
<1>4. \A s \in Slots \ {r} : Placed(s)' BY <1>1, <1>3, OthersArePlaced DEF PathInv
<1> QED BY <1>2, <1>4 DEF PathInv, Apart

\* An answer leaves every request placed.
LEMMA FailedIsPlaced ==
    ASSUME IInv, PathInv, NEW r \in Slots, NEW answer, Reply(r, answer), UNCHANGED catalogue
    PROVE  PathInv'
<1> DEFINE new == [pc |-> "done", answer |-> answer]
<1>1. DOMAIN new = {"pc", "answer"} /\ new["pc"] = "done" /\ Ends(r, new) BY DEF Reply
<1> HIDE DEF new
<1> QED BY <1>1, EndedIsPlaced

\* A new request holds no table yet.
LEMMA ReceivePlaced ==
    ASSUME IInv, PathInv, NEW r \in Slots, NEW q \in Requests[r], Receive(r, q)
    PROVE  PathInv'
<1>1. UNCHANGED catalogue BY DEF Receive
<1>2. Follows(r) /\ handler[r].pc = "new" /\ call \in [Slots -> Calls] /\ call[r] = "none"
      BY DEF IInv, Undisturbed, Receive, Follows
<1>3. \E pc \in {"done", "table", "call"} : \E answer :
         \/ Goes(r, [req |-> q, pc |-> pc]) /\ (call' = call \/ q.op # "produce")
         \/ Goes(r, [req |-> q, pc |-> pc, answer |-> answer]) /\ call' = call
  BY DEF Receive, Served
<1>4. PICK pc, new :
         /\ pc \in {"done", "table", "call"}
         /\ Goes(r, new) /\ (call' = call \/ q.op # "produce")
         /\ {"req", "pc"} \subseteq DOMAIN new /\ new["req"] = q /\ new["pc"] = pc
  <2>1. PICK pc \in {"done", "table", "call"} : \E answer :
           \/ Goes(r, [req |-> q, pc |-> pc]) /\ (call' = call \/ q.op # "produce")
           \/ Goes(r, [req |-> q, pc |-> pc, answer |-> answer]) /\ call' = call
        BY <1>3
  <2>2. PICK answer :
           \/ Goes(r, [req |-> q, pc |-> pc]) /\ (call' = call \/ q.op # "produce")
           \/ Goes(r, [req |-> q, pc |-> pc, answer |-> answer]) /\ call' = call
        BY <2>1
  <2>3. CASE Goes(r, [req |-> q, pc |-> pc]) /\ (call' = call \/ q.op # "produce")
    <3> DEFINE new == [req |-> q, pc |-> pc]
    <3>1. {"req", "pc"} \subseteq DOMAIN new /\ new["req"] = q /\ new["pc"] = pc OBVIOUS
    <3> HIDE DEF new
    <3> QED BY <2>3, <3>1
  <2>4. CASE Goes(r, [req |-> q, pc |-> pc, answer |-> answer]) /\ call' = call
    <3> DEFINE new == [req |-> q, pc |-> pc, answer |-> answer]
    <3>1. {"req", "pc"} \subseteq DOMAIN new /\ new["req"] = q /\ new["pc"] = pc OBVIOUS
    <3> QED BY <2>4, <3>1
  <2> QED BY <2>2, <2>3, <2>4
<1>5. handler'[r].req = q /\ handler'[r].pc = pc BY <1>4, Went DEF Fields
<1>6. call' \in [Slots -> Calls] /\ \A s \in Slots \ {r} : call'[s] = call[s]
      BY <1>2 DEF Receive, Calls
<1>7. Placed(r)' BY <1>2, <1>4, <1>5 DEF Placed
<1> QED BY <1>1, <1>4, <1>6, <1>7, WentIsPlaced

\* The other handlers.
LEMMA HandlePlaced ==
    ASSUME IInv, PathInv, NEW r \in Slots, Handle(r) \/ ClientLeaves(r)
    PROVE  PathInv'
<1> DEFINE h == handler[r]
<1>1. call \in [Slots -> Calls] /\ Follows(r) BY DEF IInv, Undisturbed
<1>2. ASSUME \E answer : Reply(r, answer), UNCHANGED catalogue PROVE PathInv'
      BY <1>2, FailedIsPlaced
<1>3. CASE TableInfo(r) \/ Answer(r) \/ CallFails(r)
      BY <1>2, <1>3 DEF TableInfo, Answer, CallFails, Fail
<1>4. CASE ClientLeaves(r)
  <2> DEFINE new == [pc |-> "gone"]
  <2>1. DOMAIN new = {"pc"} /\ new["pc"] = "gone" /\ Ends(r, new) /\ UNCHANGED catalogue
        BY <1>4 DEF ClientLeaves
  <2> HIDE DEF new
  <2> QED BY <2>1, EndedIsPlaced
<1>5. CASE StartLookup(r) \/ StartScan(r)
  <2>1. UNCHANGED catalogue /\ call[r] = "none"
        BY <1>1, <1>5 DEF StartLookup, StartScan, At, Follows, Running
  <2>2. CASE \E e : Fail(r, e) BY <1>2, <2>1, <2>2 DEF Fail
  <2>3. CASE \E id \in Found(r) : \E pc \in {"read", "poll"} : \E carry :
                Goes(r, [pc |-> pc, table |-> id, carry |-> carry]) /\ call' = call
    <3>1. PICK id \in Found(r) : \E pc \in {"read", "poll"} : \E carry :
             Goes(r, [pc |-> pc, table |-> id, carry |-> carry]) /\ call' = call
          BY <2>3
    <3>2. PICK pc, carry :
             Goes(r, [pc |-> pc, table |-> id, carry |-> carry]) /\ call' = call
          BY <3>1
    <3> DEFINE new == [pc |-> pc, table |-> id, carry |-> carry]
    <3>3. DOMAIN new = {"pc", "table", "carry"} /\ new["table"] = id /\ Goes(r, new)
          BY <3>2
    <3> HIDE DEF new
    <3>4. handler'[r].req = h.req /\ handler'[r].table = id BY <3>3, Went DEF Fields
    <3>5. Placed(r)' BY <2>1, <3>4 DEF Placed, Found, LiveAt, catalogue
    <3> QED BY <1>1, <2>1, <3>2, <3>3, <3>5, WentIsPlaced
  <2> QED BY <1>5, <2>2, <2>3 DEF StartLookup, StartScan
<1>6. CASE Lookup(r) \/ Scan(r) \/ Convert(r)
  <2>1. UNCHANGED catalogue /\ call[r] = "none"
        BY <1>1, <1>6 DEF Lookup, Scan, Convert, At, Follows, Running
  <2>2. CASE \E e : Fail(r, e) BY <1>2, <2>1, <2>2 DEF Fail
  <2>3. CASE call' = call /\ \E new : /\ Goes(r, new) /\ "pc" \in DOMAIN new
                                      /\ new["pc"] \in {"done", "table", "open"}
    <3>1. PICK new : /\ Goes(r, new) /\ "pc" \in DOMAIN new
                     /\ new["pc"] \in {"done", "table", "open"}
          BY <2>3
    <3>2. handler'[r].pc \in {"done", "table", "open"} BY <3>1, Went DEF Fields
    <3>3. Placed(r)' BY <2>1, <2>3, <3>2 DEF Placed
    <3> QED BY <1>1, <2>1, <2>3, <3>1, <3>3, WentIsPlaced
  <2>4. CASE Lookup(r)
    <3>1. PICK pc \in {"done", "table"} : \E done, out, answer :
             Goes(r, [pc |-> pc, done |-> done, out |-> out, answer |-> answer])
          BY <2>4 DEF Lookup
    <3>2. PICK done, out, answer :
             Goes(r, [pc |-> pc, done |-> done, out |-> out, answer |-> answer])
          BY <3>1
    <3> DEFINE new == [pc |-> pc, done |-> done, out |-> out, answer |-> answer]
    <3>3. "pc" \in DOMAIN new /\ new["pc"] = pc /\ Goes(r, new) BY <3>2
    <3> HIDE DEF new
    <3>4. call' = call BY <2>4 DEF Lookup
    <3> QED BY <2>3, <3>3, <3>4
  <2>5. CASE Scan(r)
    <3>1. PICK out, answer : Goes(r, [pc |-> "done", answer |-> answer, out |-> out])
          BY <2>5 DEF Scan
    <3> DEFINE new == [pc |-> "done", answer |-> answer, out |-> out]
    <3>2. "pc" \in DOMAIN new /\ new["pc"] = "done" /\ Goes(r, new) BY <3>1
    <3> HIDE DEF new
    <3>3. call' = call BY <2>5 DEF Scan
    <3> QED BY <2>3, <3>2, <3>3
  <2>6. CASE Convert(r)
    <3>1. \/ \E e : Fail(r, e)
          \/ call' = call /\ \E id, row : Goes(r, [pc |-> "open", table |-> id, carry |-> row])
          BY <2>6 DEF Convert
    <3>2. ASSUME NEW id, NEW row, call' = call,
                 Goes(r, [pc |-> "open", table |-> id, carry |-> row])
          PROVE  PathInv'
      <4> DEFINE new == [pc |-> "open", table |-> id, carry |-> row]
      <4>1. "pc" \in DOMAIN new /\ new["pc"] = "open" /\ Goes(r, new) BY <3>2
      <4> HIDE DEF new
      <4> QED BY <2>3, <3>2, <4>1
    <3> QED BY <2>2, <3>1, <3>2
  <2> QED BY <1>6, <2>4, <2>5, <2>6
<1>7. CASE OpenWriter(r)
  <2>1. UNCHANGED catalogue BY <1>7 DEF OpenWriter
  <2>2. CASE \E e : Fail(r, e) BY <1>2, <2>1, <2>2 DEF Fail
  <2>3. CASE \E id \in Found(r) : Goes(r, [pc |-> "call", table |-> id])
                                  /\ call' = [call EXCEPT ![r] = "sent"]
    <3>1. PICK id \in Found(r) : Goes(r, [pc |-> "call", table |-> id])
                                 /\ call' = [call EXCEPT ![r] = "sent"]
          BY <2>3
    <3> DEFINE new == [pc |-> "call", table |-> id]
    <3>2. DOMAIN new = {"pc", "table"} /\ new["table"] = id /\ Goes(r, new) BY <3>1
    <3> HIDE DEF new
    <3>3. handler'[r].req = h.req /\ handler'[r].table = id BY <3>2, Went DEF Fields
    <3>4. Placed(r)' BY <2>1, <3>3 DEF Placed, Found, LiveAt, catalogue
    <3>5. call' \in [Slots -> Calls] /\ \A s \in Slots \ {r} : call'[s] = call[s]
          BY <1>1, <3>1 DEF Calls
    <3> QED BY <2>1, <3>2, <3>4, <3>5, WentIsPlaced
  <2> QED BY <1>7, <2>2, <2>3 DEF OpenWriter
<1> QED BY <1>3, <1>4, <1>5, <1>6, <1>7 DEF Handle

(***************************************************************************)
(* What the calls do to the tables there are.                              *)
(***************************************************************************)

\* What a path or a database leads to is the same, as tables and as entries.
LEMMA TargetIsThere ==
    /\ \A db : Promise!TablesOf(db) = {} <=> TablesOf(db) = {}
    /\ \A q : Promise!Target(q) = {} <=> LiveAt(q.db, q.table) = {}
<1>1. \A e \in Entries : \E id \in DOMAIN tables :
         /\ tables[id].live /\ e = Entry(tables[id])
         /\ e.db = tables[id].db /\ e.name = tables[id].name
      BY DEF Entries, Entry
<1>2. ASSUME NEW id \in DOMAIN tables, tables[id].live
      PROVE  \E e \in Entries : e.db = tables[id].db /\ e.name = tables[id].name
  <2>1. Entry(tables[id]) \in Entries BY <1>2 DEF Entries
  <2>2. Entry(tables[id]).db = tables[id].db /\ Entry(tables[id]).name = tables[id].name
        BY DEF Entry
  <2> QED BY <2>1, <2>2
<1> QED BY <1>1, <1>2 DEF Promise!TablesOf, Promise!Target, TablesOf, LiveAt

\* Tables that keep their path, their schema and whether they are there.
LEMMA SameTables ==
    ASSUME DOMAIN tables' = DOMAIN tables,
           \A id \in DOMAIN tables :
              /\ tables'[id].live = tables[id].live /\ SamePath(tables'[id], tables[id])
              /\ tables'[id].columns = tables[id].columns /\ tables'[id].pk = tables[id].pk
    PROVE  Entries' = Entries /\ PathsStay /\ (Apart => Apart')
<1>1. \A id \in DOMAIN tables : Entry(tables'[id]) = Entry(tables[id]) BY DEF Entry, SamePath
<1>2. Entries' = Entries BY <1>1 DEF Entries
<1> QED BY <1>2 DEF PathsStay, Apart, SamePath

\* Dropping tables takes their entries away and moves none.
LEMMA TablesDropped ==
    ASSUME Catalogue, NEW ids, tables' = Without(ids)
    PROVE  /\ Entries' = {Entry(tables[id]) : id \in {i \in DOMAIN tables \ ids : tables[i].live}}
           /\ PathsStay /\ (Apart => Apart')
<1>1. /\ DOMAIN tables' = DOMAIN tables
      /\ \A id \in DOMAIN tables :
            tables'[id] = IF id \in ids THEN [tables[id] EXCEPT !.live = FALSE] ELSE tables[id]
      BY DEF Without
<1>2. \A id \in DOMAIN tables :
         DOMAIN tables[id] = {"db", "name", "columns", "pk", "by", "live", "log"}
      BY DEF Catalogue, IsTable
<1>3. \A id \in DOMAIN tables :
         /\ SamePath(tables'[id], tables[id])
         /\ tables'[id].columns = tables[id].columns /\ tables'[id].pk = tables[id].pk
         /\ tables'[id].live = (tables[id].live /\ id \notin ids)
  <2> SUFFICES ASSUME NEW id \in DOMAIN tables
               PROVE  /\ SamePath(tables'[id], tables[id])
                      /\ tables'[id].columns = tables[id].columns
                      /\ tables'[id].pk = tables[id].pk
                      /\ tables'[id].live = (tables[id].live /\ id \notin ids)
      OBVIOUS
  <2>1. tables[id].live \in BOOLEAN BY DEF Catalogue, IsTable
  <2> QED BY <1>1, <1>2, <2>1 DEF SamePath
<1>4. \A id \in DOMAIN tables : Entry(tables'[id]) = Entry(tables[id]) BY <1>3 DEF Entry, SamePath
<1>5. Entries' = {Entry(tables[id]) : id \in {i \in DOMAIN tables \ ids : tables[i].live}}
  <2>1. {i \in DOMAIN tables' : tables'[i].live} = {i \in DOMAIN tables \ ids : tables[i].live}
        BY <1>1, <1>3
  <2>2. Entries' = {Entry(tables'[id]) : id \in {i \in DOMAIN tables' : tables'[i].live}}
        BY DEF Entries
  <2> QED BY <1>4, <2>1, <2>2
<1>6. PathsStay BY <1>1, <1>3 DEF PathsStay
<1>7. Apart => Apart'
  <2> SUFFICES ASSUME Apart, NEW i \in DOMAIN tables, NEW j \in DOMAIN tables,
                      tables'[i].live, tables'[j].live, SamePath(tables'[i], tables'[j])
               PROVE  i = j
      BY <1>1 DEF Apart
  <2>1. tables[i].live /\ tables[j].live /\ SamePath(tables[i], tables[j])
        BY <1>3 DEF SamePath
  <2> QED BY <2>1 DEF Apart
<1> QED BY <1>5, <1>6, <1>7

\* A table made at a free path adds its entry.
LEMMA TableAdded ==
    ASSUME Catalogue, NEW t, t.live, tables' = Append(tables, t), LiveAt(t.db, t.name) = {}
    PROVE  Entries' = Entries \cup {Entry(t)} /\ PathsStay /\ (Apart => Apart')
<1>1. /\ DOMAIN tables' = DOMAIN tables \cup {Len(tables) + 1}
      /\ \A id \in DOMAIN tables : tables'[id] = tables[id]
      /\ tables'[Len(tables) + 1] = t
  BY AppendIsSeq, SeqOfAnything DEF Catalogue
<1>2. Entries' = Entries \cup {Entry(t)} BY <1>1 DEF Entries
<1> QED BY <1>1, <1>2 DEF PathsStay, Apart, SamePath, LiveAt

\* Without some tables, the entries of those are gone and the others stay.
LEMMA EntriesDropped ==
    ASSUME Catalogue, NEW ids, NEW gone, tables' = Without(ids),
           \A id \in DOMAIN tables :
              tables[id].live => (id \in ids <=> Entry(tables[id]) \in gone)
    PROVE  Entries' = Entries \ gone
<1>1. Entries' = {Entry(tables[id]) : id \in {i \in DOMAIN tables \ ids : tables[i].live}}
      BY TablesDropped
<1>2. {i \in DOMAIN tables \ ids : tables[i].live}
        = {i \in {j \in DOMAIN tables : tables[j].live} : Entry(tables[i]) \notin gone}
      OBVIOUS
<1> QED BY <1>1, <1>2 DEF Entries

(***************************************************************************)
(* Steps of Fluss: each is the effect of a call.                           *)
(***************************************************************************)

Result(result) == IF result = "refused" THEN "declined" ELSE "done"

\* The call is executed, and its client gets to know if it is still there.
LEMMA Executed ==
    ASSUME IInv, PathInv, NEW r \in Slots, call[r] = "sent",
           NEW result \in {"ok", "refused", "unpartitioned"}, Returns(r, result),
           PathsStay, Apart',
           LET q == handler[r].req
           IN  IF Result(result) = "done"
               THEN \/ Promise!Possible(q) /\ Promise!Change(q)
                    \/ Promise!Granted(q) /\ UNCHANGED <<databases, Entries>>
               ELSE Promise!Declined(q) /\ UNCHANGED <<databases, Entries>>
    PROVE  PathInv' /\ Promise!Execute(r)
<1> DEFINE q == handler[r].req
           order == [s \in Slots |-> handler[s].req]
           fate == [s \in Slots |-> Fate(s)]
           told == [s \in Slots |-> Told(s)]
<1>1. call \in [Slots -> Calls] /\ Typed(r) /\ Follows(r) BY DEF IInv, Undisturbed
<1>2. /\ handler' = handler /\ \A s \in Slots \ {r} : call'[s] = call[s]
      /\ call'[r] = IF handler[r].pc = "call" THEN result ELSE "none"
      BY <1>1 DEF Returns
<1>3. \A s \in Slots : call'[s] = "sent" => call[s] = "sent" BY <1>2
<1>4. PathInv' BY <1>2, <1>3, OthersArePlaced DEF PathInv
<1>5. order' = order BY <1>2
<1>6. \A s \in Slots : Told(s)' = Told(s) BY <1>2 DEF Told, Succeeded
<1>7. told' = told BY <1>6
<1>8. Fate(r) = "due" /\ (Told(r) = "nothing" <=> handler[r].pc = "call")
  <2>1. handler[r].pc \in {"call", "done", "gone"} BY <1>1 DEF Typed, Follows, Running
  <2> QED BY <2>1 DEF Fate, Told, Running
<1>9. Fate(r)' = IF Told(r) = "nothing" THEN Result(result) ELSE "none"
      BY <1>2, <1>8 DEF Fate, Result
<1>10. \A s \in Slots \ {r} : Fate(s)' = Fate(s) BY <1>2 DEF Fate
<1>11. fate' = [fate EXCEPT ![r] = IF told[r] = "nothing" THEN Result(result) ELSE "none"]
       BY <1>9, <1>10
<1>12. fate[r] = "due" /\ order[r] = q BY <1>8
<1>13. Result(result) \in {"done", "declined"} BY DEF Result
<1> HIDE DEF fate, order, told
<1>14. Promise!Execute(r)
       BY <1>5, <1>7, <1>11, <1>12, <1>13
       DEF Promise!Execute, Promise!catalogue, fate, order, told
<1> QED BY <1>4, <1>14

\* A call that leaves the tables alone executes by its result and the databases.
LEMMA NothingChanges ==
    ASSUME IInv, PathInv, NEW r \in Slots, call[r] = "sent", UNCHANGED tables,
           NEW result \in {"ok", "refused", "unpartitioned"}, Returns(r, result),
           LET q == handler[r].req
           IN  IF Result(result) = "done"
               THEN \/ Promise!Possible(q) /\ Promise!Change(q)
                    \/ Promise!Granted(q) /\ UNCHANGED databases
               ELSE Promise!Declined(q) /\ UNCHANGED databases
    PROVE  PathInv' /\ Promise!Execute(r)
<1>1. Entries' = Entries /\ PathsStay /\ Apart' BY SameTables DEF SamePath, PathInv
<1> HIDE DEF Promise!Change
<1> QED BY <1>1, Executed

\* create_database, as Fluss executes it, is the effect of its order.
LEMMA CreateDatabaseIs ==
    ASSUME IInv, PathInv, NEW r \in Slots, CreateDatabase(r)
    PROVE  PathInv' /\ Promise!Execute(r)
<1> DEFINE q == handler[r].req
<1>1. call[r] = "sent" /\ q.op = "create_database" BY DEF CreateDatabase, Sent
<1>2. CASE q.database_name \in databases
  <2>1. UNCHANGED catalogue
        /\ Returns(r, IF q.ignore_if_exists THEN "ok" ELSE "refused")
        BY <1>2 DEF CreateDatabase, Unchanging
  <2>2. CASE q.ignore_if_exists
    <3>1. Promise!Granted(q) BY <1>1, <1>2, <2>2 DEF Promise!Granted
    <3> QED BY <1>1, <2>1, <2>2, <3>1, NothingChanges DEF Result, catalogue
  <2>3. CASE ~q.ignore_if_exists
    <3>1. Promise!Declined(q)
          BY <1>1, <1>2, <2>3 DEF Promise!Granted, Promise!Possible, Promise!Declined
    <3> QED BY <1>1, <2>1, <2>3, <3>1, NothingChanges DEF Result, catalogue
  <2> QED BY <2>2, <2>3
<1>3. CASE q.database_name \notin databases
  <2>1. /\ databases' = databases \cup {q.database_name} /\ Returns(r, "ok")
        /\ UNCHANGED tables
        BY <1>3 DEF CreateDatabase
  <2>2. Promise!Possible(q) BY <1>1, <1>3 DEF Promise!Possible
  <2>3. Entries' = Entries BY <2>1, SameTables DEF SamePath
  <2>4. Promise!Change(q) BY <1>1, <2>1, <2>3 DEF Promise!Change
  <2> QED BY <1>1, <2>1, <2>2, <2>4, NothingChanges DEF Result
<1> QED BY <1>2, <1>3

\* drop_database is: with cascade it takes all tables of the database at once.
LEMMA DropDatabaseIs ==
    ASSUME IInv, PathInv, NEW r \in Slots, DropDatabase(r)
    PROVE  PathInv' /\ Promise!Execute(r)
<1> DEFINE q == handler[r].req
<1>1. call[r] = "sent" /\ q.op = "drop_database" BY DEF DropDatabase, Sent
<1>2. Promise!TablesOf(q.db) = {} <=> TablesOf(q.db) = {} BY TargetIsThere
<1>3. CASE q.db \notin databases
  <2>1. UNCHANGED catalogue
        /\ Returns(r, IF q.ignore_if_not_exists THEN "ok" ELSE "refused")
        BY <1>3 DEF DropDatabase, Unchanging, DropFlags
  <2>2. CASE q.ignore_if_not_exists
    <3>1. Promise!Granted(q) BY <1>1, <1>3, <2>2 DEF Promise!Granted
    <3> QED BY <1>1, <2>1, <2>2, <3>1, NothingChanges DEF Result, catalogue
  <2>3. CASE ~q.ignore_if_not_exists
    <3>1. Promise!Declined(q)
          BY <1>1, <1>3, <2>3 DEF Promise!Granted, Promise!Possible, Promise!Declined
    <3> QED BY <1>1, <2>1, <2>3, <3>1, NothingChanges DEF Result, catalogue
  <2> QED BY <2>2, <2>3
<1>4. CASE q.db \in databases /\ TablesOf(q.db) # {} /\ ~q.cascade
  <2>1. UNCHANGED catalogue /\ Returns(r, "refused")
        BY <1>4 DEF DropDatabase, Unchanging, DropFlags
  <2>2. Promise!Declined(q)
        BY <1>1, <1>2, <1>4 DEF Promise!Granted, Promise!Possible, Promise!Declined
  <2> QED BY <1>1, <2>1, <2>2, NothingChanges DEF Result, catalogue
<1>5. CASE q.db \in databases /\ ~(TablesOf(q.db) # {} /\ ~q.cascade)
  <2>1. /\ databases' = databases \ {q.db} /\ tables' = Without(TablesOf(q.db))
        /\ Returns(r, "ok")
        BY <1>5 DEF DropDatabase, DropFlags
  <2>2. Promise!Possible(q) BY <1>1, <1>2, <1>5 DEF Promise!Possible
  <2>3. PathsStay /\ Apart' BY <2>1, TablesDropped DEF IInv, PathInv
  <2>4. \A id \in DOMAIN tables : tables[id].live =>
           (id \in TablesOf(q.db) <=> Entry(tables[id]) \in Promise!TablesOf(q.db))
    <3>1. \A id \in DOMAIN tables : tables[id].live => Entry(tables[id]) \in Entries
          BY DEF Entries
    <3>2. \A id \in DOMAIN tables : Entry(tables[id]).db = tables[id].db BY DEF Entry
    <3> QED BY <3>1, <3>2 DEF TablesOf, Promise!TablesOf
  <2>5. Entries' = Entries \ Promise!TablesOf(q.db) BY <2>1, <2>4, EntriesDropped DEF IInv
  <2>6. Promise!Change(q) BY <1>1, <2>1, <2>5 DEF Promise!Change
  <2> QED BY <1>1, <2>1, <2>2, <2>3, <2>6, Executed DEF Result
<1> QED BY <1>3, <1>4, <1>5

\* create_table is: it makes a table only at a free path of a database.
LEMMA CreateTableIs ==
    ASSUME IInv, PathInv, NEW r \in Slots, CreateTable(r)
    PROVE  PathInv' /\ Promise!Execute(r)
<1> DEFINE q == handler[r].req
<1>1. call[r] = "sent" /\ q.op = "create_table" BY DEF CreateTable, Sent
<1>2. Promise!Target(q) = {} <=> LiveAt(q.db, q.table) = {} BY TargetIsThere
<1>3. CASE q.db \notin databases
  <2>1. UNCHANGED catalogue /\ Returns(r, "refused")
        BY <1>3 DEF CreateTable, Unchanging
  <2>2. Promise!Declined(q)
        BY <1>1, <1>3 DEF Promise!Granted, Promise!Possible, Promise!Declined
  <2> QED BY <1>1, <2>1, <2>2, NothingChanges DEF Result, catalogue
<1>4. CASE q.db \in databases /\ LiveAt(q.db, q.table) # {}
  <2>1. UNCHANGED catalogue
        /\ Returns(r, IF q.ignore_if_exists THEN "ok" ELSE "refused")
        BY <1>4 DEF CreateTable, Unchanging
  <2>2. CASE q.ignore_if_exists
    <3>1. Promise!Granted(q) BY <1>1, <1>2, <1>4, <2>2 DEF Promise!Granted
    <3> QED BY <1>1, <2>1, <2>2, <3>1, NothingChanges DEF Result, catalogue
  <2>3. CASE ~q.ignore_if_exists
    <3>1. Promise!Declined(q)
          BY <1>1, <1>2, <1>4, <2>3 DEF Promise!Granted, Promise!Possible, Promise!Declined
    <3> QED BY <1>1, <2>1, <2>3, <3>1, NothingChanges DEF Result, catalogue
  <2> QED BY <2>2, <2>3
<1>5. CASE q.db \in databases /\ LiveAt(q.db, q.table) = {}
  <2> DEFINE t == Table(q.db, q.table, Columns(q), q.primary_key, q.bucket_count, {r})
  <2>1. tables' = Append(tables, t) /\ Returns(r, "ok") /\ UNCHANGED databases
        BY <1>5 DEF CreateTable
  <2>2. /\ t.live /\ t.db = q.db /\ t.name = q.table
        /\ t.columns = Columns(q) /\ t.pk = q.primary_key
        BY DEF Table
  <2> HIDE DEF t
  <2>3. /\ PathsStay /\ Apart' /\ Entries' = Entries \cup {Entry(t)}
        BY <1>5, <2>1, <2>2, TableAdded DEF IInv, PathInv
  <2>4. Promise!Possible(q) BY <1>1, <1>2, <1>5 DEF Promise!Possible
  <2>5. q \in Creations
        BY <1>1 DEF Creations, IInv, Undisturbed, Typed, Follows
  <2>6. Entry(t) = [db |-> q.db, name |-> q.table,
                    schema |-> [c \in Creations |-> Schema(Columns(c), c.primary_key)][q]]
        BY <2>2, <2>5 DEF Entry
  <2>7. Promise!Change(q) BY <1>1, <2>1, <2>3, <2>6 DEF Promise!Change
  <2> QED BY <1>1, <2>1, <2>3, <2>4, <2>7, Executed DEF Result
<1> QED BY <1>3, <1>4, <1>5

\* drop_table is: it takes away the table that is at the path by then.
LEMMA DropTableIs ==
    ASSUME IInv, PathInv, NEW r \in Slots, DropTable(r)
    PROVE  PathInv' /\ Promise!Execute(r)
<1> DEFINE q == handler[r].req
<1>1. call[r] = "sent" /\ q.op = "drop_table" BY DEF DropTable, Sent
<1>2. (Promise!Target(q) = {} <=> Found(r) = {}) BY TargetIsThere DEF Found
<1>3. CASE Found(r) = {}
  <2>1. UNCHANGED catalogue
        /\ Returns(r, IF q.ignore_if_not_exists THEN "ok" ELSE "refused")
        BY <1>3 DEF DropTable, Unchanging
  <2>2. CASE q.ignore_if_not_exists
    <3>1. Promise!Granted(q) BY <1>1, <1>2, <1>3, <2>2 DEF Promise!Granted
    <3> QED BY <1>1, <2>1, <2>2, <3>1, NothingChanges DEF Result, catalogue
  <2>3. CASE ~q.ignore_if_not_exists
    <3>1. Promise!Declined(q)
          BY <1>1, <1>2, <1>3, <2>3 DEF Promise!Granted, Promise!Possible, Promise!Declined
    <3> QED BY <1>1, <2>1, <2>3, <3>1, NothingChanges DEF Result, catalogue
  <2> QED BY <2>2, <2>3
<1>4. CASE Found(r) # {}
  <2>1. tables' = Without(Found(r)) /\ Returns(r, "ok") /\ UNCHANGED databases
        BY <1>4 DEF DropTable
  <2>2. Promise!Possible(q) BY <1>1, <1>2, <1>4 DEF Promise!Possible
  <2>3. PathsStay /\ Apart' BY <2>1, TablesDropped DEF IInv, PathInv
  <2>4. \A id \in DOMAIN tables : tables[id].live =>
           (id \in Found(r) <=> Entry(tables[id]) \in Promise!Target(q))
    <3>1. \A id \in DOMAIN tables : tables[id].live => Entry(tables[id]) \in Entries
          BY DEF Entries
    <3>2. \A id \in DOMAIN tables : /\ Entry(tables[id]).db = tables[id].db
                                    /\ Entry(tables[id]).name = tables[id].name
          BY DEF Entry
    <3> QED BY <3>1, <3>2 DEF Found, LiveAt, Promise!Target, Promise!TablesOf
  <2>5. Entries' = Entries \ Promise!Target(q) BY <2>1, <2>4, EntriesDropped DEF IInv
  <2>6. Promise!Change(q) BY <1>1, <2>1, <2>5 DEF Promise!Change
  <2> QED BY <1>1, <2>1, <2>2, <2>3, <2>6, Executed DEF Result
<1> QED BY <1>3, <1>4

\* The calls that leave the tables where they are.
LEMMA ListIs ==
    ASSUME IInv, PathInv, NEW r \in Slots,
           ListDatabases(r) \/ ListTables(r) \/ ListOffsets(r) \/ ListPartitions(r)
    PROVE  PathInv' /\ Promise!Execute(r)
<1> DEFINE q == handler[r].req
<1>1. call[r] = "sent" /\ UNCHANGED catalogue
      /\ q.op \in {"list_databases", "list_tables", "list_offsets", "list_partitions"}
      BY DEF ListDatabases, ListTables, ListOffsets, ListPartitions, Sent, Unchanging
<1>2. Promise!Target(q) = {} <=> Found(r) = {} BY TargetIsThere DEF Found
<1>3. PICK result \in {"ok", "refused", "unpartitioned"} :
         /\ Returns(r, result)
         /\ q.op = "list_databases" => result = "ok"
         /\ q.op = "list_tables" => (result = "ok" /\ q.db \in databases)
                                    \/ (result = "refused" /\ q.db \notin databases)
         /\ q.op \in {"list_offsets", "list_partitions"} /\ result # "refused" => Found(r) # {}
         /\ q.op = "list_partitions" /\ result = "refused" => Found(r) = {}
  <2>1. CASE ListDatabases(r) BY <2>1 DEF ListDatabases, Sent, Unchanging
  <2>2. CASE ListTables(r) BY <2>2 DEF ListTables, Sent, Unchanging
  <2>3. CASE ListOffsets(r) BY <2>3 DEF ListOffsets, Sent, Unchanging
  <2>4. CASE ListPartitions(r) BY <2>4 DEF ListPartitions, Sent
  <2> QED BY <2>1, <2>2, <2>3, <2>4
<1>4. CASE result = "refused"
  <2>1. Promise!Declined(q)
        BY <1>1, <1>2, <1>3, <1>4 DEF Promise!Declined, Promise!Granted, Promise!Possible
  <2> QED BY <1>1, <1>3, <1>4, <2>1, NothingChanges DEF Result, catalogue
<1>5. CASE result # "refused"
  <2>1. Promise!Granted(q) BY <1>1, <1>2, <1>3, <1>5 DEF Promise!Granted
  <2> QED BY <1>1, <1>3, <1>5, <2>1, NothingChanges DEF Result, catalogue
<1> QED BY <1>4, <1>5

\* A write goes to the table that is still at the path of the request, or is declined.
LEMMA WriteIs ==
    ASSUME IInv, PathInv, NEW r \in Slots, Write(r)
    PROVE  PathInv' /\ Promise!Execute(r)
<1> DEFINE h == handler[r]
           q == h.req
<1>1. call[r] = "sent" /\ q.op = "produce" BY DEF Write, Sent
<1>2. h.table \in DOMAIN tables /\ tables[h.table].db = q.db /\ tables[h.table].name = q.table
      BY <1>1 DEF PathInv, Placed
<1>3. CASE ~tables[h.table].live
  <2>1. UNCHANGED catalogue /\ Returns(r, "refused") BY <1>3 DEF Write, Unchanging
  <2>2. Promise!Declined(q) BY <1>1 DEF Promise!Declined
  <2> QED BY <1>1, <2>1, <2>2, NothingChanges DEF Result, catalogue
<1>4. CASE tables[h.table].live
  <2>1. PICK log : tables' = [tables EXCEPT ![h.table].log = log] BY <1>4 DEF Write
  <2>2. Returns(r, "ok") /\ UNCHANGED databases BY <1>4 DEF Write
  <2>3. LiveAt(q.db, q.table) # {} BY <1>2, <1>4 DEF LiveAt
  <2>4. Promise!Target(q) # {} BY <2>3, TargetIsThere
  <2>5. Promise!Granted(q) BY <1>1, <2>4 DEF Promise!Granted
  <2>6. \A id \in DOMAIN tables :
           DOMAIN tables[id] = {"db", "name", "columns", "pk", "by", "live", "log"}
        BY DEF IInv, Catalogue, IsTable
  <2>7. /\ DOMAIN tables' = DOMAIN tables
        /\ \A id \in DOMAIN tables :
              /\ tables'[id].live = tables[id].live /\ SamePath(tables'[id], tables[id])
              /\ tables'[id].columns = tables[id].columns /\ tables'[id].pk = tables[id].pk
        BY <1>2, <2>1, <2>6 DEF SamePath
  <2>8. Entries' = Entries /\ PathsStay /\ Apart' BY <2>7, SameTables DEF PathInv
  <2> QED BY <1>1, <2>2, <2>5, <2>8, Executed DEF Result
<1> QED BY <1>3, <1>4

(***************************************************************************)
(* Steps of handlers: each serves the request of its slot.                 *)
(***************************************************************************)

\* What a handler does before it answers is nothing to its client, but for the call.
LEMMA Serving ==
    ASSUME NEW r \in Slots, NEW q \in Requests[r], UNCHANGED catalogue,
           \A s \in Slots \ {r} : handler'[s] = handler[s] /\ call'[s] = call[s],
           handler[r].req \in {Idle.req, q}, handler'[r].req = q, Told(r) = "nothing",
           \/ /\ q.op \notin Promise!Reading /\ Fate(r) = "none" /\ Fate(r)' = "due"
              /\ Told(r)' = Told(r)
           \/ /\ Told(r)' \in {"yes", "no", "unknown"}
              /\ Told(r)' = "yes" => \/ Fate(r) = "done"
                                     \/ /\ q.op \in Promise!Reading
                                        /\ Promise!AsksForNothing(q) \/ Promise!Target(q) # {}
              /\ Told(r)' = "no" => Fate(r) = "none"
              /\ Fate(r)' = IF Fate(r) = "due" THEN "due" ELSE "none"
           \/ Fate(r)' = Fate(r) /\ Told(r)' = Told(r)
    PROVE  \E c \in Slots : \E d \in Requests[c] : Promise!Serve(c, d)
<1> DEFINE order == [s \in Slots |-> handler[s].req]
           fate == [s \in Slots |-> Fate(s)]
           told == [s \in Slots |-> Told(s)]
<1>1. ASSUME NEW s \in Slots \ {r} PROVE Fate(s)' = Fate(s) /\ Told(s)' = Told(s)
  <2>1. handler'[s] = handler[s] /\ call'[s] = call[s] BY <1>1
  <2>2. Fate(s)' = Fate(s) BY <2>1 DEF Fate
  <2>3. Succeeded(s)' = Succeeded(s) BY <2>1 DEF Succeeded
  <2>4. Told(s)' = Told(s) BY <2>1, <2>3, ZenonT(30) DEF Told
  <2> QED BY <2>2, <2>4
<1>2. order' = [order EXCEPT ![r] = q] /\ order[r] \in {Promise!None, q}
      BY DEF Promise!None, Idle
<1>3. fate' = [fate EXCEPT ![r] = Fate(r)'] /\ fate[r] = Fate(r) BY <1>1
<1>4. told' = [told EXCEPT ![r] = Told(r)'] /\ told[r] = Told(r) BY <1>1
<1>5. Entries' = Entries BY DEF Entries, catalogue
<1> HIDE DEF order, fate, told
<1>6. CASE q.op \notin Promise!Reading /\ Fate(r) = "none" /\ Fate(r)' = "due"
           /\ Told(r)' = Told(r)
  <2>1. told' = told BY <1>1, <1>6 DEF told
  <2>2. Promise!Call(r, q) BY <1>3, <1>6, <2>1 DEF Promise!Call, fate, told
  <2> QED BY <1>2, <1>4, <1>5, <2>2
          DEF Promise!Serve, Promise!catalogue, catalogue, order, told
<1>7. CASE /\ Told(r)' \in {"yes", "no", "unknown"}
           /\ Told(r)' = "yes" => \/ Fate(r) = "done"
                                  \/ /\ q.op \in Promise!Reading
                                     /\ Promise!AsksForNothing(q) \/ Promise!Target(q) # {}
           /\ Told(r)' = "no" => Fate(r) = "none"
           /\ Fate(r)' = IF Fate(r) = "due" THEN "due" ELSE "none"
  <2>1. Promise!Tell(r, q) BY <1>3, <1>4, <1>7 DEF Promise!Tell, fate, told
  <2> QED BY <1>2, <1>4, <1>5, <2>1
          DEF Promise!Serve, Promise!catalogue, catalogue, order, told
<1>8. CASE Fate(r)' = Fate(r) /\ Told(r)' = Told(r)
  <2>1. fate' = fate /\ told' = told BY <1>1, <1>8 DEF fate, told
  <2> QED BY <1>2, <1>4, <1>5, <2>1
          DEF Promise!Serve, Promise!catalogue, catalogue, order, told, fate
<1> QED BY <1>6, <1>7, <1>8

\* A handler at work has been asked, and has said nothing yet.
LEMMA AtWork ==
    ASSUME IInv, NEW r \in Slots, handler[r].pc \in Running
    PROVE  /\ handler[r].req \in Requests[r] /\ Told(r) = "nothing"
           /\ handler[r].pc # "call" => call[r] = "none" /\ Fate(r) = "none"
           /\ handler[r].pc = "call" /\ call[r] # "sent" =>
                 Fate(r) = IF call[r] = "refused" THEN "declined" ELSE "done"
           /\ call[r] = "sent" <=> Fate(r) = "due"
<1>1. Typed(r) /\ Follows(r) BY DEF IInv, Undisturbed
<1> QED BY <1>1 DEF Typed, Follows, Told, Fate, Running

\* It answers with a success only what has been done, or what it has looked up and is
\* there, and blames only a request that makes no call.
LEMMA Answering ==
    ASSUME IInv, NEW r \in Slots, handler[r].pc \in Running, UNCHANGED catalogue,
           NEW answer, Reply(r, answer),
           answer.status \in {200, 201, 204} =>
              \/ Fate(r) = "done"
              \/ /\ handler[r].req.op \in Promise!Reading
                 /\ Promise!Target(handler[r].req) # {},
           answer.status \in 400..499 => Fate(r) = "none"
    PROVE  \E c \in Slots : \E d \in Requests[c] : Promise!Serve(c, d)
<1> DEFINE new == [pc |-> "done", answer |-> answer]
<1>1. DOMAIN new = {"pc", "answer"} /\ new["pc"] = "done" /\ new["answer"] = answer
      /\ Ends(r, new)
      BY DEF Reply
<1> HIDE DEF new
<1>2. /\ \A s \in Slots \ {r} : handler'[s] = handler[s] /\ call'[s] = call[s]
      /\ handler'[r].req = handler[r].req
      /\ call'[r] = IF call[r] = "sent" THEN "sent" ELSE "none"
      /\ handler'[r].pc = "done" /\ handler'[r].answer = answer
      BY <1>1, EndsAs
<1>3. Told(r)' = IF answer.status \in {200, 201, 204} THEN "yes"
                 ELSE IF answer.status \in 400..499 THEN "no" ELSE "unknown"
      BY <1>2 DEF Told, Succeeded, Running
<1>4. Fate(r)' = IF Fate(r) = "due" THEN "due" ELSE "none" BY <1>2, AtWork DEF Fate
<1> QED BY <1>2, <1>3, <1>4, AtWork, Serving

\* An error that blames the request comes before any call is made.
LEMMA Failing ==
    ASSUME IInv, NEW r \in Slots, handler[r].pc \in Running, UNCHANGED catalogue,
           NEW e \in {"BadRequest", "InvalidOperation", "FlussError"}, Fail(r, e),
           e # "FlussError" => handler[r].pc # "call"
    PROVE  \E c \in Slots : \E d \in Requests[c] : Promise!Serve(c, d)
<1> DEFINE answer == IntoResponse(e)
<1>1. answer.status = StatusCode[e] BY DEF IntoResponse
<1>2. /\ answer.status \notin {200, 201, 204}
      /\ answer.status \in 400..499 => e # "FlussError"
      BY <1>1 DEF StatusCode
<1>3. Reply(r, answer) BY DEF Fail
<1> HIDE DEF answer
<1>4. answer.status \in 400..499 => Fate(r) = "none" BY <1>2, AtWork
<1> QED BY <1>2, <1>3, <1>4, Answering

\* It goes on.
LEMMA GoingOn ==
    ASSUME IInv, NEW r \in Slots, handler[r].pc \in Running, UNCHANGED catalogue,
           NEW new, Goes(r, new), {"req", "answer"} \cap DOMAIN new = {},
           "pc" \in DOMAIN new, new["pc"] \in Running,
           \/ call' = call /\ handler[r].pc # "call" /\ new["pc"] # "call"
           \/ /\ call' = [call EXCEPT ![r] = "sent"] /\ handler[r].pc # "call"
              /\ handler[r].req.op \notin Promise!Reading
    PROVE  \E c \in Slots : \E d \in Requests[c] : Promise!Serve(c, d)
<1>1. /\ \A s \in Slots \ {r} : handler'[s] = handler[s]
      /\ handler'[r].req = handler[r].req /\ handler'[r].pc = new["pc"]
      BY Went DEF Fields
<1>2. call \in [Slots -> Calls] BY DEF IInv
<1>3. Told(r)' = Told(r) BY <1>1, AtWork DEF Told, Running
<1>4. CASE call' = call /\ handler[r].pc # "call" /\ new["pc"] # "call"
  <2>1. Fate(r)' = Fate(r) BY <1>1, <1>4, AtWork DEF Fate
  <2> QED BY <1>1, <1>3, <1>4, <2>1, AtWork, Serving
<1>5. CASE /\ call' = [call EXCEPT ![r] = "sent"] /\ handler[r].pc # "call"
           /\ handler[r].req.op \notin Promise!Reading
  <2>1. Fate(r)' = "due" /\ \A s \in Slots \ {r} : call'[s] = call[s]
        BY <1>2, <1>5 DEF Fate
  <2> QED BY <1>1, <1>3, <1>5, <2>1, AtWork, Serving
<1> QED BY <1>4, <1>5

\* A lookup or a scan succeeds: the table it has found is there, and at its path.
LEMMA Finishing ==
    ASSUME IInv, PathInv, NEW r \in Slots, handler[r].pc \in {"read", "poll"},
           UNCHANGED <<catalogue, call>>, tables[handler[r].table].live,
           handler[r].req.op \in Promise!Reading,
           NEW new, Goes(r, new), {"pc", "answer"} \subseteq DOMAIN new, "req" \notin DOMAIN new,
           new["pc"] = "done", new["answer"] = Success(200)
    PROVE  \E c \in Slots : \E d \in Requests[c] : Promise!Serve(c, d)
<1> DEFINE h == handler[r]
<1>1. /\ \A s \in Slots \ {r} : handler'[s] = handler[s]
      /\ handler'[r].req = h.req /\ handler'[r].pc = "done"
      /\ handler'[r].answer = Success(200)
      BY Went DEF Fields
<1>2. h.pc \in Running /\ h.pc # "call" BY DEF Running
<1>3. call[r] = "none" /\ Fate(r) = "none" BY <1>2, AtWork
<1>4. Told(r)' = "yes" BY <1>1 DEF Told, Succeeded, Success, Running
<1>5. Fate(r)' = "none" BY <1>1, <1>3 DEF Fate
<1>6. h.table \in LiveAt(h.req.db, h.req.table) BY DEF PathInv, Placed, LiveAt
<1>7. Promise!Target(h.req) # {} BY <1>6, TargetIsThere
<1> QED BY <1>1, <1>2, <1>3, <1>4, <1>5, <1>7, AtWork, Serving

\* A request that arrives is an order given, and answered or called at once.
LEMMA ReceiveServes ==
    ASSUME IInv, NEW r \in Slots, NEW q \in Requests[r], Receive(r, q)
    PROVE  \E c \in Slots : \E d \in Requests[c] : Promise!Serve(c, d)
<1>1. handler[r] = Idle /\ call[r] = "none" /\ call \in [Slots -> Calls]
      BY DEF IInv, Undisturbed, Follows, Receive
<1>2. /\ handler[r].req = Idle.req /\ handler[r].pc = "new" /\ handler[r].answer = NoAnswer
      /\ Told(r) = "nothing" /\ Fate(r) = "none"
      BY <1>1 DEF Told, Fate, Idle, Running
<1>3. UNCHANGED catalogue BY DEF Receive
<1>4. ASSUME NEW answer, call' = call,
             Goes(r, [req |-> q, pc |-> "done", answer |-> answer]),
             answer.status \in {200, 201, 204} =>
                q.op \in Promise!Reading /\ Promise!AsksForNothing(q)
      PROVE  \E c \in Slots : \E d \in Requests[c] : Promise!Serve(c, d)
  <2> DEFINE new == [req |-> q, pc |-> "done", answer |-> answer]
  <2>1. /\ DOMAIN new = {"req", "pc", "answer"} /\ Goes(r, new)
        /\ new["req"] = q /\ new["pc"] = "done" /\ new["answer"] = answer
        BY <1>4
  <2> HIDE DEF new
  <2>2. /\ \A s \in Slots \ {r} : handler'[s] = handler[s]
        /\ handler'[r].req = q /\ handler'[r].pc = "done" /\ handler'[r].answer = answer
        BY <2>1, Went DEF Fields
  <2>3. Told(r)' = IF answer.status \in {200, 201, 204} THEN "yes"
                   ELSE IF answer.status \in 400..499 THEN "no" ELSE "unknown"
        BY <2>2 DEF Told, Succeeded, Running
  <2>4. Fate(r)' = "none" BY <1>1, <1>4, <2>2 DEF Fate
  <2> QED BY <1>2, <1>3, <1>4, <2>2, <2>3, <2>4, Serving
<1>5. CASE \E e \in Objection(q) :
              Goes(r, [req |-> q, pc |-> "done", answer |-> IntoResponse(e)]) /\ call' = call
  <2>1. PICK e \in Objection(q) :
           Goes(r, [req |-> q, pc |-> "done", answer |-> IntoResponse(e)]) /\ call' = call
        BY <1>5
  <2>2. e \in {"BadRequest", "FlussError", "Internal"}
        BY DEF Objection, ObjectionToTable, ObjectionToOffsets
  <2>3. IntoResponse(e).status \notin {200, 201, 204}
        BY <2>2 DEF IntoResponse, StatusCode
  <2> QED BY <1>4, <2>1, <2>3
<1>6. CASE /\ q.op \in Reads /\ q.keys = <<>> /\ call' = call
           /\ Goes(r, [req |-> q, pc |-> "done", answer |-> Success(200)])
  <2>1. q \in LookupRequests
        BY <1>6, RequestOf DEF Reads, AnyRequest, DatabaseRequests, CreateTableRequests,
           TableRequests, ScanParams, ListOffsetsRequests, ProduceRequests
  <2>2. Promise!AsksForNothing(q) BY <1>6, <2>1 DEF Promise!AsksForNothing, LookupRequests
  <2> QED BY <1>4, <1>6, <2>2 DEF Promise!Reading, Reads
<1>7. CASE Goes(r, [req |-> q, pc |-> "table"]) /\ call' = call
  <2> DEFINE new == [req |-> q, pc |-> "table"]
  <2>1. DOMAIN new = {"req", "pc"} /\ new["req"] = q /\ new["pc"] = "table" /\ Goes(r, new)
        BY <1>7
  <2> HIDE DEF new
  <2>2. /\ \A s \in Slots \ {r} : handler'[s] = handler[s]
        /\ handler'[r].req = q /\ handler'[r].pc = "table"
        BY <2>1, Went DEF Fields
  <2>3. Told(r)' = "nothing" /\ Fate(r)' = "none" BY <1>1, <1>7, <2>2 DEF Told, Fate, Running
  <2> QED BY <1>2, <1>3, <1>7, <2>2, <2>3, Serving
<1>8. CASE /\ q.op \notin Served /\ Goes(r, [req |-> q, pc |-> "call"])
           /\ call' = [call EXCEPT ![r] = "sent"]
  <2> DEFINE new == [req |-> q, pc |-> "call"]
  <2>1. DOMAIN new = {"req", "pc"} /\ new["req"] = q /\ new["pc"] = "call" /\ Goes(r, new)
        BY <1>8
  <2> HIDE DEF new
  <2>2. /\ \A s \in Slots \ {r} : handler'[s] = handler[s]
        /\ handler'[r].req = q /\ handler'[r].pc = "call"
        BY <2>1, Went DEF Fields
  <2>3. call'[r] = "sent" /\ \A s \in Slots \ {r} : call'[s] = call[s] BY <1>1, <1>8
  <2>4. Told(r)' = "nothing" /\ Fate(r)' = "due" BY <2>2, <2>3 DEF Told, Fate, Running
  <2>5. q.op \notin Promise!Reading BY <1>8 DEF Served, Promise!Reading
  <2> QED BY <1>2, <1>3, <2>2, <2>3, <2>4, <2>5, Serving
<1> QED BY <1>5, <1>6, <1>7, <1>8 DEF Receive

\* Every other step of a handler goes on serving its order.
LEMMA HandleServes ==
    ASSUME IInv, PathInv, NEW r \in Slots, Handle(r) \/ ClientLeaves(r)
    PROVE  \E c \in Slots : \E d \in Requests[c] : Promise!Serve(c, d)
<1> DEFINE h == handler[r]
<1> USE DEF Running
<1>1. CASE TableInfo(r)
  <2>1. /\ h.pc = "table" /\ h.req.op \in Promise!Reading /\ Found(r) # {}
        /\ Reply(r, Success(200)) /\ UNCHANGED catalogue
        BY <1>1 DEF TableInfo, At, Promise!Reading
  <2>2. Promise!Target(h.req) # {} BY <2>1, TargetIsThere DEF Found
  <2>3. Success(200).status \notin 400..499 BY DEF Success
  <2> QED BY <2>1, <2>2, <2>3, Answering
<1>2. CASE StartLookup(r) \/ StartScan(r) \/ Convert(r)
  <2>1. h.pc = "table" /\ UNCHANGED catalogue
        BY <1>2 DEF StartLookup, StartScan, Convert, At
  <2>2. CASE \E e \in {"BadRequest", "InvalidOperation", "FlussError"} : Fail(r, e)
        BY <2>1, <2>2, Failing
  <2>3. CASE call' = call /\ \E pc \in {"read", "poll", "open"} : \E id, carry :
                Goes(r, [pc |-> pc, table |-> id, carry |-> carry])
    <3>1. PICK pc \in {"read", "poll", "open"} : \E id, carry :
             Goes(r, [pc |-> pc, table |-> id, carry |-> carry])
          BY <2>3
    <3>2. PICK id, carry : Goes(r, [pc |-> pc, table |-> id, carry |-> carry])
          BY <3>1
    <3> DEFINE new == [pc |-> pc, table |-> id, carry |-> carry]
    <3>3. DOMAIN new = {"pc", "table", "carry"} /\ new["pc"] = pc /\ Goes(r, new) BY <3>2
    <3> HIDE DEF new
    <3> QED BY <2>1, <2>3, <3>2, <3>3, GoingOn
  <2>4. CASE StartLookup(r) BY <2>2, <2>3, <2>4 DEF StartLookup
  <2>5. CASE StartScan(r) BY <2>2, <2>3, <2>5 DEF StartScan
  <2>6. CASE Convert(r) BY <2>2, <2>3, <2>6 DEF Convert
  <2> QED BY <1>2, <2>4, <2>5, <2>6
<1>3. CASE Lookup(r)
  <2>1. /\ h.pc = "read" /\ h.req.op \in Promise!Reading /\ tables[h.table].live
        /\ UNCHANGED <<catalogue, call>>
        BY <1>3 DEF Lookup, At, Reads, Promise!Reading
  <2>2. PICK pc, done, out, answer :
           /\ Goes(r, [pc |-> pc, done |-> done, out |-> out, answer |-> answer])
           /\ \/ pc = "done" /\ answer = Success(200)
              \/ pc = "table" /\ answer = NoAnswer
        BY <1>3 DEF Lookup
  <2> DEFINE new == [pc |-> pc, done |-> done, out |-> out, answer |-> answer]
  <2>3. /\ DOMAIN new = {"pc", "done", "out", "answer"} /\ new["pc"] = pc
        /\ new["answer"] = answer /\ Goes(r, new)
        BY <2>2
  <2> HIDE DEF new
  <2>4. CASE pc = "done" /\ answer = Success(200) BY <2>1, <2>3, <2>4, Finishing
  <2>5. CASE pc = "table" /\ answer = NoAnswer
    <3>1. /\ \A s \in Slots \ {r} : handler'[s] = handler[s]
          /\ handler'[r].req = h.req /\ handler'[r].pc = "table"
          BY <2>3, <2>5, Went DEF Fields
    <3>2. call[r] = "none" /\ Fate(r) = "none" BY <2>1, AtWork
    <3>3. Told(r)' = "nothing" /\ Fate(r)' = "none" BY <2>1, <3>1, <3>2 DEF Told, Fate
    <3> QED BY <2>1, <3>1, <3>2, <3>3, AtWork, Serving
  <2> QED BY <2>2, <2>4, <2>5
<1>4. CASE Scan(r)
  <2>1. /\ h.pc = "poll" /\ h.req.op \in Promise!Reading /\ tables[h.table].live
        /\ UNCHANGED <<catalogue, call>>
        BY <1>4 DEF Scan, At, Promise!Reading
  <2>2. PICK out : Goes(r, [pc |-> "done", answer |-> Success(200), out |-> out])
        BY <1>4 DEF Scan
  <2> DEFINE new == [pc |-> "done", answer |-> Success(200), out |-> out]
  <2>3. /\ DOMAIN new = {"pc", "answer", "out"} /\ new["pc"] = "done"
        /\ new["answer"] = Success(200) /\ Goes(r, new)
        BY <2>2
  <2> HIDE DEF new
  <2> QED BY <2>1, <2>3, Finishing
<1>5. CASE OpenWriter(r)
  <2>1. h.pc = "open" /\ h.req.op = "produce" /\ UNCHANGED catalogue
        BY <1>5 DEF OpenWriter, At
  <2>2. CASE \E e \in {"BadRequest", "InvalidOperation", "FlussError"} : Fail(r, e)
        BY <2>1, <2>2, Failing
  <2>3. CASE \E id : Goes(r, [pc |-> "call", table |-> id])
                     /\ call' = [call EXCEPT ![r] = "sent"]
    <3>1. PICK id : Goes(r, [pc |-> "call", table |-> id])
                    /\ call' = [call EXCEPT ![r] = "sent"]
          BY <2>3
    <3> DEFINE new == [pc |-> "call", table |-> id]
    <3>2. DOMAIN new = {"pc", "table"} /\ new["pc"] = "call" /\ Goes(r, new) BY <3>1
    <3> HIDE DEF new
    <3>3. h.req.op \notin Promise!Reading BY <2>1 DEF Promise!Reading
    <3> QED BY <2>1, <3>1, <3>2, <3>3, GoingOn
  <2> QED BY <1>5, <2>2, <2>3 DEF OpenWriter
<1>6. CASE Answer(r)
  <2>1. h.pc = "call" /\ UNCHANGED catalogue BY <1>6 DEF Answer
  <2>2. CASE call[r] \in {"ok", "unpartitioned"} /\ Reply(r, Success(Done(h.req.op)))
    <3>1. Fate(r) = "done" BY <2>1, <2>2, AtWork
    <3>2. Success(Done(h.req.op)).status \notin 400..499 BY DEF Success, Done
    <3> QED BY <2>1, <2>2, <3>1, <3>2, Answering
  <2>3. CASE Fail(r, "FlussError") BY <2>1, <2>3, Failing
  <2> QED BY <1>6, <2>2, <2>3 DEF Answer
<1>7. CASE CallFails(r) BY <1>7, Failing DEF CallFails
<1>8. CASE ClientLeaves(r)
  <2> DEFINE new == [pc |-> "gone"]
  <2>1. /\ DOMAIN new = {"pc"} /\ new["pc"] = "gone" /\ Ends(r, new)
        /\ UNCHANGED catalogue /\ h.pc \in Running
        BY <1>8 DEF ClientLeaves
  <2> HIDE DEF new
  <2>2. /\ \A s \in Slots \ {r} : handler'[s] = handler[s] /\ call'[s] = call[s]
        /\ handler'[r].req = h.req /\ handler'[r].pc = "gone"
        /\ call'[r] = IF call[r] = "sent" THEN "sent" ELSE "none"
        BY <2>1, EndsAs
  <2>3. Told(r)' = "unknown" BY <2>2 DEF Told
  <2>4. Fate(r)' = IF Fate(r) = "due" THEN "due" ELSE "none" BY <2>1, <2>2, AtWork DEF Fate
  <2> QED BY <2>1, <2>2, <2>3, <2>4, AtWork, Serving
<1> QED BY <1>1, <1>2, <1>3, <1>4, <1>5, <1>6, <1>7, <1>8 DEF Handle

(***************************************************************************)
(* The refinement.                                                         *)
(***************************************************************************)

LEMMA InitPathInv == ASSUME Init PROVE PathInv
<1>1. Apart BY InitialAssumption DEF Init, Apart, SamePath
<1>2. ASSUME NEW r \in Slots PROVE Placed(r) BY DEF Init, Placed, Idle
<1> QED BY <1>1, <1>2 DEF PathInv

\* The invariant, said of entries.
LEMMA ConsistentCatalogue == ASSUME IInv, PathInv PROVE Promise!Consistent
<1>1. ASSUME NEW t \in Entries PROVE t.db \in databases
  <2>1. PICK id \in DOMAIN tables : tables[id].live /\ t = Entry(tables[id]) BY DEF Entries
  <2> QED BY <2>1 DEF Entry, IInv, Catalogue
<1>2. ASSUME NEW t \in Entries, NEW u \in Entries, t.db = u.db, t.name = u.name PROVE t = u
  <2>1. PICK i \in DOMAIN tables : tables[i].live /\ t = Entry(tables[i]) BY DEF Entries
  <2>2. PICK j \in DOMAIN tables : tables[j].live /\ u = Entry(tables[j]) BY DEF Entries
  <2>3. SamePath(tables[i], tables[j]) BY <1>2, <2>1, <2>2 DEF Entry, SamePath
  <2> QED BY <2>1, <2>2, <2>3 DEF PathInv, Apart
<1> QED BY <1>1, <1>2 DEF Promise!Consistent

\* The gateway begins with a catalogue that nobody has used.
LEMMA InitImplements == ASSUME Init PROVE Promise!Init
<1>1. Promise!Consistent BY InitIInv, InitPathInv, ConsistentCatalogue
<1>2. \A r \in Slots : handler[r].req = Promise!None /\ Fate(r) = "none" /\ Told(r) = "nothing"
      BY DEF Init, Idle, Fate, Told, Running, Promise!None
<1> QED BY <1>1, <1>2 DEF Promise!Init

\* Each step of the API is one of the promise, or a stutter.
LEMMA StepImplements ==
    ASSUME IInv, PathInv, [Next]_vars
    PROVE  PathInv' /\ [Promise!Next]_(Promise!vars)
<1>1. ASSUME NEW r \in Slots, NEW q \in Requests[r], Receive(r, q)
      PROVE  PathInv' /\ Promise!Next
      BY <1>1, ReceivePlaced, ReceiveServes DEF Promise!Next
<1>2. ASSUME NEW r \in Slots, Handle(r) \/ ClientLeaves(r) PROVE PathInv' /\ Promise!Next
      BY <1>2, HandlePlaced, HandleServes DEF Promise!Next
<1>3. ASSUME NEW r \in Slots, Execute(r) PROVE PathInv' /\ Promise!Next
  <2>1. PathInv' /\ Promise!Execute(r)
        BY <1>3, CreateDatabaseIs, DropDatabaseIs, CreateTableIs, DropTableIs, ListIs, WriteIs
        DEF Execute
  <2> QED BY <2>1 DEF Promise!Next
<1>4. CASE UNCHANGED vars
  <2>1. Entries' = Entries /\ PathInv' BY <1>4 DEF vars, Entries, PathInv, Apart, Placed
  <2>2. \A r \in Slots : Fate(r)' = Fate(r) /\ Told(r)' = Told(r)
        BY <1>4 DEF vars, Fate, Told, Succeeded
  <2>3. UNCHANGED <<databases, handler>> BY <1>4 DEF vars
  <2> QED BY <2>1, <2>2, <2>3 DEF Promise!vars
<1> QED BY <1>1, <1>2, <1>3, <1>4 DEF Next

\* No step leads a request to a table at another path than its own, or puts two
\* tables at one path.
THEOREM PathInvariance == Spec => []PathInv
<1>1. Init => PathInv BY InitPathInv
<1>2. IInv /\ PathInv /\ [Next]_vars => PathInv' BY StepImplements
<1> QED BY <1>1, <1>2, Invariance, PTL DEF Spec

\* For its clients the API is an atomic catalogue, for any requests, tables and rows:
\* whatever handlers give up, fail or leave behind, each request takes effect once at
\* most and as a whole, between its arrival and a success, and never after a 4xx.
THEOREM ApiImplements == Spec => CatalogueIsAtomic
<1>1. Init => Promise!Init BY InitImplements
<1>2. IInv /\ PathInv /\ [Next]_vars => [Promise!Next]_(Promise!vars) BY StepImplements
<1> QED BY <1>1, <1>2, Invariance, PathInvariance, PTL DEF Spec, CatalogueIsAtomic, Promise!Spec

\* No two tables are ever at one path, and none is without its database, however
\* creations, drops and cascades of different clients meet.
THEOREM CatalogueIsConsistent == Spec => []Promise!Consistent
<1>1. IInv /\ PathInv => Promise!Consistent BY ConsistentCatalogue
<1> QED BY <1>1, Invariance, PathInvariance, PTL
=============================================================================
