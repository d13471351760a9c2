----------------------- MODULE LifecycleScriptProofs -----------------------
(***************************************************************************)
(* Proofs of the safety properties of LifecycleScript, for any number of   *)
(* users and of invocations.                                               *)
(***************************************************************************)
EXTENDS LifecycleScript, SequenceTheorems, TLAPS

Conditions == {"running", "draining", "other", "dead"}

(***************************************************************************)
(* The inductive invariant.  NoStrayGateway needs that undisturbed, one    *)
(* user at a time goes through the script and the PID file names the       *)
(* process that it has read there; StopMeansStopped that a process about   *)
(* to be taken out of the PID file has ended, whoever disturbs the script. *)
(***************************************************************************)

\* What a user runs, and where in it the script can be.
FunctionOfCommand ==
    \A u \in Users :
        /\ cmd[u] = "stop" => fn[u] = "stop"
        /\ at[u] \in {"spawn", "record", "health"} => fn[u] = "start"

\* The PID file is removed when the process that was in it is no gateway any more.
RemovesEnded ==
    \A u \in Users :
        at[u] = "remove" \/ (cmd[u] = "stop" /\ at[u] = "ok") => pid[u] \notin Gateways

\* Undisturbed, the script knows all there is to know.
OneAtATime == \A u, v \in Users : Busy(u) /\ Busy(v) => u = v

KnowsPidFile ==
    \A u \in Users :
        /\ at[u] = "read" => pidFile # 0
        /\ at[u] \in {"probe", "term", "wait", "kill", "remove"} => pid[u] = pidFile

KnowsGateways ==
    \A u \in Users :
        /\ at[u] = "spawn" => Gateways = {}
        /\ at[u] = "record" => Gateways \subseteq {pid[u]}

Undisturbed == ~disturbed => OneAtATime /\ KnowsPidFile /\ KnowsGateways

IInv ==
    /\ TypeOK
    /\ FunctionOfCommand
    /\ RemovesEnded
    /\ Undisturbed
    /\ NoStrayGateway

(***************************************************************************)
(* Processes: their conditions change one by one, and no PID that is gone  *)
(* ever comes back as a gateway.                                           *)
(***************************************************************************)

LEMMA SamePids ==
    ASSUME proc \in Seq(Conditions), NEW f \in [Pids -> Conditions]
    PROVE  f \in Seq(Conditions) /\ Len(f) = Len(proc)
<1>1. Len(proc) \in Nat /\ DOMAIN f = 1..Len(proc) BY DEF Pids
<1>2. f \in Seq(Conditions) BY <1>1, SeqDef DEF Pids
<1> QED BY <1>1, <1>2, LenProperties

\* A signal, an end or another program leaves the other processes alone.
LEMMA ProcessChanges ==
    ASSUME TypeOK, NEW q, NEW c \in {"draining", "other", "dead"},
           c = "draining" => q \in Gateways,
           proc' = [p \in Pids |-> IF p = q THEN c ELSE proc[p]]
    PROVE  /\ proc' \in Seq(Conditions) /\ Len(proc') = Len(proc)
           /\ Gateways' \subseteq Gateways
           /\ c # "draining" => q \notin Gateways'
<1>1. proc \in Seq(Conditions) BY DEF TypeOK, Conditions
<1>2. proc' \in [Pids -> Conditions] BY <1>1 DEF Pids, Conditions
<1>3. proc' \in Seq(Conditions) /\ Len(proc') = Len(proc) BY <1>1, <1>2, SamePids
<1>4. Pids' = Pids BY <1>3 DEF Pids
<1> QED BY <1>3, <1>4 DEF Gateways

\* kill -TERM to a gateway or to anything else.
LEMMA GatewayDrains ==
    ASSUME TypeOK, NEW q,
           proc' = [p \in Pids |-> IF p = q /\ p \in Gateways THEN "draining" ELSE proc[p]]
    PROVE  /\ proc' \in Seq(Conditions) /\ Len(proc') = Len(proc)
           /\ Gateways' \subseteq Gateways
<1>1. CASE q \in Gateways
  <2>1. proc' = [p \in Pids |-> IF p = q THEN "draining" ELSE proc[p]] BY <1>1
  <2> QED BY <1>1, <2>1, ProcessChanges
<1>2. CASE q \notin Gateways
  <2>1. proc \in Seq(Conditions) BY DEF TypeOK, Conditions
  <2>2. proc' = [p \in Pids |-> proc[p]] BY <1>2
  <2>3. proc' \in [Pids -> Conditions] BY <2>1, <2>2 DEF Pids, Conditions
  <2>4. proc' \in Seq(Conditions) /\ Len(proc') = Len(proc) BY <2>1, <2>3, SamePids
  <2> QED BY <2>2, <2>4 DEF Gateways, Pids
<1> QED BY <1>1, <1>2

LEMMA ProcessStarts ==
    ASSUME TypeOK, proc' = Append(proc, "running")
    PROVE  /\ proc' \in Seq(Conditions) /\ Len(proc') = Len(proc) + 1
           /\ Gateways' = Gateways \cup {Len(proc) + 1}
<1>1. proc \in Seq(Conditions) /\ "running" \in Conditions BY DEF TypeOK, Conditions
<1>2. /\ proc' \in Seq(Conditions) /\ Len(proc') = Len(proc) + 1
      /\ \A p \in 1..Len(proc) : proc'[p] = proc[p]
      /\ proc'[Len(proc) + 1] = "running"
      BY <1>1, AppendProperties
<1>3. Pids' = Pids \cup {Len(proc) + 1} /\ Len(proc) + 1 \notin Pids BY <1>1, <1>2 DEF Pids
<1> QED BY <1>2, <1>3 DEF Gateways, Pids

(***************************************************************************)
(* The steps of the script                                                 *)
(***************************************************************************)

LEMMA InitIInv == Init => IInv
<1> SUFFICES ASSUME Init PROVE IInv OBVIOUS
<1>1. proc = <<>> /\ Len(proc) = 0 /\ Pids = {} /\ Gateways = {} BY DEF Init, Pids, Gateways
<1>2. TypeOK
  <2>1. proc \in Seq({"running", "draining", "other", "dead"}) BY <1>1
  <2>2. begun \in 0..MaxInvocations BY BoundAssumption DEF Init
  <2>3. pidFile \in 0..Len(proc) /\ pid \in [Users -> 0..Len(proc)] BY <1>1 DEF Init
  <2>4. /\ cmd \in [Users -> {"start", "stop", "restart"}]
        /\ fn \in [Users -> {"start", "stop"}]
        /\ at \in [Users -> Ended \cup Steps]
        /\ disturbed \in BOOLEAN
        BY DEF Init, Ended
  <2> QED BY <2>1, <2>2, <2>3, <2>4 DEF TypeOK
<1>3. FunctionOfCommand /\ RemovesEnded BY <1>1 DEF Init, FunctionOfCommand, RemovesEnded
<1>4. Undisturbed
      BY DEF Init, Undisturbed, OneAtATime, KnowsPidFile, KnowsGateways, Busy, Ended
<1>5. NoStrayGateway BY <1>1 DEF NoStrayGateway
<1> QED BY <1>2, <1>3, <1>4, <1>5 DEF IInv

\* A step of the script is taken by a user who is busy, and undisturbed by the
\* only one: afterwards, it is still the only one.
LEMMA StaysAlone ==
    ASSUME TypeOK, OneAtATime, NEW u \in Users, Busy(u),
           NEW there, at' = [at EXCEPT ![u] = there]
    PROVE  /\ OneAtATime'
           /\ \A v \in Users \ {u} : at[v] \in Ended /\ at'[v] = at[v]
<1>1. \A v \in Users : Busy(v)' => Busy(v) BY DEF TypeOK, Busy
<1> QED BY <1>1 DEF OneAtATime, TypeOK, Busy

\* Without a PID file and undisturbed, no gateway runs: every one would be in it.
LEMMA CheckKeeps ==
    ASSUME IInv, NEW u \in Users, Check(u) PROVE IInv'
<1> USE DEF IInv, Check, Goto
<1>1. Gateways' = Gateways BY DEF Gateways, Pids
<1>2. Busy(u) BY DEF Busy, Ended
<1>3. TypeOK' BY DEF TypeOK, Steps, Ended
<1>4. FunctionOfCommand' BY DEF FunctionOfCommand, TypeOK
<1>5. RemovesEnded' BY <1>1 DEF RemovesEnded, TypeOK
<1>6. ASSUME ~disturbed PROVE OneAtATime' /\ KnowsPidFile' /\ KnowsGateways'
  <2>1. OneAtATime' /\ \A v \in Users \ {u} : at[v] \in Ended /\ at'[v] = at[v]
        BY <1>2, <1>6, StaysAlone DEF Undisturbed
  <2>2. KnowsPidFile' BY <1>6, <2>1 DEF Undisturbed, KnowsPidFile, TypeOK, Ended
  <2>3. KnowsGateways'
    <3>1. ASSUME at'[u] = "spawn" PROVE Gateways = {}
      <4>1. pidFile = 0 BY <3>1 DEF TypeOK
      <4>2. ASSUME NEW p \in Gateways PROVE FALSE
        <5>1. PICK v \in Users : at[v] = "record"
              BY <1>6, <4>1, <4>2 DEF NoStrayGateway, Gateways, Pids
        <5> QED BY <5>1, <2>1 DEF Ended
      <4> QED BY <4>2
    <3> QED BY <1>1, <1>6, <2>1, <3>1 DEF KnowsGateways, TypeOK, Ended
  <2> QED BY <2>1, <2>2, <2>3
<1>7. NoStrayGateway' BY <1>1 DEF NoStrayGateway, TypeOK
<1> QED BY <1>3, <1>4, <1>5, <1>6, <1>7 DEF Undisturbed

\* Undisturbed, the file that Check has found is still there.
LEMMA ReadKeeps ==
    ASSUME IInv, NEW u \in Users, Read(u) PROVE IInv'
<1> USE DEF IInv, Read, Goto
<1>1. Gateways' = Gateways BY DEF Gateways, Pids
<1>2. Busy(u) BY DEF Busy, Ended
<1>3. TypeOK' BY DEF TypeOK, Steps, Ended
<1>4. FunctionOfCommand' BY DEF FunctionOfCommand, TypeOK
<1>5. RemovesEnded' BY <1>1 DEF RemovesEnded, TypeOK
<1>6. ASSUME ~disturbed PROVE OneAtATime' /\ KnowsPidFile' /\ KnowsGateways'
  <2>1. OneAtATime' /\ \A v \in Users \ {u} : at[v] \in Ended /\ at'[v] = at[v]
        BY <1>2, <1>6, StaysAlone DEF Undisturbed
  <2>2. KnowsPidFile' BY <1>6, <2>1 DEF Undisturbed, KnowsPidFile, TypeOK, Ended
  <2>3. KnowsGateways' BY <1>1, <1>6, <2>1 DEF Undisturbed, KnowsGateways, TypeOK, Ended
  <2> QED BY <2>1, <2>2, <2>3
<1>7. NoStrayGateway' BY <1>1 DEF NoStrayGateway, TypeOK
<1> QED BY <1>3, <1>4, <1>5, <1>6, <1>7 DEF Undisturbed

\* A process that is not alive is no gateway.
LEMMA ProbeKeeps ==
    ASSUME IInv, NEW u \in Users, Probe(u) PROVE IInv'
<1> USE DEF IInv, Probe, Goto
<1>1. Gateways' = Gateways BY DEF Gateways, Pids
<1>2. Busy(u) BY DEF Busy, Ended
<1>3. TypeOK' BY DEF TypeOK, Steps, Ended
<1>4. FunctionOfCommand' BY DEF FunctionOfCommand, TypeOK
<1>5. RemovesEnded' BY <1>1 DEF RemovesEnded, TypeOK, IsAlive, Gateways
<1>6. ASSUME ~disturbed PROVE OneAtATime' /\ KnowsPidFile' /\ KnowsGateways'
  <2>1. OneAtATime' /\ \A v \in Users \ {u} : at[v] \in Ended /\ at'[v] = at[v]
        BY <1>2, <1>6, StaysAlone DEF Undisturbed
  <2>2. KnowsPidFile' BY <1>6, <2>1 DEF Undisturbed, KnowsPidFile, TypeOK, Ended
  <2>3. KnowsGateways' BY <1>1, <1>6, <2>1 DEF Undisturbed, KnowsGateways, TypeOK, Ended
  <2> QED BY <2>1, <2>2, <2>3
<1>7. NoStrayGateway' BY <1>1 DEF NoStrayGateway, TypeOK
<1> QED BY <1>3, <1>4, <1>5, <1>6, <1>7 DEF Undisturbed

\* The process is gone, and with it the gateway.
LEMMA WaitKeeps ==
    ASSUME IInv, NEW u \in Users, Wait(u) PROVE IInv'
<1> USE DEF IInv, Wait, Goto
<1>1. Gateways' = Gateways BY DEF Gateways, Pids
<1>2. Busy(u) BY DEF Busy, Ended
<1>3. TypeOK' BY DEF TypeOK, Steps, Ended
<1>4. FunctionOfCommand' BY DEF FunctionOfCommand, TypeOK
<1>5. RemovesEnded' BY <1>1 DEF RemovesEnded, TypeOK, IsAlive, Gateways
<1>6. ASSUME ~disturbed PROVE OneAtATime' /\ KnowsPidFile' /\ KnowsGateways'
  <2>1. OneAtATime' /\ \A v \in Users \ {u} : at[v] \in Ended /\ at'[v] = at[v]
        BY <1>2, <1>6, StaysAlone DEF Undisturbed
  <2>2. KnowsPidFile' BY <1>6, <2>1 DEF Undisturbed, KnowsPidFile, TypeOK, Ended
  <2>3. KnowsGateways' BY <1>1, <1>6, <2>1 DEF Undisturbed, KnowsGateways, TypeOK, Ended
  <2> QED BY <2>1, <2>2, <2>3
<1>7. NoStrayGateway' BY <1>1 DEF NoStrayGateway, TypeOK
<1> QED BY <1>3, <1>4, <1>5, <1>6, <1>7 DEF Undisturbed

LEMMA WaitTimesOutKeeps ==
    ASSUME IInv, NEW u \in Users, WaitTimesOut(u) PROVE IInv'
<1> USE DEF IInv, WaitTimesOut, Goto
<1>1. Gateways' = Gateways BY DEF Gateways, Pids
<1>2. Busy(u) BY DEF Busy, Ended
<1>3. TypeOK' BY DEF TypeOK, Steps, Ended
<1>4. FunctionOfCommand' BY DEF FunctionOfCommand, TypeOK
<1>5. RemovesEnded' BY <1>1 DEF RemovesEnded, TypeOK
<1>6. ASSUME ~disturbed PROVE OneAtATime' /\ KnowsPidFile' /\ KnowsGateways'
  <2>1. OneAtATime' /\ \A v \in Users \ {u} : at[v] \in Ended /\ at'[v] = at[v]
        BY <1>2, <1>6, StaysAlone DEF Undisturbed
  <2>2. KnowsPidFile' BY <1>6, <2>1 DEF Undisturbed, KnowsPidFile, TypeOK, Ended
  <2>3. KnowsGateways' BY <1>1, <1>6, <2>1 DEF Undisturbed, KnowsGateways, TypeOK, Ended
  <2> QED BY <2>1, <2>2, <2>3
<1>7. NoStrayGateway' BY <1>1 DEF NoStrayGateway, TypeOK
<1> QED BY <1>3, <1>4, <1>5, <1>6, <1>7 DEF Undisturbed

LEMMA TermKeeps ==
    ASSUME IInv, NEW u \in Users, Term(u) PROVE IInv'
<1> USE DEF IInv, Term, Goto
<1>1. /\ proc' \in Seq(Conditions) /\ Len(proc') = Len(proc)
      /\ Gateways' \subseteq Gateways
      BY GatewayDrains
<1>2. Busy(u) BY DEF Busy, Ended
<1>3. TypeOK' BY <1>1 DEF TypeOK, Conditions, Steps, Ended
<1>4. FunctionOfCommand' BY DEF FunctionOfCommand, TypeOK
<1>5. RemovesEnded' BY <1>1 DEF RemovesEnded, TypeOK
<1>6. ASSUME ~disturbed PROVE OneAtATime' /\ KnowsPidFile' /\ KnowsGateways'
  <2>1. OneAtATime' /\ \A v \in Users \ {u} : at[v] \in Ended /\ at'[v] = at[v]
        BY <1>2, <1>6, StaysAlone DEF Undisturbed
  <2>2. KnowsPidFile' BY <1>6, <2>1 DEF Undisturbed, KnowsPidFile, TypeOK, Ended
  <2>3. KnowsGateways' BY <1>1, <1>6, <2>1 DEF Undisturbed, KnowsGateways, TypeOK, Ended
  <2> QED BY <2>1, <2>2, <2>3
<1>7. NoStrayGateway' BY <1>1 DEF NoStrayGateway, TypeOK
<1> QED BY <1>3, <1>4, <1>5, <1>6, <1>7 DEF Undisturbed

\* The process has ended, be it a gateway or not.
LEMMA KillKeeps ==
    ASSUME IInv, NEW u \in Users, Kill(u) PROVE IInv'
<1> USE DEF IInv, Kill, Goto
<1>1. /\ proc' \in Seq(Conditions) /\ Len(proc') = Len(proc)
      /\ Gateways' \subseteq Gateways
      /\ pid[u] \notin Gateways'
      BY ProcessChanges
<1>2. Busy(u) BY DEF Busy, Ended
<1>3. TypeOK' BY <1>1 DEF TypeOK, Conditions, Steps, Ended
<1>4. FunctionOfCommand' BY DEF FunctionOfCommand, TypeOK
<1>5. RemovesEnded' BY <1>1 DEF RemovesEnded, TypeOK
<1>6. ASSUME ~disturbed PROVE OneAtATime' /\ KnowsPidFile' /\ KnowsGateways'
  <2>1. OneAtATime' /\ \A v \in Users \ {u} : at[v] \in Ended /\ at'[v] = at[v]
        BY <1>2, <1>6, StaysAlone DEF Undisturbed
  <2>2. KnowsPidFile' BY <1>6, <2>1 DEF Undisturbed, KnowsPidFile, TypeOK, Ended
  <2>3. KnowsGateways' BY <1>1, <1>6, <2>1 DEF Undisturbed, KnowsGateways, TypeOK, Ended
  <2> QED BY <2>1, <2>2, <2>3
<1>7. NoStrayGateway' BY <1>1 DEF NoStrayGateway, TypeOK
<1> QED BY <1>3, <1>4, <1>5, <1>6, <1>7 DEF Undisturbed

\* The file named the only gateway there may be, and that one has ended.
LEMMA RemoveKeeps ==
    ASSUME IInv, NEW u \in Users, Remove(u) PROVE IInv'
<1> USE DEF IInv, Remove, Goto
<1>1. Gateways' = Gateways BY DEF Gateways, Pids
<1>2. Busy(u) BY DEF Busy, Ended
<1>3. TypeOK' BY DEF TypeOK, Steps, Ended
<1>4. FunctionOfCommand' BY DEF FunctionOfCommand, TypeOK
<1>5. RemovesEnded' BY <1>1 DEF RemovesEnded, TypeOK
<1>6. ASSUME ~disturbed PROVE Gateways = {}
  <2>1. pid[u] = pidFile /\ pid[u] \notin Gateways
        BY <1>6 DEF Undisturbed, KnowsPidFile, RemovesEnded
  <2>2. \A v \in Users : at[v] # "record" BY <1>2, <1>6 DEF Undisturbed, OneAtATime, Busy, Ended
  <2> QED BY <1>6, <2>1, <2>2 DEF NoStrayGateway
<1>7. ASSUME ~disturbed PROVE OneAtATime' /\ KnowsPidFile' /\ KnowsGateways'
  <2>1. OneAtATime' /\ \A v \in Users \ {u} : at[v] \in Ended /\ at'[v] = at[v]
        BY <1>2, <1>7, StaysAlone DEF Undisturbed
  <2>2. at'[u] \in {"spawn", "check", "ok"} BY DEF TypeOK
  <2>3. KnowsPidFile' BY <2>1, <2>2 DEF KnowsPidFile, Ended
  <2>4. KnowsGateways' BY <1>1, <1>6, <1>7, <2>1, <2>2 DEF KnowsGateways, Ended
  <2> QED BY <2>1, <2>3, <2>4
<1>8. NoStrayGateway' BY <1>1, <1>6 DEF NoStrayGateway
<1> QED BY <1>3, <1>4, <1>5, <1>7, <1>8 DEF Undisturbed

\* The only gateway is the new one; its PID is nobody else's.
LEMMA SpawnKeeps ==
    ASSUME IInv, NEW u \in Users, Spawn(u) PROVE IInv'
<1> USE DEF IInv, Spawn, Goto
<1>1. /\ proc' \in Seq(Conditions) /\ Len(proc') = Len(proc) + 1
      /\ Gateways' = Gateways \cup {Len(proc) + 1}
      BY ProcessStarts
<1>2. Busy(u) BY DEF Busy, Ended
<1>3. TypeOK' BY <1>1 DEF TypeOK, Conditions, Steps, Ended
<1>4. FunctionOfCommand' BY DEF FunctionOfCommand, TypeOK
<1>5. RemovesEnded' BY <1>1 DEF RemovesEnded, TypeOK
<1>6. ASSUME ~disturbed PROVE OneAtATime' /\ KnowsPidFile' /\ KnowsGateways'
  <2>1. OneAtATime' /\ \A v \in Users \ {u} : at[v] \in Ended /\ at'[v] = at[v]
        BY <1>2, <1>6, StaysAlone DEF Undisturbed
  <2>2. KnowsPidFile' BY <1>6, <2>1 DEF Undisturbed, KnowsPidFile, TypeOK, Ended
  <2>3. KnowsGateways'
        BY <1>1, <1>6, <2>1 DEF Undisturbed, KnowsGateways, TypeOK, Ended
  <2> QED BY <2>1, <2>2, <2>3
<1>7. NoStrayGateway' BY <1>1 DEF NoStrayGateway, Undisturbed, KnowsGateways, TypeOK
<1> QED BY <1>3, <1>4, <1>5, <1>6, <1>7 DEF Undisturbed

LEMMA RecordKeeps ==
    ASSUME IInv, NEW u \in Users, Record(u) PROVE IInv'
<1> USE DEF IInv, Record, Goto
<1>1. Gateways' = Gateways BY DEF Gateways, Pids
<1>2. Busy(u) BY DEF Busy, Ended
<1>3. TypeOK' BY DEF TypeOK, Steps, Ended
<1>4. FunctionOfCommand' BY DEF FunctionOfCommand, TypeOK
<1>5. RemovesEnded' BY <1>1 DEF RemovesEnded, TypeOK
<1>6. ASSUME ~disturbed PROVE OneAtATime' /\ KnowsPidFile' /\ KnowsGateways'
  <2>1. OneAtATime' /\ \A v \in Users \ {u} : at[v] \in Ended /\ at'[v] = at[v]
        BY <1>2, <1>6, StaysAlone DEF Undisturbed
  <2>2. KnowsPidFile' BY <1>6, <2>1 DEF Undisturbed, KnowsPidFile, TypeOK, Ended
  <2>3. KnowsGateways' BY <1>1, <1>6, <2>1 DEF Undisturbed, KnowsGateways, TypeOK, Ended
  <2> QED BY <2>1, <2>2, <2>3
<1>7. NoStrayGateway' BY <1>1 DEF NoStrayGateway, Undisturbed, KnowsGateways, TypeOK
<1> QED BY <1>3, <1>4, <1>5, <1>6, <1>7 DEF Undisturbed

\* A start has come to its end, not a stop.
LEMMA HealthKeeps ==
    ASSUME IInv, NEW u \in Users, Health(u) PROVE IInv'
<1> USE DEF IInv, Health, Goto
<1>1. Gateways' = Gateways BY DEF Gateways, Pids
<1>2. Busy(u) BY DEF Busy, Ended
<1>3. TypeOK' BY DEF TypeOK, Steps, Ended
<1>4. FunctionOfCommand' BY DEF FunctionOfCommand, TypeOK
<1>5. RemovesEnded' BY <1>1 DEF RemovesEnded, FunctionOfCommand, TypeOK
<1>6. ASSUME ~disturbed PROVE OneAtATime' /\ KnowsPidFile' /\ KnowsGateways'
  <2>1. OneAtATime' /\ \A v \in Users \ {u} : at[v] \in Ended /\ at'[v] = at[v]
        BY <1>2, <1>6, StaysAlone DEF Undisturbed
  <2>2. KnowsPidFile' BY <1>6, <2>1 DEF Undisturbed, KnowsPidFile, TypeOK, Ended
  <2>3. KnowsGateways' BY <1>1, <1>6, <2>1 DEF Undisturbed, KnowsGateways, TypeOK, Ended
  <2> QED BY <2>1, <2>2, <2>3
<1>7. NoStrayGateway' BY <1>1 DEF NoStrayGateway, TypeOK
<1> QED BY <1>3, <1>4, <1>5, <1>6, <1>7 DEF Undisturbed

\* An invocation that begins while another one runs disturbs it; otherwise
\* nobody else is busy.
LEMMA BeginKeeps ==
    ASSUME IInv, NEW u \in Users, NEW c \in {"start", "stop", "restart"}, Begin(u, c)
    PROVE  IInv'
<1> USE DEF IInv, Begin, Goto
<1>1. Gateways' = Gateways /\ 0 \notin Gateways BY DEF Gateways, Pids
<1>2. TypeOK'
  <2>1. begun' \in 0..MaxInvocations BY BoundAssumption DEF TypeOK
  <2>2. 0 \in 0..Len(proc) BY LenProperties DEF TypeOK
  <2>3. disturbed' \in BOOLEAN BY DEF TypeOK
  <2> QED BY <2>1, <2>2, <2>3 DEF TypeOK, Steps
<1>3. FunctionOfCommand' BY DEF FunctionOfCommand, TypeOK
<1>4. RemovesEnded' BY <1>1 DEF RemovesEnded, TypeOK
<1>5. ASSUME ~disturbed' PROVE OneAtATime' /\ KnowsPidFile' /\ KnowsGateways'
  <2>1. \A v \in Users : ~Busy(v) BY <1>5
  <2>2. \A v \in Users \ {u} : at'[v] = at[v] /\ at[v] \in Ended BY <2>1 DEF TypeOK, Busy
  <2>3. at'[u] = "check" BY DEF TypeOK
  <2> QED BY <2>2, <2>3 DEF OneAtATime, KnowsPidFile, KnowsGateways, Busy, Ended
<1>6. NoStrayGateway'
  <2> SUFFICES ASSUME ~disturbed', NEW p \in Gateways' PROVE pidFile' = p
      BY DEF NoStrayGateway
  <2>1. \A v \in Users : ~Busy(v) BY DEF TypeOK
  <2> QED BY <1>1, <2>1 DEF NoStrayGateway, Busy, Ended
<1> QED BY <1>2, <1>3, <1>4, <1>5, <1>6 DEF Undisturbed

LEMMA InterruptKeeps ==
    ASSUME IInv, NEW u \in Users, Interrupt(u) PROVE IInv'
<1> USE DEF IInv, Interrupt, Goto
<1>1. Gateways' = Gateways BY DEF Gateways, Pids
<1>2. TypeOK' BY DEF TypeOK, Ended
<1>3. FunctionOfCommand' BY DEF FunctionOfCommand, TypeOK
<1>4. RemovesEnded' BY <1>1 DEF RemovesEnded, TypeOK
<1> QED BY <1>2, <1>3, <1>4 DEF Undisturbed, NoStrayGateway

(***************************************************************************)
(* The processes                                                           *)
(***************************************************************************)

\* What happens to a process outside the script makes no gateway.
LEMMA WorldKeeps ==
    ASSUME IInv, UNCHANGED <<script, pidFile, begun, disturbed>>,
           NEW q \in Pids, NEW c \in {"other", "dead"}, proc' = [proc EXCEPT ![q] = c]
    PROVE  IInv'
<1> USE DEF IInv, script
<1>1. /\ proc' \in Seq(Conditions) /\ Len(proc') = Len(proc)
      /\ Gateways' \subseteq Gateways
  <2>1. DOMAIN proc = Pids BY DEF TypeOK, Pids
  <2>2. proc' = [p \in Pids |-> IF p = q THEN c ELSE proc[p]] BY <2>1
  <2>3. TypeOK /\ c \in {"draining", "other", "dead"} /\ c # "draining" OBVIOUS
  <2> HIDE DEF IInv
  <2> QED BY <2>2, <2>3, ProcessChanges
<1>2. TypeOK' BY <1>1 DEF TypeOK, Conditions
<1>3. FunctionOfCommand' /\ RemovesEnded' BY <1>1 DEF FunctionOfCommand, RemovesEnded
<1>4. Undisturbed'
      BY <1>1 DEF Undisturbed, OneAtATime, KnowsPidFile, KnowsGateways, Busy
<1>5. NoStrayGateway' BY <1>1 DEF NoStrayGateway
<1> QED BY <1>2, <1>3, <1>4, <1>5

LEMMA NextIInv == IInv /\ [Next]_vars => IInv'
<1> SUFFICES ASSUME IInv, [Next]_vars PROVE IInv' OBVIOUS
<1>1. ASSUME NEW u \in Users, NEW c \in {"start", "stop", "restart"}, Begin(u, c)
      PROVE  IInv'
      BY <1>1, BeginKeeps
<1>2. ASSUME NEW u \in Users, Step(u) PROVE IInv'
      BY <1>2, CheckKeeps, ReadKeeps, ProbeKeeps, TermKeeps, WaitKeeps, WaitTimesOutKeeps,
         KillKeeps, RemoveKeeps, SpawnKeeps, RecordKeeps, HealthKeeps DEF Step
<1>3. ASSUME NEW u \in Users, Interrupt(u) PROVE IInv' BY <1>3, InterruptKeeps
<1>4. ASSUME NEW p \in Pids, Exit(p) \/ Reuse(p) PROVE IInv'
      BY <1>4, WorldKeeps DEF Exit, Reuse
<1>5. CASE UNCHANGED vars
      BY <1>5 DEF vars, script, IInv, TypeOK, FunctionOfCommand, RemovesEnded, Undisturbed,
         OneAtATime, KnowsPidFile, KnowsGateways, NoStrayGateway, Busy, Gateways, Pids
<1> QED BY <1>1, <1>2, <1>3, <1>4, <1>5 DEF Next

(***************************************************************************)
(* The theorems                                                            *)
(***************************************************************************)

\* The invariant holds however people run the script and gateways come to an end.
THEOREM Invariance == Spec => []IInv
BY InitIInv, NextIInv, PTL DEF Spec

\* Every variable keeps its type; in particular, the PID file and the script's
\* own variable only ever name PIDs that were given to a gateway.
THEOREM TypeCorrect == Spec => []TypeOK
<1>1. IInv => TypeOK BY DEF IInv
<1> QED BY <1>1, Invariance, PTL

\* Whoever runs the script undisturbed never loses a gateway or starts a second:
\* every gateway is the one in the PID file or about to be written to it.
THEOREM NoGatewayIsLost == Spec => []NoStrayGateway
<1>1. IInv => NoStrayGateway BY DEF IInv
<1> QED BY <1>1, Invariance, PTL

\* A stop that reports success has ended the gateway that it read from the PID
\* file, whatever other invocations did to the file meanwhile.
THEOREM StopStops == Spec => []StopMeansStopped
<1>1. IInv => StopMeansStopped BY DEF IInv, RemovesEnded, StopMeansStopped
<1> QED BY <1>1, Invariance, PTL
=============================================================================
