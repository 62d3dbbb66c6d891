--------------------------- MODULE NodeAgentProofs ---------------------------
(***************************************************************************)
(* What the release agent promises whatever it is asked, for any fleet,    *)
(* any number of generations and any number of faults.                     *)
(*                                                                         *)
(* The agent keeps no state between its calls but its journal, and a crash *)
(* may end a call anywhere.  So IInv says of each place in which a phase   *)
(* may stand what its earlier steps have established, and of a journal     *)
(* what its receipts and its pending intent still allow to happen: what    *)
(* holds the fence while the pair of pointer and manifest is changed is    *)
(* that no phase that opens it can be accepted before the pair is whole.   *)
(***************************************************************************)
EXTENDS NodeAgentCallers, TLAPS

\* The phase at a place of its own.
Stands(n, phases, places) == Phase(n) \in phases /\ inv[n].at \in places

\* The steps of a rollback on a fenced gateway.
RollingBack == {"repair", "intent", "pointer", "manifest", "restart", "observe", "receipt"}

\* A running phase is the one whose intent is pending, until it has its receipt.
PendingInv(n) ==
    IF Invoked(n)
    THEN /\ Phase(n) \in Phases
         /\ inv[n].at # "unlock" => journal[n].pending = Phase(n)
    ELSE Phase(n) = "none"

\* Outside a closed fence the pair is whole and loaded.
WholeInv(n) == host[n].fence # "prepared" => OnRelease(host[n], host[n].loaded)

\* Until there is a backup the node is as it was found; there is none before the
\* stage has its receipt, which no later call takes back.
BackupInv(n) ==
    /\ ~journal[n].backup =>
         host[n].pointer = "old" /\ host[n].manifest = "old" /\ host[n].loaded = "old"
    /\ host[n].pointer = "restored" => journal[n].rollbackFrom # "none"
    /\ journal[n].backup \/ Stands(n, {"prepare"}, Steps \ {"none"}) => Has(journal[n], {"stage"})
    /\ journal[n].pending = "stage" => ~Has(journal[n], {"stage"})
    /\ Stands(n, {"discard-stage"}, Steps \ {"none"}) /\ inv[n].request.reservationOnly
          /\ inv[n].at # "unlock" => ~Has(journal[n], {"stage"})

\* A release that has not taken effect bars a swap: its intent is pending, or
\* that of a phase that waits for it, or the stage is gone for good.
ReleasingInv(n) ==
    host[n].fence = "releasing" =>
        /\ journal[n].backup
        /\ \/ journal[n].pending \in {"release", "reprepare", "rollback", "discard-stage"}
           \/ ~host[n].staged

\* What the steps of a phase have established.
PhaseInv(n) ==
    LET h == host[n]
        j == journal[n] IN
    /\ Stands(n, {"prepare"}, {"fence", "receipt"}) => OnRelease(h, "old")
    /\ Stands(n, {"prepare"}, {"receipt"}) => h.fence = "prepared" /\ j.backup
    /\ Stands(n, {"swap"}, {"manifest"}) => h.fence = "prepared" /\ h.pointer = "new" /\ j.backup
    /\ Stands(n, {"swap"}, {"receipt"}) => h.fence = "prepared" /\ Disk(h) = "new"
    /\ Stands(n, {"reprepare"}, {"receipt"}) => h.fence = "prepared"
    /\ Stands(n, {"rollback"}, RollingBack) =>
         h.fence = "prepared" /\ (j.backup <=> inv[n].at # "receipt")
    /\ Stands(n, {"rollback"}, {"pointer"}) => j.rollbackFrom # "none"
    /\ Stands(n, {"discard-stage"}, {"receipt"}) =>
         ~h.staged \/ inv[n].request.reservationOnly
    /\ Stands(n, {"release"}, {"opening", "unlock"}) /\ Has(j, {"rollback"}) => OnRelease(h, "old")
    /\ Stands(n, {"release"}, {"unlock"}) => h.fence = "open"
    /\ ~Stands(n, {"release", "restart"}, {"receipt"})
    /\ inv[n].at = "unlock" => Phase(n) \in Unlocking

\* What the last receipt says, as long as nothing is pending.
JournalInv(n) ==
    LET j == journal[n]
        h == host[n] IN
    j.pending = "none" =>
        /\ j.state = "prepare" => OnRelease(h, "old") /\ h.fence = "prepared" /\ j.backup
        /\ j.state = "swap" => Disk(h) = "new" /\ h.fence = "prepared"
        /\ j.state = "reprepare" => h.fence = "prepared"
        /\ j.state = "rollback" => OnRelease(h, "old") /\ h.fence = "prepared"
        /\ j.state = "release" => h.fence = "open"

NodeInv(n) ==
    /\ PendingInv(n) /\ WholeInv(n) /\ BackupInv(n) /\ ReleasingInv(n) /\ PhaseInv(n)
    /\ JournalInv(n)

\* These callers call a node while nothing runs on it.
IdleInv(n) == Invoked(n) => request[n] = NoRequest

IInv == AgentTypeOK /\ \A n \in Nodes : NodeInv(n) /\ IdleInv(n)

-----------------------------------------------------------------------------
\* A node that a step leaves alone keeps its part of the invariant.
Untouched(n) ==
    /\ journal'[n] = journal[n] /\ host'[n] = host[n]
    /\ inv'[n] = inv[n] /\ request'[n] = request[n]

\* A step that leaves the journal and the node alone keeps the invariant.
LEMMA UntouchedKeeps ==
    ASSUME NEW n \in Nodes, NodeInv(n), Untouched(n)
    PROVE  NodeInv(n)' /\ (IdleInv(n) => IdleInv(n)')
BY DEF Untouched, IdleInv, NodeInv, PendingInv, WholeInv, BackupInv, ReleasingInv, PhaseInv, JournalInv,
       Stands, Invoked, Phase

\* A step of a phase on its node.
LEMMA HostStep ==
    ASSUME AgentTypeOK, NEW n \in Nodes, NEW h \in Host, NEW step \in Steps,
           StepOnHost(n, h, step)
    PROVE  /\ AgentTypeOK'
           /\ host'[n] = h
           /\ inv'[n].at = step /\ inv'[n].request = inv[n].request
           /\ journal' = journal /\ request' = request
           /\ \A m \in Nodes \ {n} : Untouched(m)
BY DEF AgentTypeOK, StepOnHost, Goto, Untouched, Invocation

\* And a step of a phase in the journal of its node.
LEMMA JournalStep ==
    ASSUME AgentTypeOK, NEW n \in Nodes, NEW j \in Journal, NEW step \in Steps,
           StepInJournal(n, j, step)
    PROVE  /\ AgentTypeOK'
           /\ journal'[n] = j
           /\ inv'[n].at = step /\ inv'[n].request = inv[n].request
           /\ host' = host /\ request' = request
           /\ \A m \in Nodes \ {n} : Untouched(m)
BY DEF AgentTypeOK, StepInJournal, Goto, Untouched, Invocation

\* The invariant holds of an agent that has just been installed.
LEMMA InitIInv == ASSUME AgentInit PROVE IInv
<1>1. AgentTypeOK
  BY AgentAssumption DEF AgentInit, AgentTypeOK, Journal, NewJournal, Host, Invocation,
     NoInvocation, Request, NoRequest, Steps, Phases
<1>2. ASSUME NEW n \in Nodes PROVE NodeInv(n) /\ IdleInv(n)
  BY DEF AgentInit, IdleInv, NodeInv, PendingInv, WholeInv, BackupInv, ReleasingInv, PhaseInv,
     JournalInv, Stands, Invoked, Phase, NewJournal, NoInvocation, NoRequest, Has,
     OnRelease, Disk, Bytes, RollingBack, Phases
<1> QED BY <1>1, <1>2 DEF IInv

\* Every step of a phase keeps the invariant.
LEMMA HostKeeps ==
    ASSUME AgentTypeOK, NEW n \in Nodes, NodeInv(n),
           \/ Stage(n) \/ DiscardStage(n) \/ RequestFence(n) \/ SwapPointer(n)
           \/ SwapManifest(n) \/ RestartUnit(n) \/ RepairPair(n) \/ RollbackPointer(n)
           \/ RollbackManifest(n) \/ RequestRelease(n)
    PROVE  AgentTypeOK' /\ NodeInv(n)' /\ \A m \in Nodes \ {n} : Untouched(m)
<1> DEFINE h == host[n]
           j == journal[n]
<1>0. h \in Host /\ j \in Journal /\ inv[n] \in Invocation
  BY DEF AgentTypeOK
<1> USE <1>0 DEF NodeInv, PendingInv, WholeInv, BackupInv, ReleasingInv, PhaseInv, JournalInv,
     Stands, Invoked, Phase, RollingBack, OnRelease, Disk, Bytes, Has, Host, Invocation, Steps, Phases
<1>1. CASE Stage(n)
  <2> DEFINE g == [h EXCEPT !.staged = TRUE]
  <2>1. /\ g \in Host
        /\ g.pointer = h.pointer /\ g.manifest = h.manifest /\ g.loaded = h.loaded /\ g.fence = h.fence
        /\ g.staged
    OBVIOUS
  <2>2. /\ StepOnHost(n, g, "receipt")
        /\ Phase(n) = "stage" /\ inv[n].at = "begin"
    BY <1>1 DEF Stage, At
  <2> HIDE DEF g
  <2> QED BY <2>1, <2>2, HostStep
<1>2. CASE DiscardStage(n)
  <2> DEFINE g == [h EXCEPT !.staged = @ /\ inv[n].request.reservationOnly]
  <2>1. /\ g \in Host
        /\ g.pointer = h.pointer /\ g.manifest = h.manifest /\ g.loaded = h.loaded /\ g.fence = h.fence
        /\ g.staged => h.staged /\ inv[n].request.reservationOnly
    OBVIOUS
  <2>2. /\ StepOnHost(n, g, "receipt")
        /\ Phase(n) = "discard-stage" /\ inv[n].at = "begin"
    BY <1>2 DEF DiscardStage, At
  <2> HIDE DEF g
  <2> QED BY <2>1, <2>2, HostStep
<1>3. CASE RequestFence(n)
  <2> DEFINE g == [h EXCEPT !.fence = IF @ = "open" THEN "draining" ELSE @]
  <2>1. /\ g \in Host
        /\ g.pointer = h.pointer /\ g.manifest = h.manifest /\ g.loaded = h.loaded /\ g.staged = h.staged
        /\ g.fence = IF h.fence = "open" THEN "draining" ELSE h.fence
    OBVIOUS
  <2>2. /\ StepOnHost(n, g, "fence")
        /\ Phase(n) \in {"prepare", "reprepare", "rollback"} /\ inv[n].at = "begin"
        /\ h.fence # "releasing"
        /\ Phase(n) = "prepare" => OnRelease(h, "old")
    BY <1>3 DEF RequestFence, At, Check
  <2> HIDE DEF g
  <2> QED BY <2>1, <2>2, HostStep
<1>4. CASE SwapPointer(n)
  <2> DEFINE g == [h EXCEPT !.pointer = "new"]
  <2>1. /\ g \in Host
        /\ g.manifest = h.manifest /\ g.loaded = h.loaded /\ g.staged = h.staged /\ g.fence = h.fence
        /\ g.pointer = "new"
    OBVIOUS
  <2>2. /\ StepOnHost(n, g, "manifest")
        /\ Phase(n) = "swap" /\ inv[n].at = "begin"
        /\ h.staged /\ j.backup /\ h.fence \in {"prepared", "releasing"}
    BY <1>4 DEF SwapPointer, At, Check, Prepared
  <2> HIDE DEF g
  <2> QED BY <2>1, <2>2, HostStep
<1>5. CASE SwapManifest(n)
  <2> DEFINE g == [h EXCEPT !.manifest = "new"]
  <2>1. /\ g \in Host
        /\ g.pointer = h.pointer /\ g.loaded = h.loaded /\ g.staged = h.staged /\ g.fence = h.fence
        /\ g.manifest = "new"
    OBVIOUS
  <2>2. /\ StepOnHost(n, g, "receipt")
        /\ Phase(n) = "swap" /\ inv[n].at = "manifest"
    BY <1>5 DEF SwapManifest, At
  <2> HIDE DEF g
  <2> QED BY <2>1, <2>2, HostStep
<1>6. CASE RestartUnit(n)
  <2> DEFINE g == [h EXCEPT !.loaded = Bytes(h)]
  <2>1. /\ g \in Host
        /\ g.pointer = h.pointer /\ g.manifest = h.manifest /\ g.staged = h.staged /\ g.fence = h.fence
        /\ g.loaded = Bytes(h)
    OBVIOUS
  <2>2. /\ StepOnHost(n, g, "observe")
        /\ \/ Phase(n) = "restart" /\ inv[n].at = "begin"
           \/ Phase(n) = "rollback" /\ inv[n].at = "restart"
    BY <1>6 DEF RestartUnit, At
  <2> HIDE DEF g
  <2> QED BY <2>1, <2>2, HostStep
<1>7. CASE RepairPair(n)
  <2> DEFINE g == [h EXCEPT !.pointer = IF @ = "new" /\ h.manifest = "old" THEN "old" ELSE @,
                            !.manifest = IF h.pointer = "restored" THEN "old" ELSE @]
  <2>1. /\ g \in Host
        /\ g.loaded = h.loaded /\ g.staged = h.staged /\ g.fence = h.fence
        /\ g.pointer \in {"old", h.pointer}
    OBVIOUS
  <2>2. /\ StepOnHost(n, g, "intent")
        /\ Phase(n) = "rollback" /\ inv[n].at = "repair"
    BY <1>7 DEF RepairPair, At
  <2> HIDE DEF g
  <2> QED BY <2>1, <2>2, HostStep
<1>8. CASE RollbackPointer(n)
  <2> DEFINE g == [h EXCEPT !.pointer = "restored"]
  <2>1. /\ g \in Host
        /\ g.manifest = h.manifest /\ g.loaded = h.loaded /\ g.staged = h.staged /\ g.fence = h.fence
        /\ g.pointer = "restored"
    OBVIOUS
  <2>2. /\ StepOnHost(n, g, "manifest")
        /\ Phase(n) = "rollback" /\ inv[n].at = "pointer"
    BY <1>8 DEF RollbackPointer, At
  <2> HIDE DEF g
  <2> QED BY <2>1, <2>2, HostStep
<1>9. CASE RollbackManifest(n)
  <2> DEFINE g == [h EXCEPT !.manifest = "old"]
  <2>1. /\ g \in Host
        /\ g.pointer = h.pointer /\ g.loaded = h.loaded /\ g.staged = h.staged /\ g.fence = h.fence
        /\ g.manifest = "old"
    OBVIOUS
  <2>2. /\ StepOnHost(n, g, "restart")
        /\ Phase(n) = "rollback" /\ inv[n].at = "manifest"
    BY <1>9 DEF RollbackManifest, At
  <2> HIDE DEF g
  <2> QED BY <2>1, <2>2, HostStep
<1>10. CASE RequestRelease(n)
  <2> DEFINE g == [h EXCEPT !.fence = "releasing"]
  <2>1. /\ g \in Host
        /\ g.pointer = h.pointer /\ g.manifest = h.manifest /\ g.loaded = h.loaded /\ g.staged = h.staged
        /\ g.fence = "releasing"
    OBVIOUS
  <2>2. /\ StepOnHost(n, g, "opening")
        /\ Phase(n) = "release" /\ inv[n].at = "begin"
        /\ j.backup /\ OnRelease(h, h.loaded)
        /\ Has(j, {"rollback"}) => OnRelease(h, "old")
    BY <1>10 DEF RequestRelease, At, Check, Expected
  <2> HIDE DEF g
  <2> QED BY <2>1, <2>2, HostStep
<1> QED BY <1>1, <1>2, <1>3, <1>4, <1>5, <1>6, <1>7, <1>8, <1>9, <1>10

\* A phase writes its journal, or goes on without writing anything.
LEMMA JournalKeeps ==
    ASSUME AgentTypeOK, NEW n \in Nodes, NodeInv(n),
           BackUp(n) \/ RollbackIntent(n) \/ Fenced(n)
    PROVE  AgentTypeOK' /\ NodeInv(n)' /\ \A m \in Nodes \ {n} : Untouched(m)
<1> DEFINE h == host[n]
           j == journal[n]
<1>0. h \in Host /\ j \in Journal /\ inv[n] \in Invocation
  BY DEF AgentTypeOK
<1> USE <1>0 DEF NodeInv, PendingInv, WholeInv, BackupInv, ReleasingInv, PhaseInv, JournalInv,
     Stands, Invoked, Phase, RollingBack, OnRelease, Disk, Bytes, Has, Host, Invocation, Steps, Phases
<1>1. CASE BackUp(n)
  <2> DEFINE k == [j EXCEPT !.backup = TRUE]
  <2>1. /\ k \in Journal /\ k.backup
        /\ k.pending = j.pending /\ k.receipts = j.receipts /\ k.state = j.state
        /\ k.rollbackFrom = j.rollbackFrom
    BY DEF Journal
  <2>2. /\ StepInJournal(n, k, "receipt")
        /\ Phase(n) = "prepare" /\ inv[n].at = "fence" /\ h.fence = "prepared"
    BY <1>1 DEF BackUp, At
  <2> HIDE DEF k
  <2> QED BY <2>1, <2>2, JournalStep
<1>2. CASE RollbackIntent(n)
  <2> DEFINE k == [j EXCEPT !.rollbackFrom = IF @ = "none" THEN h.pointer ELSE @]
  <2>1. /\ k \in Journal /\ k.backup = j.backup
        /\ k.pending = j.pending /\ k.receipts = j.receipts /\ k.state = j.state
        /\ k.rollbackFrom # "none"
    BY DEF Journal
  <2>2. /\ StepInJournal(n, k, "pointer")
        /\ Phase(n) = "rollback" /\ inv[n].at = "intent"
    BY <1>2 DEF RollbackIntent, At
  <2> HIDE DEF k
  <2> QED BY <2>1, <2>2, JournalStep
<1>3. CASE Fenced(n)
  <2>1. /\ Phase(n) \in {"reprepare", "rollback"} /\ inv[n].at = "fence" /\ h.fence = "prepared"
        /\ UNCHANGED <<journal, host, locked, request, answer, faults>>
    BY <1>3 DEF Fenced, At
  <2>2. CASE Phase(n) = "rollback" /\ j.backup
    <3>1. inv' = [inv EXCEPT ![n].at = "repair"]
      BY <1>3, <2>2 DEF Fenced, Goto
    <3>2. inv'[n].at = "repair" /\ inv'[n].request = inv[n].request
      BY <3>1 DEF AgentTypeOK
    <3>3. AgentTypeOK' /\ \A m \in Nodes \ {n} : Untouched(m)
      BY <2>1, <3>1 DEF AgentTypeOK, Untouched
    <3> QED BY <2>1, <2>2, <3>2, <3>3
  <2>3. CASE ~(Phase(n) = "rollback" /\ j.backup)
    <3>1. inv' = [inv EXCEPT ![n].at = "receipt"]
      BY <1>3, <2>3 DEF Fenced, Goto
    <3>2. inv'[n].at = "receipt" /\ inv'[n].request = inv[n].request
      BY <3>1 DEF AgentTypeOK
    <3>3. AgentTypeOK' /\ \A m \in Nodes \ {n} : Untouched(m)
      BY <2>1, <3>1 DEF AgentTypeOK, Untouched
    <3> QED BY <2>1, <2>3, <3>2, <3>3
  <2> QED BY <2>2, <2>3
<1> QED BY <1>1, <1>2, <1>3

\* Where a phase concludes, its receipt tells the truth.
LEMMA ReceiptHolds ==
    ASSUME AgentTypeOK, NEW n \in Nodes, NodeInv(n), Concluded(n)
    PROVE  /\ WithReceipt(n) \in Journal
           /\ Phase(n) \in Phases /\ inv[n].at \notin {"none", "unlock"}
           /\ Phase(n) = "prepare" =>
                OnRelease(host[n], "old") /\ host[n].fence = "prepared" /\ journal[n].backup
           /\ Phase(n) = "swap" => Disk(host[n]) = "new" /\ host[n].fence = "prepared"
           /\ Phase(n) = "reprepare" => host[n].fence = "prepared"
           /\ Phase(n) = "restart" => host[n].loaded = "new"
           /\ Phase(n) = "rollback" => OnRelease(host[n], "old") /\ host[n].fence = "prepared"
           /\ Phase(n) = "release" =>
                /\ host[n].fence = "open" /\ inv[n].at = "opening"
           /\ host[n].fence = "releasing" => ~host[n].staged
<1> DEFINE h == host[n]
           j == journal[n]
<1>0. h \in Host /\ j \in Journal /\ inv[n] \in Invocation
  BY DEF AgentTypeOK
<1> USE <1>0 DEF NodeInv, PendingInv, WholeInv, BackupInv, ReleasingInv, PhaseInv,
     Stands, Invoked, Phase, RollingBack, OnRelease, Disk, Bytes, Host, Invocation, Steps, Phases
<1>1. /\ Invoked(n) /\ inv[n].at # "unlock" /\ Phase(n) \in Phases /\ j.pending = Phase(n)
  BY DEF Concluded, At, ReadOnly
<1>2. WithReceipt(n) \in Journal
  <2>1. inv[n].request.generation \in 0..AgentGenerations
    BY DEF Request
  <2> QED BY <1>1, <2>1 DEF WithReceipt, Journal
<1>3. \/ inv[n].at = "receipt"
      \/ inv[n].at = "observe" /\ Phase(n) \in {"restart", "rollback"} /\ Check(n)
      \/ inv[n].at = "begin" /\ Phase(n) \in ReadOnly \cup {"promote"}
      \/ inv[n].at = "opening" /\ Phase(n) = "release" /\ h.fence = "open"
  BY DEF Concluded, At
<1>4. inv[n].at = "observe" =>
         /\ Phase(n) = "rollback" => Disk(h) = "old" /\ h.loaded = "old"
         /\ Phase(n) = "restart" => h.loaded = "new"
  BY <1>3 DEF Check
<1> QED BY <1>1, <1>2, <1>3, <1>4 DEF ReadOnly

\* The end of a phase, with its receipt or without.
LEMMA EndKeeps ==
    ASSUME AgentTypeOK, NEW n \in Nodes, NodeInv(n),
           Complete(n) \/ Unlock(n) \/ Fail(n) \/ Die(n)
    PROVE  AgentTypeOK' /\ NodeInv(n)' /\ \A m \in Nodes \ {n} : Untouched(m)
<1> DEFINE h == host[n]
           j == journal[n]
           k == WithReceipt(n)
<1>0. h \in Host /\ j \in Journal /\ inv[n] \in Invocation /\ NoInvocation \in Invocation
  BY AgentAssumption DEF AgentTypeOK, NoInvocation, NoRequest, Invocation, Request, Steps
<1>1. \A a \in {"ok", "failed"} : Answer(n, a) =>
         answer' \in [Nodes -> {"none", "ok", "failed"} \cup Refusals]
  BY DEF Answer, AgentTypeOK
<1>2. Fault => faults' \in 0..MaxFaults
  BY AgentAssumption DEF Fault, AgentTypeOK
<1>3. ASSUME Concluded(n)
      PROVE  /\ k \in Journal /\ k.backup = j.backup /\ k.pending = "none"
             /\ k.rollbackFrom = j.rollbackFrom
             /\ k.state = IF Phase(n) = "discard-stage" THEN "rolled-back" ELSE Phase(n)
             /\ j.backup => Has(k, {"stage"})
             /\ Phase(n) # "rollback" => (Has(k, {"rollback"}) <=> Has(j, {"rollback"}))
  <2>1. /\ k \in Journal /\ Phase(n) \in Phases /\ inv[n].at \notin {"none", "unlock"}
    BY <1>3, ReceiptHolds
  <2>2. /\ k.backup = j.backup /\ k.pending = "none" /\ k.rollbackFrom = j.rollbackFrom
        /\ k.state = IF Phase(n) = "discard-stage" THEN "rolled-back" ELSE Phase(n)
        /\ \A p \in Phases \ {Phase(n)} : k.receipts[p] = j.receipts[p]
    BY <1>0 DEF WithReceipt, Journal
  <2>3. j.backup => Phase(n) # "stage" /\ Has(j, {"stage"})
    BY <2>1 DEF NodeInv, PendingInv, BackupInv, Invoked
  <2> QED BY <2>1, <2>2, <2>3 DEF Has, Phases
<1> HIDE DEF k
<1>4. CASE Die(n)
  <2>1. AgentTypeOK' /\ \A m \in Nodes \ {n} : Untouched(m)
    BY <1>0, <1>1, <1>4, <1>2 DEF Die, AgentTypeOK, Untouched
  <2>2. inv'[n] = NoInvocation /\ UNCHANGED <<journal, host, request>>
    BY <1>4 DEF Die, AgentTypeOK
  <2> QED BY <2>1, <2>2 DEF NodeInv, PendingInv, WholeInv, BackupInv, ReleasingInv, PhaseInv,
             JournalInv, Stands, Invoked, Phase, NoInvocation, NoRequest
<1>5. CASE Unlock(n)
  <2>1. AgentTypeOK' /\ \A m \in Nodes \ {n} : Untouched(m)
    BY <1>0, <1>1, <1>5 DEF Unlock, AgentTypeOK, Untouched
  <2>2. inv'[n] = NoInvocation /\ UNCHANGED <<journal, host, request>>
    BY <1>5 DEF Unlock, AgentTypeOK
  <2> QED BY <2>1, <2>2 DEF NodeInv, PendingInv, WholeInv, BackupInv, ReleasingInv, PhaseInv,
             JournalInv, Stands, Invoked, Phase, NoInvocation, NoRequest
<1>6. CASE Fail(n)
  <2>1. PICK i \in {j} \cup (IF Concluded(n) THEN {k} ELSE {}) :
             journal' = [journal EXCEPT ![n] = [i EXCEPT !.state = "unknown"]]
    BY <1>6 DEF Fail, k
  <2>2. i \in Journal /\ (i = j \/ (Concluded(n) /\ i = k))
    BY <2>1, <1>0, <1>3
  <2>3. [i EXCEPT !.state = "unknown"] \in Journal
    BY <2>2 DEF Journal
  <2>4. AgentTypeOK' /\ \A m \in Nodes \ {n} : Untouched(m)
    <3>1. faults' \in 0..MaxFaults
      BY <1>6, <1>2 DEF Fail, AgentTypeOK
    <3>2. locked' \in [Nodes -> BOOLEAN]
      BY <1>6 DEF Fail, AgentTypeOK
    <3> QED BY <1>0, <1>1, <1>6, <2>1, <2>3, <3>1, <3>2 DEF Fail, AgentTypeOK, Untouched
  <2>5. /\ inv'[n] = NoInvocation /\ UNCHANGED <<host, request>>
        /\ journal'[n] = [i EXCEPT !.state = "unknown"]
    BY <1>6, <2>1 DEF Fail, AgentTypeOK
  <2>6. /\ journal'[n].state = "unknown" /\ journal'[n].pending = i.pending
        /\ journal'[n].receipts = i.receipts /\ journal'[n].backup = i.backup
        /\ journal'[n].rollbackFrom = i.rollbackFrom
    BY <2>2, <2>5 DEF Journal
  <2>7. CASE i = j
    BY <2>4, <2>5, <2>6, <2>7 DEF NodeInv, PendingInv, WholeInv, BackupInv, ReleasingInv,
       PhaseInv, JournalInv, Stands, Invoked, Phase, NoInvocation, NoRequest, Has
  <2>8. CASE Concluded(n) /\ i = k
    BY <1>3, <2>4, <2>5, <2>6, <2>8, ReceiptHolds
       DEF NodeInv, PendingInv, WholeInv, BackupInv, ReleasingInv,
           PhaseInv, JournalInv, Stands, Invoked, Phase, NoInvocation, NoRequest, Has
  <2> QED BY <2>2, <2>7, <2>8
<1>7. CASE Complete(n)
  <2>1. Concluded(n) /\ journal' = [journal EXCEPT ![n] = k] /\ UNCHANGED <<host, request>>
    BY <1>7 DEF Complete, k
  <2>2. journal'[n] = k
    BY <2>1 DEF AgentTypeOK
  <2>3. CASE Phase(n) \in Unlocking
    <3>1. /\ inv' = [inv EXCEPT ![n].at = "unlock"]
          /\ UNCHANGED <<answer, locked, faults>>
      BY <1>7, <2>3 DEF Complete, Goto
    <3>2. AgentTypeOK' /\ \A m \in Nodes \ {n} : Untouched(m)
      BY <1>0, <1>3, <2>1, <3>1 DEF AgentTypeOK, Untouched, Invocation, Steps
    <3>3. inv'[n].at = "unlock" /\ inv'[n].request = inv[n].request
      BY <3>1, <1>0 DEF AgentTypeOK, Invocation
    <3> QED BY <1>3, <2>1, <2>2, <2>3, <3>2, <3>3, ReceiptHolds
           DEF NodeInv, PendingInv, WholeInv, BackupInv, ReleasingInv, PhaseInv, JournalInv,
               Stands, Invoked, Phase, Unlocking, RollingBack
  <2>4. CASE Phase(n) \notin Unlocking
    <3>1. /\ inv' = [inv EXCEPT ![n] = NoInvocation] /\ Answer(n, "ok")
          /\ UNCHANGED <<locked, faults>>
      BY <1>7, <2>4 DEF Complete
    <3>2. AgentTypeOK' /\ \A m \in Nodes \ {n} : Untouched(m)
      BY <1>0, <1>1, <1>3, <2>1, <3>1 DEF AgentTypeOK, Untouched
    <3>3. inv'[n] = NoInvocation
      BY <3>1 DEF AgentTypeOK
    <3> QED BY <1>3, <2>1, <2>2, <2>4, <3>2, <3>3, ReceiptHolds
           DEF NodeInv, PendingInv, WholeInv, BackupInv, ReleasingInv, PhaseInv, JournalInv,
               Stands, Invoked, Phase, Unlocking, NoInvocation, NoRequest
  <2> QED BY <2>3, <2>4
<1> QED BY <1>4, <1>5, <1>6, <1>7

\* A phase that leads to a durable change is accepted once only: a receipt is
\* answered again, or refused as stale, unless the phase is one to repeat.
LEMMA ReceiptBars ==
    ASSUME AgentTypeOK, NEW n \in Nodes, request[n].phase \in {"stage", "prepare", "swap"},
           Refusal(n, journal[n], request[n]) = "none", ~Replayed(journal[n], request[n])
    PROVE  journal[n].receipts[request[n].phase] = 0
<1> DEFINE j == journal[n]
           q == request[n]
<1>0. j \in Journal /\ q \in Request
  BY DEF AgentTypeOK
<1>1. ~StaleGeneration(j, q)
  BY DEF Refusal
<1>2. q.phase \notin Renewed /\ q.phase \in Phases /\ ~FreshObservation(j, q)
  BY DEF Renewed, FreshObservation, Phases
<1>3. Adopted(j, q).receipts[q.phase] = j.receipts[q.phase]
  BY <1>0, <1>2 DEF Adopted, Journal
<1>4. Adopted(j, q).receipts[q.phase] # q.generation
  BY <1>1, <1>2 DEF Replayed
<1>5. j.generation \in Nat /\ q.generation \in Nat /\ j.receipts[q.phase] \in Nat
  BY <1>0, <1>2 DEF Journal, Request
<1>6. Adopted(j, q).receipts[q.phase] \in {0, q.generation}
  BY <1>1, <1>2, <1>5 DEF StaleGeneration
<1> QED BY <1>3, <1>4, <1>6

\* What a call finds: it is refused, answered again, or becomes the phase that
\* runs on the node.
LEMMA CallKeeps ==
    ASSUME AgentTypeOK, NEW n \in Nodes, NodeInv(n),
           Refuse(n) \/ Replay(n) \/ Accept(n) \/ AnyCall(n)
    PROVE  AgentTypeOK' /\ NodeInv(n)' /\ \A m \in Nodes \ {n} : Untouched(m)
<1> DEFINE h == host[n]
           j == journal[n]
           q == request[n]
<1>0. /\ h \in Host /\ j \in Journal /\ inv[n] \in Invocation /\ NoInvocation \in Invocation
      /\ q \in Request /\ NoRequest \in Request
  BY AgentAssumption DEF AgentTypeOK, NoInvocation, NoRequest, Invocation, Request, Steps
<1>1. CASE Refuse(n)
  <2>1. answer' \in [Nodes -> {"none", "ok", "failed"} \cup Refusals]
    BY <1>1 DEF Refuse, AgentTypeOK, Refusal, Refusals
  <2>2. locked' \in [Nodes -> BOOLEAN]
    BY <1>1 DEF Refuse, AgentTypeOK
  <2>3. AgentTypeOK' /\ (\A m \in Nodes \ {n} : Untouched(m)) /\ request'[n] = NoRequest
    BY <1>0, <1>1, <2>1, <2>2 DEF Refuse, AgentTypeOK, Untouched
  <2> QED BY <1>1, <2>3
     DEF Refuse, NodeInv, PendingInv, WholeInv, BackupInv, ReleasingInv, PhaseInv,
             JournalInv, Stands, Invoked, Phase
<1>2. CASE Replay(n)
  <2>1. locked' \in [Nodes -> BOOLEAN]
    BY <1>2 DEF Replay, AgentTypeOK
  <2>2. AgentTypeOK' /\ (\A m \in Nodes \ {n} : Untouched(m)) /\ request'[n] = NoRequest
    BY <1>0, <1>2, <2>1 DEF Replay, AgentTypeOK, Untouched
  <2> QED BY <1>2, <2>2
     DEF Replay, NodeInv, PendingInv, WholeInv, BackupInv, ReleasingInv, PhaseInv,
             JournalInv, Stands, Invoked, Phase
<1>3. CASE AnyCall(n)
  <2>1. PICK phase \in Phases, generation \in 1..AgentGenerations, flag \in BOOLEAN :
           request' = [request EXCEPT ![n] =
               [phase |-> phase, generation |-> generation,
                restored |-> flag /\ phase \in {"canary", "release"},
                reservationOnly |-> flag /\ phase = "discard-stage"]]
    BY <1>3 DEF AnyCall
  <2>2. (flag /\ phase \in {"canary", "release"}) \in BOOLEAN
        /\ (flag /\ phase = "discard-stage") \in BOOLEAN /\ generation \in 0..AgentGenerations
    BY AgentAssumption
  <2>3. [phase |-> phase, generation |-> generation,
                restored |-> flag /\ phase \in {"canary", "release"},
                reservationOnly |-> flag /\ phase = "discard-stage"] \in Request
    BY <2>2 DEF Request
  <2>4. AgentTypeOK' /\ (\A m \in Nodes \ {n} : Untouched(m))
    BY <1>3, <2>1, <2>3 DEF AnyCall, AgentTypeOK, Untouched
  <2> QED BY <1>3, <2>4
     DEF AnyCall, NodeInv, PendingInv, WholeInv, BackupInv, ReleasingInv, PhaseInv,
             JournalInv, Stands, Invoked, Phase
<1>4. CASE Accept(n)
  <2> DEFINE a == Adopted(j, q)
             k == [a EXCEPT !.receipts[q.phase] = 0, !.pending = q.phase,
                            !.mutationPossible = @ \/ ~(q.phase \in ReadOnly \/ q.reservationOnly)]
             i == [request |-> q, at |-> "begin", attached |-> TRUE, created |-> ~locked[n]]
  <2>1. /\ q.phase \in Phases /\ Refusal(n, j, q) = "none" /\ ~Replayed(j, q)
        /\ journal' = [journal EXCEPT ![n] = k]
        /\ inv' = [inv EXCEPT ![n] = i]
        /\ locked' = [locked EXCEPT ![n] = TRUE]
        /\ request' = [request EXCEPT ![n] = NoRequest]
        /\ UNCHANGED <<host, answer, faults>>
    BY <1>0, <1>4 DEF Accept, Request
  <2>2. /\ ~Invoked(n) /\ ~OutOfOrder(j, q)
        /\ j.pending = "none" \/ q.phase \in {"reprepare", "rollback", "discard-stage"}
    BY <2>1 DEF Refusal
  <2>3. a \in Journal /\ a.backup = j.backup /\ a.rollbackFrom = j.rollbackFrom
        /\ a.receipts["stage"] = j.receipts["stage"]
    <3>1. CASE j.generation < q.generation
      <4> DEFINE r == [p \in Phases |-> IF p = q.phase /\ p \in Renewed THEN 0 ELSE j.receipts[p]]
      <4>1. r \in [Phases -> 0..AgentGenerations] /\ r["stage"] = j.receipts["stage"]
        BY <1>0, AgentAssumption DEF Journal, Renewed, Phases
      <4>2. a = [j EXCEPT !.generation = q.generation, !.receipts = r]
        BY <3>1 DEF Adopted
      <4> HIDE DEF r
      <4> QED BY <1>0, <4>1, <4>2 DEF Journal, Request
    <3>2. CASE ~(j.generation < q.generation)
      BY <1>0, <3>2 DEF Adopted
    <3> QED BY <3>1, <3>2
  <2>4. (a.mutationPossible \/ ~(q.phase \in ReadOnly \/ q.reservationOnly)) \in BOOLEAN
    BY <2>3
  <2>5. [a.receipts EXCEPT ![q.phase] = 0] \in [Phases -> 0..AgentGenerations]
    BY <2>1, <2>3, AgentAssumption DEF Journal
  <2>6. /\ k \in Journal /\ k.backup = j.backup /\ k.rollbackFrom = j.rollbackFrom
        /\ k.pending = q.phase
        /\ q.phase # "stage" => k.receipts["stage"] = j.receipts["stage"]
        /\ q.phase = "stage" => k.receipts["stage"] = 0
    BY <2>1, <2>3, <2>4, <2>5 DEF Journal, Phases
  <2>7. i \in Invocation /\ i.at = "begin" /\ i.request = q
    BY <1>0 DEF Invocation, AgentTypeOK, Steps
  <2> HIDE DEF a, k, i
  <2>8. AgentTypeOK' /\ (\A m \in Nodes \ {n} : Untouched(m))
    BY <1>0, <2>1, <2>6, <2>7 DEF AgentTypeOK, Untouched
  <2>9. journal'[n] = k /\ inv'[n] = i /\ request'[n] = NoRequest /\ host' = host
    BY <2>1 DEF AgentTypeOK
  <2>10. q.phase = "stage" => ~j.backup
    BY <2>1, ReceiptBars DEF NodeInv, BackupInv, Has
  <2>11. q.phase = "prepare" => Has(j, {"stage"})
    BY <2>2 DEF OutOfOrder, Reached
  <2>12. q.phase = "discard-stage" /\ q.reservationOnly => ~Has(j, {"stage"})
    BY <2>2 DEF OutOfOrder, Has, Forward
  <2>13. PendingInv(n)' /\ WholeInv(n)' /\ JournalInv(n)'
    BY <2>1, <2>6, <2>7, <2>9 DEF NodeInv, PendingInv, WholeInv, JournalInv, Invoked, Phase, Phases
  <2>14. BackupInv(n)'
    BY <2>1, <2>6, <2>7, <2>9, <2>10, <2>11, <2>12
       DEF NodeInv, BackupInv, Stands, Phase, Has
  <2>15. ReleasingInv(n)'
    BY <2>2, <2>6, <2>9 DEF NodeInv, ReleasingInv
  <2>16. PhaseInv(n)'
    BY <2>7, <2>9 DEF PhaseInv, Stands, Phase, RollingBack
  <2> QED BY <2>8, <2>13, <2>14, <2>15, <2>16 DEF NodeInv
<1> QED BY <1>1, <1>2, <1>3, <1>4

\* The gateway moves its fence on its own, and may restart at any time.
LEMMA GatewayKeeps ==
    ASSUME AgentTypeOK, NEW n \in Nodes, NodeInv(n),
           GatewayStep(n) \/ GatewayRestarts(n)
    PROVE  AgentTypeOK' /\ NodeInv(n)' /\ \A m \in Nodes \ {n} : Untouched(m)
<1> DEFINE h == host[n]
           j == journal[n]
<1>0. h \in Host /\ j \in Journal /\ inv[n] \in Invocation
  BY DEF AgentTypeOK
<1>1. CASE GatewayDrains(n)
  <2> DEFINE g == [h EXCEPT !.fence = "prepared"]
  <2>1. /\ g \in Host /\ g.fence = "prepared"
        /\ g.pointer = h.pointer /\ g.manifest = h.manifest /\ g.loaded = h.loaded
        /\ g.staged = h.staged
    BY <1>0 DEF Host
  <2>2. h.fence = "draining" /\ host' = [host EXCEPT ![n] = g]
    BY <1>1 DEF GatewayDrains
  <2>3. host'[n] = g
    BY <2>2 DEF AgentTypeOK
  <2> HIDE DEF g
  <2>4. AgentTypeOK' /\ (\A m \in Nodes \ {n} : Untouched(m))
    BY <1>1, <2>1, <2>2 DEF GatewayDrains, AgentTypeOK, Untouched
  <2> QED BY <1>1, <2>1, <2>2, <2>3, <2>4
     DEF GatewayDrains, NodeInv, PendingInv, WholeInv, BackupInv, ReleasingInv, PhaseInv,
         JournalInv, Stands, Invoked, Phase, OnRelease, Disk, Bytes, RollingBack
<1>2. CASE GatewayOpens(n)
  <2> DEFINE g == [h EXCEPT !.fence = "open"]
  <2>1. /\ g \in Host /\ g.fence = "open"
        /\ g.pointer = h.pointer /\ g.manifest = h.manifest /\ g.loaded = h.loaded
        /\ g.staged = h.staged
    BY <1>0 DEF Host
  <2>2. h.fence = "releasing" /\ host' = [host EXCEPT ![n] = g]
    BY <1>2 DEF GatewayOpens
  <2>3. host'[n] = g
    BY <2>2 DEF AgentTypeOK
  <2> HIDE DEF g
  <2>4. AgentTypeOK' /\ (\A m \in Nodes \ {n} : Untouched(m))
    BY <1>2, <2>1, <2>2 DEF GatewayOpens, AgentTypeOK, Untouched
  <2> QED BY <1>2, <2>1, <2>2, <2>3, <2>4
     DEF GatewayOpens, NodeInv, PendingInv, WholeInv, BackupInv, ReleasingInv, PhaseInv,
         JournalInv, Stands, Invoked, Phase, OnRelease, Disk, Bytes, RollingBack
<1>3. CASE GatewayRestarts(n)
  <2>1. PICK f \in IF h.fence = "releasing" THEN {"prepared", "open"} ELSE {h.fence} :
           host' = [host EXCEPT ![n] = [h EXCEPT !.loaded = Bytes(h), !.fence = f]]
    BY <1>3 DEF GatewayRestarts
  <2> DEFINE g == [h EXCEPT !.loaded = Bytes(h), !.fence = f]
             i == [inv[n] EXCEPT !.at = IF @ \in {"fence", "opening"} THEN "broken" ELSE @]
  <2>2. /\ g \in Host /\ g.fence = f /\ g.loaded = Bytes(h)
        /\ g.pointer = h.pointer /\ g.manifest = h.manifest /\ g.staged = h.staged
    BY <1>0, <2>1 DEF Host, Bytes
  <2>3. /\ i \in Invocation /\ i.request = inv[n].request
        /\ i.at = IF inv[n].at \in {"fence", "opening"} THEN "broken" ELSE inv[n].at
    BY <1>0 DEF Invocation, Steps
  <2>4. inv' = [inv EXCEPT ![n] = i] /\ UNCHANGED <<journal, locked, request, answer>>
    BY <1>3 DEF GatewayRestarts
  <2>5. host'[n] = g /\ inv'[n] = i
    BY <2>1, <2>4 DEF AgentTypeOK
  <2>6. faults' \in 0..MaxFaults
    <3>1. faults' = faults + 1 /\ faults < MaxFaults
      BY <1>3 DEF GatewayRestarts, Fault
    <3>2. faults \in 0..MaxFaults
      BY DEF AgentTypeOK
    <3> QED BY <3>1, <3>2, AgentAssumption
  <2> HIDE DEF g, i
  <2>7. host' = [host EXCEPT ![n] = g]
    BY <2>1 DEF g
  <2>8. AgentTypeOK' /\ (\A m \in Nodes \ {n} : Untouched(m))
    BY <2>2, <2>3, <2>4, <2>6, <2>7 DEF AgentTypeOK, Untouched
  <2>9. f \in {h.fence, "prepared", "open"} /\ (f = "open" => h.fence \in {"open", "releasing"})
        /\ (h.fence # "releasing" => f = h.fence) /\ f # "releasing"
    BY <2>1
  <2>10. \A release \in {"old", "new"} : OnRelease(h, release) => OnRelease(g, release)
    BY <2>2 DEF OnRelease, Disk, Bytes
  <2>11. WholeInv(n)'
    BY <1>0, <2>2, <2>5, <2>9 DEF NodeInv, WholeInv, OnRelease, Disk, Bytes, Host
  <2>12. PendingInv(n)' /\ JournalInv(n)'
    BY <2>2, <2>3, <2>4, <2>5, <2>9, <2>10
       DEF NodeInv, PendingInv, JournalInv, Invoked, Phase, Disk, Bytes
  <2>13. BackupInv(n)' /\ ReleasingInv(n)'
    BY <2>2, <2>3, <2>4, <2>5, <2>9 DEF NodeInv, BackupInv, ReleasingInv, Stands, Phase, Bytes, Steps
  <2>14. PhaseInv(n)'
    BY <2>2, <2>3, <2>4, <2>5, <2>9, <2>10
       DEF NodeInv, PhaseInv, Stands, Phase, RollingBack, Disk, Bytes
  <2> QED BY <2>8, <2>11, <2>12, <2>13, <2>14 DEF NodeInv
<1> QED BY <1>1, <1>2, <1>3 DEF GatewayStep

\* A phase is accepted in the place of its request.
LEMMA IdleKeeps ==
    ASSUME AgentTypeOK, NEW n \in Nodes, IdleInv(n),
           AgentStep(n) \/ Die(n) \/ GatewayStep(n) \/ GatewayRestarts(n) \/ AnyCall(n)
    PROVE  IdleInv(n)'
<1>1. inv[n] \in Invocation /\ NoInvocation.at = "none"
  BY DEF AgentTypeOK, NoInvocation
<1>2. CASE AnyCall(n)
  BY <1>2 DEF AnyCall, IdleInv, Invoked
<1>3. CASE Refuse(n) \/ Replay(n) \/ Accept(n)
  BY <1>3 DEF Refuse, Replay, Accept, AgentTypeOK, IdleInv
<1>4. CASE PhaseStep(n) \/ Fail(n) \/ Die(n) \/ GatewayStep(n) \/ GatewayRestarts(n)
  <2>1. request' = request /\ (Invoked(n)' => Invoked(n))
    BY <1>1, <1>4 DEF PhaseStep, Stage, DiscardStage, RequestFence, BackUp, Fenced, SwapPointer,
       SwapManifest, RestartUnit, RepairPair, RollbackIntent, RollbackPointer, RollbackManifest,
       RequestRelease, StepOnHost, StepInJournal, Goto, At, Complete, Concluded, Unlock, Fail, Die,
       GatewayStep, GatewayDrains, GatewayOpens, GatewayRestarts, Invoked, AgentTypeOK, Invocation,
       ReadOnly, Phases
  <2> QED BY <2>1 DEF IdleInv
<1> QED BY <1>2, <1>3, <1>4 DEF AgentStep

\* Every step keeps the invariant.
LEMMA StepIInv == ASSUME IInv, [CallersNext]_agentVars PROVE IInv'
<1>1. CASE UNCHANGED agentVars
  <2>1. AgentTypeOK'
    BY <1>1 DEF agentVars, IInv, AgentTypeOK
  <2>2. \A n \in Nodes : Untouched(n)
    BY <1>1 DEF agentVars, Untouched
  <2> QED BY <2>1, <2>2, UntouchedKeeps DEF IInv
<1>2. ASSUME NEW n \in Nodes,
             AgentStep(n) \/ Die(n) \/ GatewayStep(n) \/ GatewayRestarts(n) \/ AnyCall(n)
      PROVE  IInv'
  <2>1. AgentTypeOK /\ NodeInv(n) /\ IdleInv(n)
    BY DEF IInv
  <2>2. AgentTypeOK' /\ NodeInv(n)' /\ \A m \in Nodes \ {n} : Untouched(m)
    BY <1>2, <2>1, HostKeeps, JournalKeeps, EndKeeps, CallKeeps, GatewayKeeps
       DEF AgentStep, PhaseStep
  <2>3. IdleInv(n)'
    BY <1>2, <2>1, IdleKeeps
  <2> QED BY <2>2, <2>3, UntouchedKeeps DEF IInv
<1> QED BY <1>1, <1>2 DEF CallersNext, AgentNext

\* Every state of the agent satisfies IInv.
THEOREM AgentInvariant == CallersSpec => []IInv
<1>1. AgentInit => IInv
  BY InitIInv
<1>2. IInv /\ [CallersNext]_agentVars => IInv'
  BY StepIInv
<1> QED BY <1>1, <1>2, PTL DEF CallersSpec

-----------------------------------------------------------------------------
(***************************************************************************)
(* A gateway that serves the public runs the release that its pointer and  *)
(* its manifest name (swapPhase, rollbackPhase, releasePhase), whatever    *)
(* calls arrive and wherever phases die.                                   *)
(***************************************************************************)
THEOREM OpenNodesAreWhole == CallersSpec => []OpenIsConsistent
<1>1. IInv => OpenIsConsistent
  BY DEF IInv, NodeInv, WholeInv, OpenIsConsistent
<1> QED BY <1>1, AgentInvariant, PTL

(***************************************************************************)
(* The state that the journal records for the last phase is the state of   *)
(* the node while no intent is pending (writeJournal, withReceipt).        *)
(***************************************************************************)
THEOREM JournalIsTrue == CallersSpec => []JournalTellsTheTruth
<1>1. IInv => JournalTellsTheTruth
  BY DEF IInv, NodeInv, WholeInv, JournalInv, JournalTellsTheTruth, Prepared
<1> QED BY <1>1, AgentInvariant, PTL

(***************************************************************************)
(* The release of a rolled-back node is answered only when the gateway is  *)
(* seen open on the old release: no receipt of an earlier release replaces *)
(* the observation (freshObservation in runPhase).                         *)
(***************************************************************************)
THEOREM RestoredReleasesAreObserved == CallersSpec => RestoredReleaseIsObserved
<1>1. ASSUME IInv, [CallersNext]_agentVars, NEW n \in Nodes,
             answer[n] # "ok", answer'[n] = "ok",
             "release" \in {request[n].phase, Phase(n)}, Has(journal[n], {"rollback"})
      PROVE  host[n].fence = "open" /\ OnRelease(host[n], "old")
  <2>1. NodeInv(n) /\ AgentTypeOK /\ IdleInv(n)
    BY <1>1 DEF IInv
  <2>2. PICK m \in Nodes :
             AgentStep(m) \/ Die(m) \/ GatewayStep(m) \/ GatewayRestarts(m) \/ AnyCall(m)
    BY <1>1 DEF CallersNext, AgentNext, agentVars
  <2>3. m = n /\ (Replay(n) \/ Complete(n) \/ Unlock(n))
    BY <1>1, <2>1, <2>2 DEF AgentStep, PhaseStep, Refuse, Accept, Stage, DiscardStage, RequestFence,
       BackUp, Fenced, SwapPointer, SwapManifest, RestartUnit, RepairPair, RollbackIntent,
       RollbackPointer, RollbackManifest, RequestRelease, StepOnHost, StepInJournal, Complete, Unlock,
       Fail, Die, Answer, GatewayStep, GatewayDrains, GatewayOpens, GatewayRestarts, AnyCall,
       Replay, Refusals, Refusal, AgentTypeOK
  <2>4. CASE Replay(n)
    <3>1. ~Invoked(n) /\ ~FreshObservation(journal[n], request[n])
      BY <2>4 DEF Replay, Refusal, Replayed
    <3>2. request[n].phase # "release"
      BY <1>1, <3>1 DEF FreshObservation
    <3> QED BY <1>1, <2>1, <3>1, <3>2 DEF NodeInv, PendingInv
  <2>5. CASE Complete(n)
    <3>1. Invoked(n) /\ request[n].phase = "none"
      BY <2>1, <2>5, ReceiptHolds DEF Complete, IdleInv, Invoked, NoRequest
    <3>2. Phase(n) # "release"
      BY <1>1, <2>1, <2>5 DEF Complete, Unlocking
    <3> QED BY <1>1, <3>1, <3>2
  <2>6. CASE Unlock(n)
    BY <1>1, <2>1, <2>6 DEF Unlock, IdleInv, NodeInv, PhaseInv, Stands, Invoked, Phase, NoRequest
  <2> QED BY <2>3, <2>4, <2>5, <2>6
<1>2. IInv /\ [CallersNext]_agentVars =>
        [\A n \in Nodes :
          (/\ answer[n] # "ok" /\ answer'[n] = "ok"
           /\ "release" \in {request[n].phase, Phase(n)}
           /\ Has(journal[n], {"rollback"}))
          => host[n].fence = "open" /\ OnRelease(host[n], "old")]_agentVars
  BY <1>1
<1> QED BY <1>2, AgentInvariant, PTL DEF CallersSpec, RestoredReleaseIsObserved
==============================================================================
