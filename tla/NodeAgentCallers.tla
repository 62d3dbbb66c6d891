-------------------------- MODULE NodeAgentCallers --------------------------
(***************************************************************************)
(* The release agent under callers that keep no order: any phase, at any   *)
(* time, repeated or late, and phases that die half way.  What the agent   *)
(* promises here it promises by its own checks; a coordinator that loses   *)
(* its place, or an operator who repeats a call, can rely on it.           *)
(***************************************************************************)
EXTENDS NodeReleaseAgent

\* A call.  One that meets a running phase is refused and leaves nothing
\* behind, so only calls of an idle node are made.
AnyCall(n) ==
    /\ request[n] = NoRequest
    /\ ~Invoked(n)
    /\ \E phase \in Phases, generation \in 1..AgentGenerations, flag \in BOOLEAN :
           request' = [request EXCEPT ![n] =
               [phase |-> phase, generation |-> generation,
                restored |-> flag /\ phase \in {"canary", "release"},
                reservationOnly |-> flag /\ phase = "discard-stage"]]
    /\ answer' = [answer EXCEPT ![n] = "none"]
    /\ UNCHANGED <<journal, host, locked, inv, faults>>

CallersNext == AgentNext \/ \E n \in Nodes : AnyCall(n)

CallersSpec == AgentInit /\ [][CallersNext]_agentVars

-----------------------------------------------------------------------------
\* A gateway that serves the public runs the release that its pointer and its
\* manifest both name, whatever calls the node has received and wherever phases
\* have died between the pointer, the manifest, the restart and the release.
OpenIsConsistent ==
    \A n \in Nodes : host[n].fence = "open" => OnRelease(host[n], host[n].loaded)

\* What the journal says of the last phase is still so while nothing is pending:
\* no call that was refused, answered again or interrupted has undone it.
JournalTellsTheTruth ==
    \A n \in Nodes :
        LET j == journal[n]
            h == host[n] IN
        j.pending = "none" =>
            /\ j.state = "prepare" => OnRelease(h, "old") /\ Prepared(h) /\ j.backup
            /\ j.state = "swap" => Disk(h) = "new" /\ Prepared(h)
            /\ j.state = "rollback" => OnRelease(h, "old") /\ Prepared(h)
            /\ j.state = "release" => OnRelease(h, h.loaded) /\ h.fence = "open"

\* A release that is affirmed for a rolled-back node has just been made: the
\* gateway is open and on the old release, and the receipt of the forward
\* release, or of an earlier attempt, is never taken as proof of it.
RestoredReleaseIsObserved ==
    [][\A n \in Nodes :
          (/\ answer[n] # "ok" /\ answer'[n] = "ok"
           /\ "release" \in {request[n].phase, Phase(n)}
           /\ Has(journal[n], {"rollback"}))
          => host[n].fence = "open" /\ OnRelease(host[n], "old")]_agentVars
=============================================================================
