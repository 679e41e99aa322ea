------------------------------- MODULE MCQueues -------------------------------
(***************************************************************************)
(* The two work queues whose liveness is checked, each in its own           *)
(* behaviours: the first state chooses the queue that runs and the other    *)
(* stays at rest.                                                           *)
(***************************************************************************)
EXTENDS CraneDelivery, GigaQueue

CONSTANTS e1, w1, w2

VARIABLE part

queuesVars == <<vars, gigaVars, part>>

QueuesInit == part \in {"crane", "giga"} /\ Init /\ GigaInit

Crane(A) == part = "crane" /\ A /\ UNCHANGED <<gigaVars, part>>
Giga(A) == part = "giga" /\ A /\ UNCHANGED <<vars, part>>

QueuesNext == Crane(Next) \/ Giga(GigaNext)

\* CraneDelivery's Fairness and GigaFairness, each while its queue runs.
QueuesFairness ==
    /\ \A w \in Worker : WF_vars(Crane(Tick(w))) /\ WF_vars(Crane(Start(w)))
    /\ \A e \in Event : WF_vars(Crane(LeaseLapses(e)))
    /\ \A c \in Copy : WF_vars(Crane(Return(c)))
    /\ \A w \in GigaWorkers : WF_gigaVars(Giga(WorkerStep(w)))
    /\ \A e \in GigaEvents : WF_gigaVars(Giga(LeaseRunsOut(e))) /\ WF_gigaVars(Giga(RetryDue(e)))

QueuesSpec == QueuesInit /\ [][QueuesNext]_queuesVars /\ QueuesFairness
=============================================================================
