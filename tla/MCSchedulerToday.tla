-------------------------- MODULE MCSchedulerToday --------------------------
(* The nodes, usage and projects cards together, loaded once.                *)
EXTENDS Scheduler

\* The three cards together, no machine.
FullConfigs ==
    {c \in [Ids -> Kinds] :
        /\ \A i \in Machines : c[i] = "off"
        /\ c[Nodes] = "nodes" /\ c[Usage] = "usage" /\ c[Projects] = "projects"}

\* collectors/index.js:156 of the nodes poll: "refresh it now, so the two cards never show
\* different "today" figures for a whole poll".
CardsAgree ==
    snapshot[Nodes].online /\ snapshot[Usage].online /\ Usage \notin inflight
        => snapshot[Usage].fresh

=============================================================================
