--------------------------- MODULE ConsumerGroup ----------------------------
(***************************************************************************)
(* A consumer of the C++ modules in its Kafka group: subscribe, which      *)
(* polls until the group has assigned its partitions, and the rebalance    *)
(* callback that poll serves afterwards (KafkaConsumer.h).  The broker's   *)
(* half, the join of all members, is external.  A topic of sEngine has one *)
(* partition; a consumer is known by its process and its module, and the   *)
(* consumers of one module form one group.                                 *)
(***************************************************************************)
EXTENDS Naturals

CONSTANTS
    Processes,
    Groups,       \* the modules that read a topic
    Nobody        \* no owner

Consumers == Processes \X Groups

VARIABLES
    member,       \* member[c]: where c is in its group, see MemberStates
    assigned,     \* assigned[c]: _assignment holds the partition
    pendingEvent, \* pendingEvent[c]: PartitionsAssignment is awaited
    owner,        \* owner[g]: the member the broker gave the partition to
    rebalancing,  \* rebalancing[g]: the members have to join again
    ghosts        \* ghosts[g]: members whose process has ended, not timed out yet

groupVars == <<member, assigned, pendingEvent, owner, rebalancing, ghosts>>

\* "given": the assignment is known, the callback not served yet; "kicked": it was
\* away from poll for too long, and has not seen it yet.
MemberStates == {"out", "joining", "given", "in", "kicked"}

ASSUME GroupAssumption == Nobody \notin Processes

GroupInit ==
    /\ member = [c \in Consumers |-> "out"]
    /\ assigned = [c \in Consumers |-> FALSE]
    /\ pendingEvent = [c \in Consumers |-> FALSE]
    /\ owner = [g \in Groups |-> Nobody]
    /\ rebalancing = [g \in Groups |-> FALSE]
    /\ ghosts = [g \in Groups |-> 0]

Members(g) == {p \in Processes : member[<<p, g>>] \notin {"out", "kicked"}}

(***************************************************************************)
(* The broker.                                                             *)
(***************************************************************************)

\* All that are counted as members have joined: one of them gets the partition.
Join(g) ==
    /\ rebalancing[g]
    /\ ghosts[g] = 0
    /\ Members(g) # {}
    /\ \A p \in Members(g) : member[<<p, g>>] = "joining"
    /\ \E p \in Members(g) : owner' = [owner EXCEPT ![g] = p]
    /\ member' = [c \in Consumers |->
                     IF c[2] = g /\ c[1] \in Members(g) THEN "given" ELSE member[c]]
    /\ rebalancing' = [rebalancing EXCEPT ![g] = FALSE]
    /\ UNCHANGED <<assigned, pendingEvent, ghosts>>

\* session.timeout.ms after its process ended a member is forgotten.
SessionTimeout(g) ==
    /\ ghosts[g] > 0
    /\ ghosts' = [ghosts EXCEPT ![g] = @ - 1]
    /\ rebalancing' = [rebalancing EXCEPT ![g] = Members(g) # {}]
    /\ UNCHANGED <<member, assigned, pendingEvent, owner>>

\* max.poll.interval.ms without a poll.
Kick(c) ==
    /\ member[c] = "in"
    /\ member' = [member EXCEPT ![c] = "kicked"]
    /\ rebalancing' = [rebalancing EXCEPT ![c[2]] = Members(c[2]) # {c[1]}]
    /\ UNCHANGED <<assigned, pendingEvent, owner, ghosts>>

\* Process p ends, and closes none of its consumers.
Vanish(p) ==
    /\ member' = [c \in Consumers |-> IF c[1] = p THEN "out" ELSE member[c]]
    /\ assigned' = [c \in Consumers |-> c[1] # p /\ assigned[c]]
    /\ pendingEvent' = [c \in Consumers |-> c[1] # p /\ pendingEvent[c]]
    /\ ghosts' = [g \in Groups |-> ghosts[g] + (IF p \in Members(g) THEN 1 ELSE 0)]
    /\ UNCHANGED <<owner, rebalancing>>

(***************************************************************************)
(* The consumer.                                                           *)
(***************************************************************************)
Rejoin(c) ==
    /\ member' = [member EXCEPT ![c] = "joining"]
    /\ rebalancing' = [rebalancing EXCEPT ![c[2]] = TRUE]

\* subscribe, before its loop.
Subscribe(c) ==
    /\ member[c] = "out"
    /\ Rejoin(c)
    /\ pendingEvent' = [pendingEvent EXCEPT ![c] = TRUE]
    /\ UNCHANGED <<assigned, owner, ghosts>>

\* onRebalance, served by a poll: the eager protocol first revokes everything.
\* Not in the code: the assignment stays when it is revoked.
BugOnRevoked(c) ==
    /\ \/ member[c] = "in" /\ rebalancing[c[2]]
       \/ member[c] = "kicked"
    /\ Rejoin(c)
    /\ UNCHANGED <<assigned, pendingEvent, owner, ghosts>>

OnRevoked(c) ==
    /\ \/ member[c] = "in" /\ rebalancing[c[2]]
       \/ member[c] = "kicked"
    /\ Rejoin(c)
    /\ assigned' = [assigned EXCEPT ![c] = FALSE]
    /\ UNCHANGED <<pendingEvent, owner, ghosts>>

OnAssigned(c) ==
    /\ member[c] = "given"
    /\ member' = [member EXCEPT ![c] = "in"]
    /\ assigned' = [assigned EXCEPT ![c] = (owner[c[2]] = c[1])]
    /\ pendingEvent' = [pendingEvent EXCEPT ![c] = FALSE]
    /\ UNCHANGED <<owner, rebalancing, ghosts>>
=============================================================================
