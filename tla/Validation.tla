----------------------------- MODULE Validation -----------------------------
(***************************************************************************)
(* The validation a reconcile runs before it updates the status: it pings  *)
(* the pods it listed as ready, writes a test node to its write instance,  *)
(* looks for the value on every other pod, deletes the node, and stores    *)
(* the verdict.  The reconcile is that of module Election, the data that   *)
(* of module DataPlane: the test write is a commit like any other.         *)
(*                                                                         *)
(* There is one test node.  tests and cleanups are the commits that set    *)
(* its value and that delete it.                                           *)
(***************************************************************************)
EXTENDS DataPlane

VARIABLES
    vpc,            \* next step of the validation; "idle": not running
    listed,         \* pods the reconcile listed as ready
    several,        \* it listed more than one pod
    connectivity,   \* result.ConnectivityPassed
    replication,    \* result.ReplicationPassed
    value,          \* the commit of testValue, 0: not written
    unread,         \* replicas that are still to be read
    received,       \* replicas on which testValue was found
    wasRunning,     \* phase Running was published, a copy may say so
    recent,         \* lastConnectivityTest is less than 30 s ago
    tests,
    cleanups

resultVars == <<connectivity, replication, value, unread, received>>
nodeVars   == <<tests, cleanups>>
statusVars == <<wasRunning, recent>>
validationVars == <<vpc, listed, several, resultVars, statusVars, nodeVars>>
vars == <<electionVars, dataVars, validationVars>>

TypeOK ==
    /\ DataTypeOK
    /\ vpc \in {"idle", "ping", "write", "read", "cleanup", "status"}
    /\ listed \subseteq Pods
    /\ several \in BOOLEAN
    /\ connectivity \in BOOLEAN
    /\ replication \in BOOLEAN
    /\ value \in 0 .. commits
    /\ unread \subseteq listed \ {choice}
    /\ received \subseteq Instances
    /\ wasRunning \in BOOLEAN
    /\ recent \in BOOLEAN
    /\ tests \subseteq Commits
    /\ cleanups \subseteq Commits

NoResult ==
    /\ connectivity' = TRUE
    /\ replication' = TRUE
    /\ value' = 0
    /\ unread' = {}
    /\ received' = {}

Init ==
    /\ DataInit
    /\ vpc = "idle"
    /\ listed = {}
    /\ several = FALSE
    /\ connectivity = TRUE
    /\ replication = TRUE
    /\ value = 0
    /\ unread = {}
    /\ received = {}
    /\ wasRunning = FALSE
    /\ recent = FALSE
    /\ tests = {}
    /\ cleanups = {}

-----------------------------------------------------------------------------
(* The reconcile around the validation.                                    *)

ListPods ==
    /\ vpc = "idle"
    /\ \E p \in Pods \cup {NoPod} : Choose(p)
    /\ listed' = ready
    /\ several' \in {TRUE, Cardinality(ready) > 1}
    /\ UNCHANGED <<dataVars, vpc, resultVars, statusVars, nodeVars>>

\* The write service is left out: the validation goes to the pods directly.
Configure ==
    /\ vpc = "idle"
    /\ \/ Promote
       \/ \E p \in Instances : Demote(p) \/ Register(p)
       \/ \E stale \in SUBSET Instances : Unregister(stale)
    /\ UNCHANGED <<dataVars, validationVars>>

\* The phase in the reconcile's copy of the status is Running, which says
\* nothing about the pods it has just listed.
StartValidation ==
    /\ vpc = "idle"
    /\ wasRunning /\ ~recent
    /\ NoResult
    /\ vpc' = "ping"
    /\ UNCHANGED <<electionVars, dataVars, listed, several, statusVars,
                   nodeVars>>

-----------------------------------------------------------------------------
(* RunValidation and testReplicationLag.                                   *)

\* A ping of an instance may fail, one of a Job pod always does.
Ping ==
    /\ vpc = "ping"
    /\ connectivity' \in {FALSE, listed \cap JobPods = {}}
    /\ vpc' = IF choice # NoPod /\ several THEN "write" ELSE "status"
    /\ UNCHANGED <<electionVars, dataVars, listed, several, replication, value,
                   unread, received, statusVars, nodeVars>>

CommitTest ==
    /\ choice \in Instances
    /\ Commit(choice)
    /\ tests' = tests \cup {commits'}
    /\ UNCHANGED cleanups

\* Mutant of WriteTestValue: the write instance is read as a replica.
MutantMainRead ==
    /\ vpc = "write"
    /\ CommitTest
    /\ value' = commits'
    /\ unread' = listed
    /\ vpc' = IF unread' = {} THEN "cleanup" ELSE "read"
    /\ UNCHANGED <<electionVars, listed, several, connectivity, replication,
                   received, statusVars>>

WriteTestValue ==
    /\ vpc = "write"
    /\ CommitTest
    /\ value' = commits'
    /\ unread' = listed \ {choice}
    /\ vpc' = IF unread' = {} THEN "cleanup" ELSE "read"
    /\ UNCHANGED <<electionVars, listed, several, connectivity, replication,
                   received, statusVars>>

\* Mutant of WriteTestValueFails: the error is logged, not recorded.
MutantWriteErrorLogged ==
    /\ vpc = "write"
    /\ CommitTest \/ UNCHANGED <<dataVars, nodeVars>>
    /\ vpc' = "status"
    /\ UNCHANGED <<electionVars, listed, several, connectivity, replication,
                   value, unread, received, statusVars>>

\* A REPLICA refuses the write, a Job pod has no mgconsole, or the answer of
\* a write that went through is lost.
WriteTestValueFails ==
    /\ vpc = "write"
    /\ CommitTest \/ UNCHANGED <<dataVars, nodeVars>>
    /\ replication' = FALSE
    /\ vpc' = "status"
    /\ UNCHANGED <<electionVars, listed, several, connectivity, value, unread,
                   received, statusVars>>

\* The value of the test node on an instance.
TestNode(p) ==
    {t \in tests \cap data[p] :
        \A c \in (tests \cup cleanups) \cap data[p] : c <= t}

\* strings.Contains(output, testValue)
Contains(p) == value \in TestNode(p)

ReadReplica(p) ==
    /\ vpc = "read"
    /\ p \in unread
    /\ unread' = unread \ {p}
    /\ vpc' = IF unread' = {} THEN "cleanup" ELSE "read"
    /\ \/ UNCHANGED <<replication, received>>   \* cannot be read: logged
       \/ /\ p \in Instances
          /\ Contains(p)                        \* same timestamp: no lag
          /\ received' = received \cup {p}
          /\ UNCHANGED replication
       \/ /\ p \in Instances
          /\ ~Contains(p)                       \* lag: the time so far
          /\ replication' \in {replication, FALSE}
          /\ UNCHANGED received
    /\ UNCHANGED <<electionVars, dataVars, listed, several, connectivity, value,
                   statusVars, nodeVars>>

\* Best effort: an error is ignored.
Cleanup ==
    /\ vpc = "cleanup"
    /\ \/ /\ TestNode(choice) # {}
          /\ Commit(choice)
          /\ cleanups' = cleanups \cup {commits'}
          /\ UNCHANGED tests
       \/ UNCHANGED <<dataVars, nodeVars>>
    /\ vpc' = "status"
    /\ UNCHANGED <<electionVars, listed, several, resultVars, statusVars>>

ValidationStep ==
    \/ Ping \/ WriteTestValue \/ WriteTestValueFails
    \/ \E p \in Pods : ReadReplica(p)
    \/ Cleanup

-----------------------------------------------------------------------------
(* The status update ends the reconcile.                                   *)

\* status.validation.allReplicasHealthy of the update; only its time is
\* ever read back.
AllReplicasHealthy == connectivity /\ replication

EndReconcile ==
    /\ choice' = NoPod
    /\ vpc' = "idle"
    /\ listed' = {}
    /\ several' = FALSE
    /\ NoResult

\* It goes through only with a current copy of the status, which either
\* replaces the main, if it was found not ready, or confirms it.
UpdateStatus ==
    /\ vpc \in {"idle", "status"}
    /\ Publish \/ (choice = main /\ GiveUp)
    /\ recent' = (recent \/ vpc = "status")
    /\ wasRunning' \in {wasRunning, wasRunning \/ listed # {}}
    /\ EndReconcile
    /\ UNCHANGED <<dataVars, nodeVars>>

\* A conflict, a failing call or the end of the operator: the result is
\* lost and the next reconcile validates again.
Abort ==
    /\ GiveUp
    /\ EndReconcile
    /\ UNCHANGED <<dataVars, statusVars, nodeVars>>

\* 30 seconds have passed.
Elapse ==
    /\ recent
    /\ recent' = FALSE
    /\ UNCHANGED <<electionVars, dataVars, vpc, listed, several, resultVars,
                   wasRunning, nodeVars>>

Next ==
    \/ ListPods \/ Configure \/ StartValidation \/ ValidationStep
    \/ UpdateStatus \/ Abort \/ Elapse
    \/ DataEnvironment /\ UNCHANGED validationVars

Spec == Init /\ [][Next]_vars

-----------------------------------------------------------------------------
(* Properties.                                                             *)

Publishes == vpc = "status" /\ recent' /\ ~recent

\* A validation of several pods that passed has written through the main
\* that is published with it: whatever happened to the roles since the
\* election, that instance was a MAIN while it was validated, and holds the
\* write unless an instance has restarted.
PassedMeansMainAcceptsWrites ==
    [][Publishes /\ AllReplicasHealthy /\ several /\ choice # NoPod
       => /\ main' = choice
          /\ value \in tests
          /\ value \in data[main'] \/ restarts > 0]_vars

\* The doc of allReplicasHealthy: all replicas passed health checks, so the
\* test value was found on every replica the validation was about.
PassedMeansReplicated ==
    [][Publishes /\ AllReplicasHealthy /\ several /\ choice # NoPod
       => listed \ {choice} \subseteq received]_vars
=============================================================================
