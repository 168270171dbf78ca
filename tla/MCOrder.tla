------------------------------- MODULE MCOrder -------------------------------
(***************************************************************************)
(* An instance for TLC of the linked list, of the ordered map that is made *)
(* of it, and of the order of the active PRs, for which the map is used.   *)
(* They do not interact and are checked side by side: "part" is the one    *)
(* that moves.  The list is extended; the map shares its variables.        *)
(***************************************************************************)
EXTENDS LinkedList

CONSTANTS Key, Rank, PR, Priority, Minute, FourHours, MaxTime, MaxSuspends, MaxUpdates

VARIABLES
    part,                                                           \* "list", "map", "queue"
    m, loop, cursor, visited,                                       \* of the map
    order, suspended, info, now, phase, updates, changed            \* of the queue

Map == INSTANCE OrderedMap

Queue == INSTANCE ActiveOrder

ASSUME InstanceAssumption == Map!MapAssumption /\ Queue!OrderAssumption

mapVars == <<m, loop, cursor, visited>>
queueVars == <<order, suspended, info, now, phase, updates, changed>>
allVars == <<part, vars, mapVars, queueVars>>

OrderInit ==
    /\ part \in {"list", "map", "queue"}
    /\ IF part = "map" THEN Map!Init /\ copy = Idle
       ELSE /\ m = <<>> /\ loop = "idle" /\ cursor = Nil /\ visited = <<>>
            /\ Init /\ (part = "queue" => value = [x \in Element |-> CHOOSE v \in Value : TRUE])
    /\ Queue!Init

OrderNext ==
    /\ UNCHANGED part
    /\ \/ part = "list" /\ Next /\ UNCHANGED <<mapVars, queueVars>>
       \/ part = "map" /\ Map!Next /\ UNCHANGED <<copy, queueVars>>
       \/ part = "queue" /\ Queue!Next /\ UNCHANGED <<vars, mapVars>>

OrderSpec == OrderInit /\ [][OrderNext]_allVars

-----------------------------------------------------------------------------
(* The map's index and its list have the same elements, whatever is inserted,  *)
(* dequeued, sorted and looped over (orderedmap.go:34-43, 73-81).              *)
IndexMatches == part = "map" => Map!TypeOK /\ Map!IndexMatches

(* Pointers, index and insertion of the map are the order of keys that its     *)
(* comments promise (orderedmap.go:20-22, 31-33, 98-104).                      *)
ImplementsKeyOrder ==
    /\ part = "map" => Map!KeyOrder!Init
    /\ [][part = "map" => [Map!KeyOrder!Next]_(Map!KeyOrder!vars)]_allVars

(* Whenever no update of priorities is under way, the PRs behind the first one *)
(* are ordered by priority, although updates are stored one by one while PRs   *)
(* enter, leave, are suspended and resumed (coordinator.go:1191-1210).         *)
PrioritiesRespected == Queue!TypeOK /\ Queue!PrioritiesRespected

(* Inserting and sorting keep the first PR, for which CI jobs are running, at  *)
(* its place, whatever the priorities of the others (queue.go:231).            *)
FirstIsStatic == Queue!FirstIsStatic

=============================================================================
