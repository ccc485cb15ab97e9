------------------------------ MODULE FileMapper ------------------------------
(***************************************************************************)
(* default_storage/default_persistent_db.js, the default persistent store: *)
(* an object map in memory that an interval timer writes to one file.      *)
(*                                                                         *)
(* fs.writeFile takes the map as it is when the timer fires, and its       *)
(* callback clears the dirty flag later, whether the write succeeded or    *)
(* not.  A write replaces the file in place: one that fails or is cut      *)
(* short may leave a file that cannot be parsed, and then the program does *)
(* not start again.  The shutdown of lib/general_lifecyle.js looks for     *)
(* app_shutdown and finds the field its constructor set to false.          *)
(***************************************************************************)
EXTENDS Naturals, FiniteSets

CONSTANTS
    Ids, Vals,
    None,
    MaxWrites,      \* bound on the writes under way
    MaxOps,         \* bound on the number of operations
    MaxRestarts     \* bound on the number of restarts

FileMapperAssumption ==
    /\ None \notin Vals /\ None \notin [Ids -> Vals \cup {None}]
    /\ MaxWrites \in Nat /\ MaxOps \in Nat /\ MaxRestarts \in Nat

VARIABLES
    map,        \* storage_map
    dirty,
    file,       \* the map in db_file, or None if it cannot be parsed
    writes,     \* the maps of the writes under way
    exposed,    \* history: created, changed during a write or hit by a failed
                \* one, and in no write since
    running,
    ops, restarts

vars == <<map, dirty, file, writes, exposed, running, ops, restarts>>

Map == [Ids -> Vals \cup {None}]

Init ==
    /\ file \in Map
    /\ map = file
    /\ dirty = FALSE
    /\ writes = {}
    /\ exposed = {}
    /\ running = TRUE
    /\ ops = 0 /\ restarts = 0

Calls == running /\ ops < MaxOps /\ ops' = ops + 1

(* Changes a write under way or a clear flag will not account for. *)
Exposes(id) == exposed' = IF writes # {} THEN exposed \cup {id} ELSE exposed

(* An object that exists is reported and overwritten all the same; the     *)
(* map does not become dirty.                                              *)
Create(id, v) ==
    /\ Calls
    /\ map' = [map EXCEPT ![id] = v]
    /\ exposed' = exposed \cup {id}
    /\ UNCHANGED <<dirty, file, writes, running, restarts>>

(* Mutant: the map does not become dirty. *)
Unmarked == dirty

Marked == TRUE

(* An object that does not exist is reported and stored all the same. *)
Update(id, v) ==
    /\ Calls
    /\ map' = [map EXCEPT ![id] = v]
    /\ dirty' = Marked
    /\ Exposes(id)
    /\ UNCHANGED <<file, writes, running, restarts>>

Delete(id) ==
    /\ Calls
    /\ map' = [map EXCEPT ![id] = None]
    /\ dirty' = TRUE
    /\ Exposes(id)
    /\ UNCHANGED <<file, writes, running, restarts>>

(* The timer fires; it does not wait for an earlier write. *)
Stash ==
    /\ running /\ dirty
    /\ Cardinality(writes) < MaxWrites
    /\ writes' = writes \cup {map}
    /\ exposed' = IF writes = {} THEN {} ELSE exposed
    /\ UNCHANGED <<map, dirty, file, running, ops, restarts>>

(* A write ends; one that failed is not noticed. *)
Written ==
    \E m \in writes :
        /\ writes' = writes \ {m}
        /\ \/ /\ file' = m
              /\ UNCHANGED exposed
           \/ /\ file' \in {file, None}
              /\ exposed' = Ids
        /\ dirty' = FALSE
        /\ UNCHANGED <<map, running, ops, restarts>>

(* SIGINT or a crash: nothing of the map is written, and what was being    *)
(* written may be cut short.                                               *)
Stops ==
    /\ running
    /\ restarts < MaxRestarts
    /\ running' = FALSE
    /\ map' = [id \in Ids |-> None]
    /\ dirty' = FALSE
    /\ writes' = {}
    /\ file' \in {file} \cup (IF writes = {} THEN {} ELSE {None})
    /\ UNCHANGED <<exposed, ops, restarts>>

(* Mutant: the map is left undefined. *)
Unread == None

Loaded == file

(* A file that cannot be parsed ends the process. *)
Starts ==
    /\ ~running /\ file # None
    /\ running' = TRUE
    /\ restarts' = restarts + 1
    /\ map' = Loaded
    /\ exposed' = {}
    /\ UNCHANGED <<dirty, file, writes, ops>>

Next ==
    \/ \E id \in Ids, v \in Vals : Create(id, v) \/ Update(id, v)
    \/ \E id \in Ids : Delete(id)
    \/ Stash \/ Written \/ Stops \/ Starts

Spec == Init /\ [][Next]_vars

(* The timer keeps firing and writes end. *)
FairSpec == Spec /\ WF_vars(Stash) /\ WF_vars(Written)

-----------------------------------------------------------------------------
(* Properties. *)

(* Every variable has its type. *)
TypeOK ==
    /\ map \in Map /\ file \in Map \cup {None}
    /\ dirty \in BOOLEAN /\ running \in BOOLEAN
    /\ writes \subseteq Map
    /\ exposed \subseteq Ids
    /\ ops \in 0..MaxOps /\ restarts \in 0..MaxRestarts

(* What the dirty flag is worth: with the flag down and no write under     *)
(* way, every object is in the file as it is in memory, but for those      *)
(* that no write has taken since they were created (create leaves the flag *)
(* down), changed during a write or hit by a failed write.                 *)
CleanIsOnDisk ==
    running /\ ~dirty /\ writes = {} =>
        \A id \in Ids \ exposed : file # None /\ file[id] = map[id]

(* What update stores while no write is under way reaches the file, unless *)
(* it is replaced or deleted, a write fails, or the process ends first;    *)
(* so does what create stored, once a write has taken it.                  *)
MapReachesFile ==
    \A id \in Ids, v \in Vals :
        running /\ id \notin exposed /\ map[id] = v
            ~> \/ file # None /\ file[id] = v
               \/ map[id] # v \/ id \in exposed \/ ~running
=============================================================================
