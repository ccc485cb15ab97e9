----------------------------- MODULE KeyValueDB -----------------------------
(***************************************************************************)
(* default_storage/key_value_db.js: an in-memory table in front of JSON    *)
(* files, each file holding the keys that share a prefix.                  *)
(*                                                                         *)
(* Two interval timers, which the configuration may set, work behind the   *)
(* operations: one moves values from the table to the files when the table *)
(* is large, the other takes deleted keys out of the files.  setInterval   *)
(* does not wait for an async callback, so several activations of either   *)
(* may be under way; Cullers and Removers say how many.  Between two       *)
(* awaits an activation runs alone.                                        *)
(*                                                                         *)
(* External: FileOperationsCache (extra-file-class).  It is modelled from  *)
(* its use: a load yields a map the caller may change, or nothing when the *)
(* file does not exist; output_json replaces the file's map.               *)
(***************************************************************************)
EXTENDS Naturals, Sequences, FiniteSets

CONSTANTS
    Keys, Vals, Files,
    FileOf,         \* FileOf[k]: the file of k's prefix
    FilesAtStart,   \* files that exist when the process first starts
    None,           \* no value
    NoFile,         \* no such file
    Setups,         \* sets of: "cull" and "remove", the timers configured;
                    \* "get" and "shutdown", what is called beside set and delete;
                    \* "fresh", a first deployment, without files
    Cullers,        \* activations of the memory check
    Removers,       \* activations of the removal timer
    Stopper,        \* the activation of shutdown()
    Getters,        \* activations of get()
    MaxInMem,       \* conf.max_in_mem
    ReleaseSize,    \* conf.release_size
    MaxOps,         \* bound on the number of operations and ends of the process
    MaxRestarts     \* bound on the number of restarts

ASSUME KeyValueAssumption ==
    /\ IsFiniteSet(Keys)
    /\ FileOf \in [Keys -> Files]
    /\ FilesAtStart \subseteq Files
    /\ Setups \subseteq SUBSET {"cull", "remove", "get", "shutdown", "fresh"}
    /\ None \notin Vals \cup Keys
    /\ NoFile \notin [Keys -> Vals \cup {None}]
    /\ Stopper \notin Cullers \cup Removers
    /\ MaxInMem \in Nat /\ ReleaseSize \in Nat /\ MaxOps \in Nat
    /\ MaxRestarts \in Nat
    \* a larger release_size makes the memory check index past the keys
    /\ 1 <= ReleaseSize /\ ReleaseSize <= MaxInMem + 1

VARIABLES
    setup,      \* the configuration and use of this deployment
    table,      \* table[k]: value in memory
    disk,       \* disk[f]: map stored in file f
    toRemove,   \* keys_to_remove
    cull,       \* cull[c]: an activation of persistence_store_and_cull
    rem,        \* rem[r]: an activation of remove_when
    getter,     \* getter[g]: an activation of get
    run,        \* "up"; "stopping", then "storing" after shutdown(); how it ended
    latest,     \* history: what the last operation on each key left, or what
                \* the files held at start-up
    unsure,     \* history: keys whose value somebody else may take out of
                \* the file after it was written
    opsDone, restarts

vars == <<setup, table, disk, toRemove, cull, rem, getter, run, latest, unsure,
          opsDone, restarts>>

Map == [Keys -> Vals \cup {None}]
Empty == [k \in Keys |-> None]
NoStores == [f \in Files |-> NoFile]

NoCull == [pc |-> "idle", ks |-> {}, left |-> 0, key |-> None, val |-> None,
           stores |-> NoStores]
NoRem == [pc |-> "idle", key |-> None, map |-> Empty]
NoGet == [pc |-> "idle", key |-> None, answer |-> None]

OnDisk(k) == IF disk[FileOf[k]] = NoFile THEN None ELSE disk[FileOf[k]][k]

Present == IF "fresh" \in setup THEN {} ELSE FilesAtStart

(* The files hold whatever earlier runs of the program left in them. *)
Init ==
    /\ setup \in Setups
    /\ table = Empty
    /\ \E was \in {m \in Map : \A k \in Keys : FileOf[k] \notin Present
                                              => m[k] = None} :
          /\ disk = [f \in Files |->
                       IF f \notin Present THEN NoFile
                       ELSE [k \in Keys |-> IF FileOf[k] = f THEN was[k] ELSE None]]
          /\ latest = was
    /\ unsure = {}
    /\ toRemove = <<>>
    /\ cull = [c \in Cullers \cup {Stopper} |-> NoCull]
    /\ rem = [r \in Removers \cup {Stopper} |-> NoRem]
    /\ getter = [g \in Getters |-> NoGet]
    /\ run = "up"
    /\ opsDone = 0
    /\ restarts = 0

Counted == opsDone < MaxOps /\ opsDone' = opsDone + 1

Calls(op) ==
    /\ op \in setup \cup {"set", "delete"}
    /\ run \notin {"exited", "crashed"}
    /\ Counted

-----------------------------------------------------------------------------
(* Who may write k's file without having read what is in it now: a cull    *)
(* that has k in its snapshot or in hand, and whoever has loaded the file  *)
(* or is about to create it.                                               *)

(* What activation c of the cull will leave in k's file. *)
Carries(c, k) ==
    \/ cull[c].pc \in {"load", "create"} /\ cull[c].key = k
    \/ cull[c].stores[FileOf[k]] # NoFile

Carried(c, k) ==
    IF cull[c].pc \in {"load", "create"} /\ cull[c].key = k THEN cull[c].val
    ELSE cull[c].stores[FileOf[k]][k]

CullHolds(c, k) ==
    \/ k \in cull[c].ks \/ Carries(c, k)
    \/ cull[c].pc = "create" /\ FileOf[cull[c].key] = FileOf[k]

RemHolds(r, k) == rem[r].pc = "write" /\ FileOf[rem[r].key] = FileOf[k]

GetHolds(g, k) == getter[g].pc = "create" /\ FileOf[getter[g].key] = FileOf[k]

(* The values of file f that c writes while another holds the file: the    *)
(* last one to write decides about them.                                   *)
Disputed(f, c) ==
    {k \in Keys :
        /\ FileOf[k] = f /\ table[k] = None
        /\ \/ \E d \in DOMAIN cull \ {c} : CullHolds(d, k)
           \/ \E r \in DOMAIN rem : RemHolds(r, k)
           \/ \E g \in Getters : GetHolds(g, k)}

-----------------------------------------------------------------------------
(* Operations. *)

Planned(k) == \E i \in DOMAIN toRemove : toRemove[i] = k

(* A removal that was planned before goes on all the same. *)
Set(k, v) ==
    /\ Calls("set")
    /\ table' = [table EXCEPT ![k] = v]
    /\ latest' = [latest EXCEPT ![k] = v]
    /\ unsure' = IF Planned(k) \/ \E r \in DOMAIN rem : rem[r].key = k
                 THEN unsure \cup {k} ELSE unsure \ {k}
    /\ UNCHANGED <<setup, disk, toRemove, cull, rem, getter, run, restarts>>

(* The key leaves the table now and its file at a later removal. *)
Delete(k) ==
    /\ Calls("delete")
    /\ table' = [table EXCEPT ![k] = None]
    /\ toRemove' = Append(toRemove, k)
    /\ latest' = [latest EXCEPT ![k] = None]
    /\ UNCHANGED <<setup, disk, cull, rem, getter, run, unsure, restarts>>

(* Mutant: the key instead of the value. *)
GetToKey(g, k, pc, ans) ==
    getter' = [getter EXCEPT ![g] = [pc |-> pc, key |-> k, answer |-> k]]

GetTo(g, k, pc, ans) ==
    getter' = [getter EXCEPT ![g] = [pc |-> pc, key |-> k, answer |-> ans]]

(* get and exists up to the load of the file. *)
Get(g, k) ==
    /\ getter[g].pc \in {"idle", "answered"}
    /\ Calls("get")
    /\ IF table[k] # None \/ Planned(k)
       THEN GetTo(g, k, "answered", table[k])
       ELSE GetTo(g, k, "load", None)
    /\ UNCHANGED <<setup, table, disk, toRemove, cull, rem, run, latest, unsure, restarts>>

(* Mutant: the second look is at the file. *)
LookInFile(k, map) == map[k]

(* exists found the key in its file: get looks again, but in the table. *)
SecondLook(k, map) == IF map[k] # None THEN table[k] ELSE None

(* load_data_category answered. *)
GetLoads(g) ==
    LET k == getter[g].key
        map == disk[FileOf[k]]
    IN
    /\ getter[g].pc = "load"
    /\ \/ /\ map = NoFile
          /\ GetTo(g, k, "create", None)
       \/ /\ map # NoFile
          /\ GetTo(g, k, "answered", SecondLook(k, map))
    /\ UNCHANGED <<setup, table, disk, toRemove, cull, rem, run, latest, unsure, opsDone,
                   restarts>>

(* A file that did not exist at the load is created empty. *)
GetCreates(g) ==
    LET k == getter[g].key IN
    /\ getter[g].pc = "create"
    /\ disk' = [disk EXCEPT ![FileOf[k]] = Empty]
    /\ GetTo(g, k, "answered", None)
    /\ UNCHANGED <<setup, table, toRemove, cull, rem, run, latest, unsure, opsDone,
                   restarts>>

-----------------------------------------------------------------------------
(* persistence_store_and_cull. *)

(* The loop from one await to the next: keys whose file is loaded move from *)
(* the table to the loaded maps without a pause, up to a key whose file    *)
(* must be loaded first or to the end of the count.  A key deleted since   *)
(* the snapshot moves as undefined, which JSON drops.  Which keys go first *)
(* depends on the table's order and get_random_index; any choice is taken. *)
CullLoop(c, stores, ks, left) ==
    \E moved \in SUBSET {k \in ks : stores[FileOf[k]] # NoFile} :
        LET n == Cardinality(moved)
            filled == [f \in Files |->
                         IF stores[f] = NoFile THEN NoFile
                         ELSE [k \in Keys |-> IF k \in moved /\ FileOf[k] = f
                                              THEN table[k] ELSE stores[f][k]]]
            gone(more) == [k \in Keys |-> IF k \in moved \cup more THEN None
                                          ELSE table[k]]
        IN \/ /\ n = left
              /\ table' = gone({})
              /\ cull' = [cull EXCEPT ![c] = [NoCull EXCEPT
                              !.pc = IF filled = NoStores THEN "idle" ELSE "write",
                              !.stores = filled]]
           \/ /\ n < left
              /\ \E k \in ks \ moved :
                    /\ stores[FileOf[k]] = NoFile
                    /\ table' = gone({k})
                    /\ cull' = [cull EXCEPT ![c] =
                                  [pc |-> "load", ks |-> ks \ (moved \cup {k}),
                                   left |-> left - n - 1, key |-> k,
                                   val |-> table[k], stores |-> filled]]

InTable == {k \in Keys : table[k] # None}

(* Mutant: one key too many is tolerated. *)
CrowdedLate == Cardinality(InTable) > MaxInMem + 1

Crowded == Cardinality(InTable) > MaxInMem

(* The timer fires; a small table is left alone. *)
MemCheck(c) ==
    /\ run = "up" /\ "cull" \in setup
    /\ cull[c].pc = "idle"
    /\ Crowded
    /\ CullLoop(c, NoStores, InTable, ReleaseSize)
    /\ UNCHANGED <<setup, disk, toRemove, rem, getter, run, latest, unsure, opsDone, restarts>>

(* Mutant: the file's other keys are not merged in. *)
CullHasAlone(c, map) ==
    LET s == cull[c] IN
    CullLoop(c, [s.stores EXCEPT ![FileOf[s.key]] = [Empty EXCEPT ![s.key] = s.val]],
             s.ks, s.left)

CullHas(c, map) ==
    LET s == cull[c] IN
    CullLoop(c, [s.stores EXCEPT ![FileOf[s.key]] = [map EXCEPT ![s.key] = s.val]],
             s.ks, s.left)

CullLoads(c) ==
    LET map == disk[FileOf[cull[c].key]] IN
    /\ cull[c].pc = "load"
    /\ \/ /\ map = NoFile
          /\ cull' = [cull EXCEPT ![c].pc = "create"]
          /\ UNCHANGED table
       \/ /\ map # NoFile
          /\ CullHas(c, map)
    /\ UNCHANGED <<setup, disk, toRemove, rem, getter, run, latest, unsure, opsDone, restarts>>

CullCreates(c) ==
    /\ cull[c].pc = "create"
    /\ disk' = [disk EXCEPT ![FileOf[cull[c].key]] = Empty]
    /\ CullHas(c, Empty)
    /\ UNCHANGED <<setup, toRemove, rem, getter, run, latest, unsure, opsDone, restarts>>

(* write_data_categories: the loaded maps replace the files, one by one. *)
CullWrites(c) ==
    /\ cull[c].pc = "write"
    /\ \E f \in {g \in Files : cull[c].stores[g] # NoFile} :
          /\ disk' = [disk EXCEPT ![f] = cull[c].stores[f]]
          /\ unsure' = unsure \cup Disputed(f, c)
          /\ LET rest == [cull[c].stores EXCEPT ![f] = NoFile]
             IN cull' = [cull EXCEPT ![c].stores = rest,
                                     ![c].pc = IF rest = NoStores THEN "idle"
                                               ELSE "write"]
    /\ UNCHANGED <<setup, table, toRemove, rem, getter, run, latest, opsDone, restarts>>

-----------------------------------------------------------------------------
(* remove_when. *)

(* Mutant: the last planned key waits forever. *)
NextButLast(r) ==
    IF Len(toRemove) <= 1
    THEN rem' = [rem EXCEPT ![r] = NoRem] /\ UNCHANGED toRemove
    ELSE /\ rem' = [rem EXCEPT ![r] = [NoRem EXCEPT !.pc = "load",
                                                    !.key = Head(toRemove)]]
         /\ toRemove' = Tail(toRemove)

(* The loop of r takes the next planned key, or ends. *)
NextRemoval(r) ==
    IF toRemove = <<>>
    THEN rem' = [rem EXCEPT ![r] = NoRem] /\ UNCHANGED toRemove
    ELSE /\ rem' = [rem EXCEPT ![r] = [NoRem EXCEPT !.pc = "load",
                                                    !.key = Head(toRemove)]]
         /\ toRemove' = Tail(toRemove)

RemovalTimer(r) ==
    /\ run = "up" /\ "remove" \in setup
    /\ rem[r].pc = "idle"
    /\ toRemove # <<>>
    /\ NextRemoval(r)
    /\ UNCHANGED <<setup, table, disk, cull, getter, run, latest, unsure, opsDone, restarts>>

(* remove_existence: load the file; write it back if it has the key. *)
RemovalLoads(r) ==
    LET k == rem[r].key
        map == disk[FileOf[k]]
    IN
    /\ rem[r].pc = "load"
    /\ IF map = NoFile \/ (map # NoFile /\ map[k] = None)
       THEN NextRemoval(r)
       ELSE /\ rem' = [rem EXCEPT ![r].pc = "write",
                                  ![r].map = [map EXCEPT ![k] = None]]
            /\ UNCHANGED toRemove
    /\ UNCHANGED <<setup, table, disk, cull, getter, run, latest, unsure, opsDone, restarts>>

RemovalWrites(r) ==
    /\ rem[r].pc = "write"
    /\ disk' = [disk EXCEPT ![FileOf[rem[r].key]] = rem[r].map]
    /\ NextRemoval(r)
    /\ UNCHANGED <<setup, table, cull, getter, run, latest, unsure, opsDone, restarts>>

-----------------------------------------------------------------------------
(* Stopping and starting. *)

(* shutdown() clears the timers; with a removal timer it first runs the    *)
(* planned removals.  Activations under way are not waited for.            *)
Shutdown ==
    /\ run = "up"
    /\ Calls("shutdown")
    /\ run' = "stopping"
    /\ IF "remove" \in setup THEN NextRemoval(Stopper)
       ELSE UNCHANGED <<rem, toRemove>>
    /\ UNCHANGED <<setup, table, disk, cull, getter, latest, unsure, restarts>>

(* Then it stores everything that is in the table at that moment. *)
ShutdownStores ==
    /\ run = "stopping"
    /\ rem[Stopper].pc = "idle"
    /\ run' = "storing"
    /\ CullLoop(Stopper, NoStores, InTable, Cardinality(InTable))
    /\ UNCHANGED <<setup, disk, toRemove, rem, getter, latest, unsure, opsDone, restarts>>

(* The process ends: memory is gone, whatever was under way stops. *)
Ends(how) ==
    /\ run \notin {"exited", "crashed"}
    /\ restarts < MaxRestarts /\ Counted
    /\ run' = how
    /\ table' = Empty
    /\ toRemove' = <<>>
    /\ cull' = [c \in Cullers \cup {Stopper} |-> NoCull]
    /\ rem' = [r \in Removers \cup {Stopper} |-> NoRem]
    /\ getter' = [g \in Getters |-> NoGet]
    /\ UNCHANGED <<setup, disk, latest, unsure, restarts>>

(* SIGINT: DBClass.disconnect looks for a disconnect method, which this    *)
(* class does not have, and the process exits.                             *)
Sigint == Ends("exited")

Crash == Ends("crashed")

(* initialize: load_all_records reads the files and drops what it read. *)
Start ==
    /\ run \in {"exited", "crashed"}
    /\ run' = "up"
    /\ restarts' = restarts + 1
    /\ latest' = [k \in Keys |-> OnDisk(k)]
    /\ unsure' = {}
    /\ UNCHANGED <<setup, table, disk, toRemove, cull, rem, getter, opsDone>>

-----------------------------------------------------------------------------

Culling(c) == CullLoads(c) \/ CullCreates(c) \/ CullWrites(c)
Removing(r) == RemovalLoads(r) \/ RemovalWrites(r)
Getting(g) == GetLoads(g) \/ GetCreates(g)

Next ==
    \/ \E k \in Keys, v \in Vals : Set(k, v)
    \/ \E k \in Keys : Delete(k)
    \/ \E g \in Getters, k \in Keys : Get(g, k)
    \/ \E g \in Getters : Getting(g)
    \/ \E c \in Cullers : MemCheck(c)
    \/ \E c \in Cullers \cup {Stopper} : Culling(c)
    \/ \E r \in Removers : RemovalTimer(r)
    \/ \E r \in Removers \cup {Stopper} : Removing(r)
    \/ Shutdown
    \/ ShutdownStores
    \/ Sigint
    \/ Crash
    \/ Start

Spec == Init /\ [][Next]_vars

(* Timers keep firing and file operations complete. *)
FairSpec ==
    /\ Spec
    /\ \A c \in Cullers : WF_vars(MemCheck(c))
    /\ \A c \in Cullers \cup {Stopper} : WF_vars(Culling(c))
    /\ \A r \in Removers : WF_vars(RemovalTimer(r))
    /\ \A r \in Removers \cup {Stopper} : WF_vars(Removing(r))
    /\ \A g \in Getters : WF_vars(Getting(g))
    /\ WF_vars(ShutdownStores)

-----------------------------------------------------------------------------
(* Properties. *)

(* Every variable has its type. *)
TypeOK ==
    /\ setup \in Setups
    /\ table \in Map
    /\ disk \in [Files -> Map \cup {NoFile}]
    /\ toRemove \in Seq(Keys)
    /\ cull \in [Cullers \cup {Stopper} ->
                   [pc : {"idle", "load", "create", "write"}, ks : SUBSET Keys,
                    left : Nat, key : Keys \cup {None}, val : Vals \cup {None},
                    stores : [Files -> Map \cup {NoFile}]]]
    /\ rem \in [Removers \cup {Stopper} ->
                  [pc : {"idle", "load", "write"}, key : Keys \cup {None}, map : Map]]
    /\ getter \in [Getters -> [pc : {"idle", "load", "create", "answered"},
                               key : Keys \cup {None}, answer : Vals \cup {None}]]
    /\ run \in {"up", "stopping", "storing", "exited", "crashed"}
    /\ latest \in Map
    /\ unsure \subseteq Keys
    /\ opsDone \in 0..MaxOps
    /\ restarts \in 0..MaxRestarts

(* Eviction is not loss ("If a value is out of cache, it can be retrieved  *)
(* from disk", key_value_db.js): a value that was set, not deleted and is  *)
(* no longer in the table is in its file, or in the maps of the one cull   *)
(* that is about to write the file, and no older value will replace it.    *)
EvictedIsOnDisk ==
    \A k \in Keys :
        latest[k] # None /\ table[k] = None /\ run \notin {"exited", "crashed"} =>
            \/ /\ \A c \in DOMAIN cull : ~Carries(c, k)
               /\ OnDisk(k) = latest[k]
            \/ \E c \in DOMAIN cull : Carries(c, k) /\ Carried(c, k) = latest[k]

(* The same whatever timers, gets and shutdown() do at the same time, but  *)
(* for two kinds of keys: those set again while their removal was still to *)
(* come, and those that a cull wrote while another activation had loaded   *)
(* their file, or was to load or create it, and had not written it yet.    *)
EvictedIsKept ==
    \A k \in Keys \ unsure :
        latest[k] # None /\ table[k] = None /\ run \notin {"exited", "crashed"} =>
            \/ /\ \A c \in DOMAIN cull : ~Carries(c, k)
               /\ OnDisk(k) = latest[k]
            \/ \E c \in DOMAIN cull : Carries(c, k) /\ Carried(c, k) = latest[k]

(* get looks at the table, waits for a file, and looks again: it answers   *)
(* null or what the last completed set left, never a value that was        *)
(* replaced or deleted while it waited.                                    *)
Answers(g) == getter'[g].pc = "answered" /\ getter'[g] # getter[g]

GetNeverStale ==
    [][\A g \in Getters : Answers(g) =>
          getter'[g].answer \in {None, latest[getter'[g].key]}]_vars

(* A value that is in its file, up to date and not planned for removal,    *)
(* is found by get, as the file's header comment says.                     *)
GetFindsStored ==
    [][\A g \in Getters, k \in Keys :
          /\ Answers(g) /\ getter'[g].key = k
          /\ ~Planned(k)
          /\ OnDisk(k) = latest[k]
          => getter'[g].answer = latest[k]]_vars

(* The memory check brings a crowded table back to its limit once the      *)
(* operations pause, however deletes interleave with it.                   *)
MemoryRecedes ==
    "cull" \in setup /\ Cardinality(InTable) > MaxInMem
        ~> Cardinality(InTable) <= MaxInMem

(* A deleted key leaves its file, unless it is set again or the store      *)
(* stops.  A memory check may put back what a removal took out, so this is *)
(* about a store without one.                                              *)
RemovalTakesEffect ==
    \A k \in Keys :
        "remove" \in setup /\ "cull" \notin setup /\ run = "up" /\ latest[k] = None
            ~> latest[k] # None \/ OnDisk(k) = None \/ run # "up"
=============================================================================
