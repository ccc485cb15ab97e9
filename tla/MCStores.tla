------------------------------- MODULE MCStores -------------------------------
(***************************************************************************)
(* The stores that a DBClass is given, side by side: session table,        *)
(* default persistent store, relay store and static store.  They share no  *)
(* state in the code, so a behaviour of this instance runs one of them     *)
(* (part); the variables of the others are None.  For the static store the *)
(* stand-in is left out: it answers like no messenger at all.              *)
(***************************************************************************)
EXTENDS StaticStore, TLC

CONSTANTS Parts,
          SessionKeys, SessionTime, Crowd, MinCull, SessionMaxTime, MaxLru,
          MapperWrites

VARIABLES part, table, lru, timer

vars == <<staticVars, part, table, lru, timer>>

MCOwner == [id \in Ids |-> CHOOSE k \in Keys : TRUE]
Symmetry == Permutations(Ids) \cup Permutations(Vals) \cup Permutations(Callers)

ST == INSTANCE SessionTable WITH Keys <- SessionKeys, MaxTime <- SessionMaxTime
FM == INSTANCE FileMapper WITH MaxWrites <- MapperWrites

ASSUME StoresAssumption == ST!SessionAssumption /\ FM!FileMapperAssumption

sessionVars == <<table, lru, timer>>
mapperVars == <<map, dirty, file, writes, exposed, running, ops, restarts>>
relayOnly == <<buckets, relay, remote, pending, finding, known>>
staticOnly == <<whoId, whoHash, pages, blobs, backup, unhooks, cut, call, last>>

NoSession == table = None /\ lru = None /\ timer = None
NoMapper ==
    /\ map = None /\ dirty = None /\ file = None /\ writes = None
    /\ exposed = None /\ running = None /\ ops = None /\ restarts = None
NoRelay ==
    /\ buckets = None /\ relay = None /\ remote = None /\ pending = None
    /\ finding = None /\ known = None
NoStatic ==
    /\ whoId = None /\ whoHash = None /\ pages = None /\ blobs = None
    /\ backup = None /\ unhooks = None /\ cut = None /\ call = None /\ last = None

Init ==
    /\ part \in Parts
    /\ \/ part = "session" /\ ST!Init /\ NoMapper /\ NoRelay /\ NoStatic
       \/ part = "mapper" /\ FM!Init /\ NoSession /\ NoRelay /\ NoStatic /\ now = None
       \/ part = "relay" /\ RelayInit /\ NoSession /\ NoStatic
       \/ part = "static" /\ StaticInit /\ NoSession /\ relay # "standin"

Next ==
    /\ UNCHANGED part
    /\ \/ part = "session" /\ ST!Next /\ UNCHANGED <<mapperVars, relayOnly, staticOnly>>
       \/ part = "mapper" /\ FM!Next /\ UNCHANGED <<sessionVars, relayOnly, staticOnly, now>>
       \/ part = "relay" /\ RelayNext /\ UNCHANGED <<sessionVars, staticOnly>>
       \/ part = "static" /\ StaticNext /\ UNCHANGED sessionVars

Spec == Init /\ [][Next]_vars

-----------------------------------------------------------------------------
(* Properties: those of the modules, for the part that runs. *)

In(ps) == part \in ps

(* Every variable has its type. *)
TypeOK ==
    /\ In({"session"}) => ST!TypeOK
    /\ In({"mapper"}) => FM!TypeOK
    /\ In({"relay"}) => RelayTypeOK
    /\ In({"static"}) => StaticTypeOK

(* session_table_no_sharing.js: trimming the list keeps every live session *)
(* listed, in the order of the last sets.                                  *)
ListFollowsTable == In({"session"}) => ST!LiveStaysListed /\ ST!ListedBySetTime

(* What the dirty flag is worth in the stores that write a map to a file.  *)
CleanIsOnDisk ==
    /\ In({"mapper"}) => FM!CleanIsOnDisk
    /\ In({"relay", "static"}) => RelayCleanIsOnDisk

(* files_and_relays.js: no object of a relay or static store escapes the   *)
(* time buckets, and pruning one is not losing it where there is a         *)
(* messenger.                                                              *)
AgeingLosesNothing == In({"relay", "static"}) => EverythingAges /\ PrunedIsRelayed

(* The static store answers what was set last.                             *)
ReadsLastSet == In({"static"}) => LastSetIsRead

(* Keys lead to objects, and pages without an object to a file.            *)
NothingLeadsNowhere == In({"static"}) => KeysAreBacked /\ UnhookedIsOnDisk
=============================================================================
