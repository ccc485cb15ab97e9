----------------------------- MODULE StaticStore -----------------------------
(***************************************************************************)
(* default_storage/static_db.js over files_and_relays.js: objects found by *)
(* a local key, the large ones as pages with a file of their own.          *)
(*                                                                         *)
(* A page keeps the object as it was stringified when the page was made;   *)
(* what is set afterwards changes only the object in memory.  The hash     *)
(* that names a page is left to the application: here it is the id.  An    *)
(* await that waits for no messenger, file or timer is not a step.         *)
(***************************************************************************)
EXTENDS RelayStore

CONSTANTS
    Keys,
    Owner,      \* the key each id is made for
    LargeIds    \* ids of objects over _max_group_storage

ASSUME StaticAssumption ==
    /\ Owner \in [Ids -> Keys]
    /\ LargeIds \subseteq Ids
    /\ None \notin Ids
    /\ None \notin [obj : Vals \cup {None}, flat : Vals \cup {None}, hooked : BOOLEAN,
                     inMap : BOOLEAN, callers : SUBSET Callers, writing : BOOLEAN]
    /\ None \notin [id : Ids, flat : Vals]
    /\ None \notin [op : {"get", "set"}, key : Keys, val : Vals,
                    pc : {"search", "find", "confirm", "adopt"},
                    id : Ids \cup {None}, alone : BOOLEAN]

VARIABLES
    whoId,      \* _whokey_to_ids
    whoHash,    \* _whokey_to_hash
    pages,      \* _ids_to_data_rep: page of an id, or None
    blobs,      \* blob_dir: what a file holds, or None if it cannot be parsed
    backup,     \* what static_backup is writing, or None
    unhooks,    \* ultra_test; memory is never short, for allocated only shrinks
    cut,        \* history: ids whose page had only its file and lost it to a
                \* write that failed
    call,       \* activations of get_key_value and set_key_value
    last        \* history: what the last set of a key stored, if it was alone

staticVars == <<relayVars, whoId, whoHash, pages, blobs, backup, unhooks, cut, call, last>>

(* The object of a page may also be the one in the map, and the one that a *)
(* call is about to store there; a write may be that of this page.         *)
Page(v) == [obj |-> v, flat |-> v, hooked |-> TRUE,
            inMap |-> FALSE, callers |-> {}, writing |-> FALSE]
NoKeys == [k \in Keys |-> None]

StaticInit ==
    /\ RelayInit
    /\ whoId = NoKeys /\ whoHash = NoKeys
    /\ pages = Empty /\ blobs = Empty
    /\ backup = None /\ cut = {}
    /\ unhooks \in BOOLEAN
    /\ call = [c \in Callers |-> None]
    /\ last = NoKeys

Busy(k) == \E c \in Callers : call[c] # None /\ call[c].key = k

(* A call that overlaps another one of its key, and that other one, vouch  *)
(* for nothing.                                                            *)
Overlapped(k) ==
    [c \in Callers |-> IF call[c] # None /\ call[c].key = k
                       THEN [call[c] EXCEPT !.alone = FALSE] ELSE call[c]]

Ends(c, stored) ==
    LET k == call[c].key IN
    /\ call' = [call EXCEPT ![c] = None]
    /\ last' = [last EXCEPT ![k] =
                  IF ~call[c].alone THEN None
                  ELSE IF call[c].op = "get" THEN @
                  ELSE IF stored THEN call[c].val ELSE None]

(* What an operation notes that needs no answer. *)
Notes(k, op, v) ==
    last' = [last EXCEPT ![k] = IF Busy(k) THEN None ELSE IF op = "set" THEN v ELSE @]

PageOf(k) == IF whoHash[k] = None THEN None ELSE pages[whoHash[k]]

(* _load_object_pmse: the page comes back without a string, and stays away *)
(* when its file cannot be parsed.                                         *)
Hooked(id) ==
    IF pages[id].hooked \/ blobs[id] = None THEN pages[id]
    ELSE [Page(blobs[id]) EXCEPT !.flat = None, !.writing = pages[id].writing]

Readable(k) == PageOf(k) # None /\ (Hooked(whoHash[k])).hooked

(* Mutant: a set changes a copy of what it found. *)
CopyAssigned(old, v) == old

Assigned(old, v) == v

-----------------------------------------------------------------------------
(* get_key_value and set_key_value of an object that is here.  A set       *)
(* changes the object in place, wherever it is; then update refuses it,    *)
(* for it is in the map, so the map does not become dirty and nobody is    *)
(* told.                                                                   *)

(* The calls that hold the object of a page see it change. *)
Seen(calls, id, v) ==
    [c \in Callers |-> IF calls[c] # None /\ calls[c].id = id /\ c \in pages[id].callers
                       THEN [calls[c] EXCEPT !.val = v] ELSE calls[c]]

GetAtPage(k) ==
    LET id == whoHash[k] IN
    /\ Called
    /\ PageOf(k) # None
    /\ pages' = [pages EXCEPT ![id] = Hooked(id)]
    /\ call' = Overlapped(k)
    /\ Notes(k, "get", None)
    /\ UNCHANGED <<map, buckets, dirty, file, writes, relay, remote, pending, finding,
                   exposed, known, now, running, restarts, whoId, whoHash, blobs,
                   backup, unhooks, cut>>

SetAtPage(k, v) ==
    LET id == whoHash[k]
        page == Hooked(id)
    IN
    /\ Called
    /\ Readable(k) /\ map[id] # None
    /\ pages' = [pages EXCEPT ![id] = [page EXCEPT !.obj = Assigned(@, v)]]
    /\ map' = IF page.inMap
              THEN [map EXCEPT ![id] = [val |-> Assigned(@.val, v), stamp |-> @.stamp]]
              ELSE map
    /\ exposed' = IF page.inMap THEN exposed \cup {id} ELSE exposed
    /\ call' = Seen(Overlapped(k), id, v)
    /\ Notes(k, "set", v)
    /\ UNCHANGED <<buckets, dirty, file, writes, relay, remote, pending, finding,
                   known, now, running, restarts, whoId, whoHash, blobs,
                   backup, unhooks, cut>>

(* A page that cannot be read: the object in the map is touched, and the   *)
(* set rejects.                                                            *)
SetAtNoPage(k) ==
    LET id == whoHash[k] IN
    /\ Called
    /\ PageOf(k) # None /\ ~Readable(k) /\ map[id] # None
    /\ map' = [map EXCEPT ![id] = [val |-> @.val, stamp |-> now]]
    /\ buckets' = UpdateStamp(buckets, map[id].stamp, id)
    /\ call' = Overlapped(k)
    /\ Notes(k, "set", None)
    /\ UNCHANGED <<dirty, file, writes, relay, remote, pending, finding,
                   exposed, known, now, running, restarts, whoId, whoHash, pages, blobs,
                   backup, unhooks, cut>>

InMap(k, op, v) ==
    LET id == whoId[k]
        paged == pages[id] # None /\ pages[id].inMap
    IN
    /\ Called
    /\ id # None /\ PageOf(k) = None /\ map[id] # None
    /\ map' = [map EXCEPT ![id] =
                  [val |-> IF op = "set" THEN Assigned(@.val, v) ELSE @.val, stamp |-> now]]
    /\ buckets' = UpdateStamp(buckets, map[id].stamp, id)
    /\ exposed' = IF op = "set" THEN exposed \cup {id} ELSE exposed
    /\ pages' = IF op = "set" /\ paged THEN [pages EXCEPT ![id].obj = v] ELSE pages
    /\ call' = IF op = "set" /\ paged THEN Seen(Overlapped(k), id, v) ELSE Overlapped(k)
    /\ Notes(k, op, v)
    /\ UNCHANGED <<dirty, file, writes, relay, remote, pending, finding, known, now,
                   running, restarts, whoId, whoHash, blobs, backup, unhooks, cut>>

(* The other ways ask the remote store: an unknown key is searched, an     *)
(* unknown object is found by its id, a page without an object in the map  *)
(* is set at once and then confirmed.                                      *)
Asks(c, k, op, v) ==
    LET id == whoId[k]
        pc == CASE id = None -> "search"
                [] id # None /\ ~Readable(k) -> "find"
                [] OTHER -> "confirm"
        set == [Hooked(id) EXCEPT !.obj = v, !.callers = @ \cup {c}]
        calls == IF pc = "confirm" THEN Seen(Overlapped(k), id, v) ELSE Overlapped(k)
    IN
    /\ Called /\ call[c] = None
    /\ op = "get" => PageOf(k) = None
    /\ pc # "search" => map[id] = None
    /\ pages' = IF pc = "confirm" THEN [pages EXCEPT ![id] = set] ELSE pages
    /\ call' = [calls EXCEPT ![c] = [op |-> op, key |-> k, val |-> v, pc |-> pc,
                                     id |-> id, alone |-> ~Busy(k)]]
    /\ Notes(k, op, None)
    /\ UNCHANGED <<map, buckets, dirty, file, writes, relay, remote, pending, finding,
                   exposed, known, now, running, restarts, whoId, whoHash, blobs,
                   backup, unhooks, cut>>

-----------------------------------------------------------------------------
(* What the remote store answers. *)

Waits(c, pc) == call[c] # None /\ call[c].pc = pc

(* An id that was never used. *)
Unused(id) ==
    /\ map[id] = None /\ file[id] = None /\ remote[id] = None
    /\ pages[id] = None /\ blobs[id] = None
    /\ \A t \in Times : id \notin buckets[t]
    /\ \A i \in DOMAIN pending : pending[i].id # id
    /\ \A k \in Keys : whoId[k] # id
    /\ \A c \in Callers : call[c] # None => call[c].id # id

(* search_one finds nothing: a get answers false; a set creates the object *)
(* and notes its id.                                                       *)
SearchFails(c) ==
    LET k == call[c].key
        v == call[c].val
    IN
    /\ Waits(c, "search")
    /\ IF call[c].op = "get"
       THEN UNCHANGED <<map, buckets, dirty, exposed, known, remote, pending, whoId, whoHash>>
       ELSE \E id \in Ids :
            /\ Owner[id] = k /\ Unused(id)
            /\ AddToStorageMap(id, v)
            /\ Sends(<<Message(id, [val |-> v, stamp |-> now])>>)
            /\ whoId' = [whoId EXCEPT ![k] = id]
            /\ whoHash' = [whoHash EXCEPT ![k] = None]
    /\ Ends(c, TRUE)
    /\ UNCHANGED <<file, writes, relay, finding, now, running, ops, restarts, pages,
                   blobs, backup, unhooks, cut>>

(* It finds one: a get only notes its id; a set goes on to confirm it.     *)
SearchFinds(c) ==
    LET k == call[c].key IN
    \E id \in Ids :
        /\ Waits(c, "search") /\ relay = "service"
        /\ Owner[id] = k /\ remote[id] # None
        /\ IF call[c].op = "get"
           THEN /\ whoId' = [whoId EXCEPT ![k] = id]
                /\ whoHash' = [whoHash EXCEPT ![k] = None]
                /\ Ends(c, FALSE)
           ELSE /\ call' = [call EXCEPT ![c].pc = "adopt", ![c].id = id]
                /\ UNCHANGED <<whoId, whoHash, last>>
        /\ UNCHANGED <<map, buckets, dirty, file, writes, relay, remote, pending, finding,
                       exposed, known, now, running, ops, restarts, pages, blobs,
                       backup, unhooks, cut>>

(* What a call that found the object leaves in it. *)
FoundVal(c) == IF call[c].op = "set" THEN call[c].val ELSE remote[call[c].id].val

(* application_stash_large_data: a large object that has no hash yet gets  *)
(* a page, one that has a page updates it; then the key is noted with the  *)
(* hash.  What is set afterwards is set at the page.                       *)
StashesLarge(c, paged) ==
    LET id == call[c].id
        k == call[c].key
    IN
    /\ paged => id \in LargeIds
    /\ \E same \in {FALSE} \cup {pages[id] # None /\ pages[id].writing} :
          pages' = IF paged
                   THEN [pages EXCEPT ![id] = [Page(remote[id].val) EXCEPT
                                                  !.obj = FoundVal(c), !.writing = same]]
                   ELSE pages
    /\ whoId' = [whoId EXCEPT ![k] = id]
    /\ whoHash' = [whoHash EXCEPT ![k] = IF paged THEN id ELSE None]

(* findOne fetches the object and creates it here.                         *)
FindCreates(c) ==
    LET id == call[c].id IN
    /\ Waits(c, "find") /\ relay = "service" /\ remote[id] # None
    /\ map[id] = None
    /\ \E paged \in BOOLEAN :
          /\ StashesLarge(c, paged)
          /\ AddToStorageMap(id, IF paged THEN None ELSE FoundVal(c))
    /\ Sends(<<Message(id, [remote[id] EXCEPT !.stamp = now])>>)
    /\ Ends(c, TRUE)
    /\ UNCHANGED <<file, writes, relay, finding, now, running, ops, restarts, blobs,
                   backup, unhooks, cut>>

(* The map has got the object meanwhile: what was fetched may still become *)
(* the page, and what is set without one is lost.                          *)
FindIsLate(c) ==
    LET id == call[c].id IN
    /\ Waits(c, "find") /\ relay = "service" /\ remote[id] # None
    /\ map[id] # None
    /\ \E paged \in BOOLEAN : StashesLarge(c, paged) /\ Ends(c, paged)
    /\ buckets' = UpdateStamp(buckets, remote[id].stamp, id)
    /\ Sends(<<Message(id, remote[id])>>)
    /\ UNCHANGED <<map, dirty, exposed, known, file, writes, relay, finding, now, running,
                   ops, restarts, blobs, backup, unhooks, cut>>

(* It finds nothing: a get answers false, a set answers true all the same. *)
FindNothing(c) ==
    /\ Waits(c, "find")
    /\ Ends(c, FALSE)
    /\ UNCHANGED <<relayVars, whoId, whoHash, pages, blobs, backup, unhooks, cut>>

(* Nobody is newer than what is set: the object is stored, unless the map  *)
(* has got it meanwhile.                                                   *)
StoresOwn(c, assigned) ==
    LET id == call[c].id IN
    IF map[id] # None
    THEN /\ Ends(c, assigned)
         /\ UNCHANGED <<map, buckets, dirty, exposed, known, remote, pending>>
    ELSE /\ AddToStorageMap(id, call[c].val)
         /\ Sends(<<Message(id, [val |-> call[c].val, stamp |-> now])>>)
         /\ Ends(c, TRUE)

(* The map gets the object itself, which may still be the page's. *)
Confirmed(c) ==
    LET id == call[c].id
        held == pages[id] # None /\ c \in pages[id].callers
    IN
    /\ Waits(c, "confirm")
    /\ StoresOwn(c, TRUE)
    /\ pages' = IF held
                THEN [pages EXCEPT ![id].callers = @ \ {c},
                                   ![id].inMap = @ \/ map[id] = None]
                ELSE pages
    /\ UNCHANGED <<file, writes, relay, finding, now, running, ops, restarts, whoId,
                   whoHash, blobs, backup, unhooks, cut>>

Adopted(c) ==
    /\ Waits(c, "adopt")
    /\ StoresOwn(c, FALSE)
    /\ whoId' = [whoId EXCEPT ![call[c].key] = call[c].id]
    /\ whoHash' = [whoHash EXCEPT ![call[c].key] = None]
    /\ UNCHANGED <<file, writes, relay, finding, now, running, ops, restarts, pages,
                   blobs, backup, unhooks, cut>>

(* del_key_value: delete throws when the map has no object of the id.      *)
(* Otherwise the page goes first, and then nobody knows its file.          *)
DelKeyValue(k) ==
    LET id == whoId[k] IN
    /\ Called
    /\ id # None /\ map[id] # None
    /\ map' = [map EXCEPT ![id] = None]
    /\ dirty' = TRUE
    /\ Exposes(id)
    /\ known' = known \ {id}
    /\ Sends(<<Message(id, None)>>)
    /\ pages' = [pages EXCEPT ![id] = None]
    /\ whoId' = [whoId EXCEPT ![k] = None]
    /\ whoHash' = [whoHash EXCEPT ![k] = None]
    /\ call' = Overlapped(k)
    /\ last' = [last EXCEPT ![k] = None]
    /\ UNCHANGED <<buckets, file, writes, relay, finding, now, running, restarts, blobs,
                   backup, unhooks, cut>>

-----------------------------------------------------------------------------
(* Timers and restarts. *)

StaticStash ==
    /\ Stash(FALSE)
    /\ UNCHANGED <<whoId, whoHash, pages, blobs, backup, unhooks, cut, call, last>>

(* static_backup writes every page each time, one that was given up too,   *)
(* for it marks itself as saved, not the page.  writeFile empties the file *)
(* first.  A page without a string makes it throw.                         *)
BacksUp(id) ==
    /\ running /\ backup = None
    /\ pages[id] # None /\ pages[id].flat # None
    /\ backup' = [id |-> id, flat |-> pages[id].flat]
    /\ pages' = [pages EXCEPT ![id].writing = TRUE]
    /\ blobs' = [blobs EXCEPT ![id] = None]
    /\ UNCHANGED <<relayVars, whoId, whoHash, unhooks, cut, call, last>>

(* Mutant: the object is given up though the write failed. *)
WrittenOrNot(ok) == TRUE

GivesUp(ok) == ok

(* After the write the page it was made for, if it is still in use, may    *)
(* give up its object; a failed write ends the activation.                 *)
BackedUp ==
    LET id == backup.id IN
    /\ backup # None
    /\ backup' = None
    /\ \E ok \in BOOLEAN :
          /\ blobs' = IF ok THEN [blobs EXCEPT ![id] = backup.flat] ELSE blobs
          /\ pages' =
                IF pages[id] = None THEN pages
                ELSE IF unhooks /\ pages[id].writing /\ GivesUp(ok)
                THEN [pages EXCEPT ![id] = [Page(None) EXCEPT !.flat = pages[id].flat,
                                                              !.hooked = FALSE]]
                ELSE [pages EXCEPT ![id].writing = FALSE]
          /\ cut' = IF ok THEN cut \ {id}
                    ELSE IF pages[id] # None /\ ~pages[id].hooked THEN cut \cup {id}
                    ELSE cut
    /\ UNCHANGED <<relayVars, whoId, whoHash, unhooks, call, last>>

(* initialize: what is in blob_dir becomes pages and keys; the keys of     *)
(* other objects are not made from the map.                                *)
LoadedPages(b) == [id \in Ids |-> IF b[id] = None THEN None ELSE Page(b[id])]

StaticStops ==
    /\ Stops
    /\ whoId' = NoKeys /\ whoHash' = NoKeys
    /\ pages' = Empty
    /\ backup' = None
    /\ call' = [c \in Callers |-> None]
    /\ last' = NoKeys
    /\ cut' = {}
    /\ UNCHANGED <<blobs, unhooks>>

StaticStarts ==
    /\ Starts
    /\ pages' = LoadedPages(blobs)
    /\ \E loaded \in [Keys -> Ids \cup {None}] :
          /\ \A k \in Keys :
                LET mine == {id \in Ids : Owner[id] = k /\ blobs[id] # None}
                IN IF mine = {} THEN loaded[k] = None ELSE loaded[k] \in mine
          /\ whoId' = loaded /\ whoHash' = loaded
    /\ UNCHANGED <<blobs, backup, unhooks, cut, call, last>>

StaticTick == Tick /\ UNCHANGED <<whoId, whoHash, pages, blobs, backup, unhooks, cut, call, last>>

StaticMessages ==
    /\ Delivered \/ Written
    /\ UNCHANGED <<whoId, whoHash, pages, blobs, backup, unhooks, cut, call, last>>

StaticNext ==
    \/ \E k \in Keys : GetAtPage(k) \/ SetAtNoPage(k) \/ DelKeyValue(k)
    \/ \E k \in Keys, v \in Vals : SetAtPage(k, v)
    \/ \E k \in Keys, op \in {"get", "set"}, v \in Vals :
          \/ InMap(k, op, v)
          \/ \E c \in Callers : Asks(c, k, op, v)
    \/ \E c \in Callers :
          \/ SearchFails(c) \/ SearchFinds(c)
          \/ FindCreates(c) \/ FindIsLate(c) \/ FindNothing(c)
          \/ Confirmed(c) \/ Adopted(c)
    \/ \E id \in Ids : BacksUp(id)
    \/ BackedUp
    \/ StaticStash \/ StaticMessages \/ StaticTick
    \/ StaticStops \/ StaticStarts

StaticSpec == StaticInit /\ [][StaticNext]_staticVars

-----------------------------------------------------------------------------
(* Properties. *)

(* Every variable has its type. *)
StaticTypeOK ==
    /\ RelayTypeOK
    /\ \A k \in Keys : {whoId[k], whoHash[k], last[k]} \subseteq Ids \cup Vals \cup {None}
    /\ \A id \in Ids : pages[id] = None \/ {pages[id].hooked, pages[id].inMap} \subseteq BOOLEAN
    /\ blobs \in [Ids -> Vals \cup {None}]
    /\ unhooks \in BOOLEAN
    /\ cut \subseteq Ids
    /\ \A c \in Callers : call[c] = None \/ call[c].pc \in {"search", "find", "confirm", "adopt"}

(* Until the process stops, and in deployments that give up no object:     *)
(* what a set stored is what a get answers, whether the object is in the   *)
(* map, in a page, in both or came from the remote store in between, as    *)
(* long as no other call overlapped the set.                               *)
Visible(k) ==
    IF PageOf(k) # None THEN Hooked(whoHash[k]).obj
    ELSE IF whoId[k] # None /\ map[whoId[k]] # None THEN map[whoId[k]].val ELSE None

LastSetIsRead ==
    \A k \in Keys : ~unhooks /\ ~Busy(k) /\ last[k] # None => Visible(k) = last[k]

(* A page that gave up its object has a file to come back from, but while  *)
(* the file is written again, and after a write of it that failed.         *)
Away(id) == pages[id] # None /\ ~pages[id].hooked
Rewritten(id) == backup # None /\ backup.id = id

UnhookedIsOnDisk ==
    \A id \in Ids : Away(id) => blobs[id] # None \/ Rewritten(id) \/ id \in cut

(* Without another store, a key that is known leads to an object of the    *)
(* map or to a page, whose object is then here or in its file: deletes,    *)
(* late answers and restarts leave no key that leads nowhere.              *)
KeysAreBacked ==
    relay # "service" =>
        \A k \in Keys :
            whoId[k] # None => map[whoId[k]] # None \/ pages[whoId[k]] # None
=============================================================================
