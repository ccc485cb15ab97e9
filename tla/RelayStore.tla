------------------------------ MODULE RelayStore ------------------------------
(***************************************************************************)
(* default_storage/files_and_relays.js: a map of objects that a timer      *)
(* prunes by age and writes to one file, in front of a remote store that   *)
(* is reached through a messenger.                                         *)
(*                                                                         *)
(* Nothing waits for what it sends.  A relay service works its messages    *)
(* off in the order they were sent, or loses one; the stand-in of          *)
(* in_proc_faux_messenger.js stores at once, but its answers carry no      *)
(* status and are taken for failures.  The messenger is the one the        *)
(* application sets: the loading of a class in initialize names an         *)
(* undeclared variable and rejects.                                        *)
(***************************************************************************)
EXTENDS Integers, SequencesExt

CONSTANTS
    Ids, Vals, Callers,
    None,
    AgeOut,         \* _age_out_delta
    MaxTime,        \* bound on the clock
    MaxWrites,      \* bound on the writes under way
    MaxOps,         \* bound on the number of operations
    MaxPending,     \* bound on the messages under way
    MaxRestarts     \* bound on the number of restarts

ASSUME RelayAssumption ==
    /\ None \notin Vals /\ None \notin Nat
    /\ AgeOut \in Nat /\ MaxTime \in Nat /\ MaxWrites \in Nat /\ MaxOps \in Nat
    /\ MaxPending \in Nat /\ MaxRestarts \in Nat
    /\ None \notin [val : Vals \cup {None}, stamp : 0..MaxTime]
    /\ IsFiniteSet(Ids)

VARIABLES
    map,        \* _storage_map: objects, each with its _tstamp
    buckets,    \* _time_to_id: ids by time
    dirty,
    file,       \* what db_file reads as: one that cannot be parsed is empty
    writes,     \* the maps of the writes under way
    relay,      \* the messenger: "none", "standin" or "service"
    remote,     \* what the messenger's store holds
    pending,    \* messages under way; one without an object dereferences
    finding,    \* activations of findOne that wait for an answer
    exposed,    \* history: changed in place, during a write or hit by a failed
                \* one, and in no write since
    known,      \* history: stored and neither deleted nor lost by the service
    now,        \* Date.now()
    running, ops, restarts

relayVars == <<map, buckets, dirty, file, writes, relay, remote, pending,
               finding, exposed, known, now, running, ops, restarts>>

Times == 0..MaxTime
Objects == [val : Vals \cup {None}, stamp : Times]     \* None: nothing but a skeleton
Empty == [id \in Ids |-> None]

RelayInit ==
    /\ map = Empty /\ file = Empty
    /\ buckets = [t \in Times |-> {}]
    /\ dirty = FALSE
    /\ writes = {}
    /\ relay \in {"none", "standin", "service"}
    /\ remote \in [Ids -> {None} \cup [val : Vals, stamp : {0}]]
    /\ relay = "service" \/ remote = Empty     \* others may have stored objects there
    /\ pending = <<>>
    /\ finding = [c \in Callers |-> None]
    /\ exposed = {} /\ known = {}
    /\ now = 0
    /\ running = TRUE /\ ops = 0 /\ restarts = 0

Called == running /\ ops < MaxOps /\ ops' = ops + 1

-----------------------------------------------------------------------------
(* Time buckets. *)

AddStamp(b, t, id) == [b EXCEPT ![t] = @ \cup {id}]
RemoveStamp(b, t, id) == [b EXCEPT ![t] = @ \ {id}]

(* Mutant: the id is taken from its old bucket after it was put in the new *)
(* one, which may be the same.                                             *)
StampThenRemove(b, t, id) == RemoveStamp(AddStamp(b, now, id), t, id)

UpdateStamp(b, t, id) == AddStamp(RemoveStamp(b, t, id), now, id)

(* The objects of the buckets that are older than AgeOut. *)
Aged == {t \in Times : now - AgeOut > t}
AgedIds == {id \in UNION {buckets[t] : t \in Aged} : map[id] # None}

-----------------------------------------------------------------------------
(* Messages. *)

Message(id, obj) == [id |-> id, obj |-> obj]
LastAbout(msgs, id) == SelectLastInSeq(msgs, LAMBDA m : m.id = id)

Sends(msgs) ==
    CASE relay = "none" -> UNCHANGED <<pending, remote>>
      [] relay = "standin" ->
            /\ remote' = [id \in Ids |->
                  LET i == LastAbout(msgs, id)
                  IN IF i = 0 THEN remote[id] ELSE msgs[i].obj]
            /\ UNCHANGED pending
      [] relay = "service" ->
            /\ Len(pending) + Len(msgs) <= MaxPending
            /\ pending' = pending \o msgs
            /\ UNCHANGED remote

(* The service stores, or loses, the first message. *)
Delivered ==
    /\ pending # <<>>
    /\ pending' = Tail(pending)
    /\ LET m == Head(pending) IN
       \/ remote' = [remote EXCEPT ![m.id] = m.obj] /\ UNCHANGED known
       \/ known' = known \ {m.id} /\ UNCHANGED remote
    /\ UNCHANGED <<map, buckets, dirty, file, writes, relay, finding, exposed,
                   now, running, ops, restarts>>

-----------------------------------------------------------------------------
(* Operations. *)

Exposes(id) == exposed' = IF writes # {} THEN exposed \cup {id} ELSE exposed

AddToStorageMap(id, v) ==
    /\ map' = [map EXCEPT ![id] = [val |-> v, stamp |-> now]]
    /\ buckets' = AddStamp(buckets, now, id)
    /\ dirty' = TRUE
    /\ Exposes(id)
    /\ known' = known \cup {id}

(* An object that is in the map already is refused. *)
Update(id, v) ==
    /\ Called
    /\ map[id] = None
    /\ AddToStorageMap(id, v)
    /\ Sends(<<Message(id, [val |-> v, stamp |-> now])>>)
    /\ UNCHANGED <<file, writes, relay, finding, now, running, restarts>>

(* The id stays in its bucket. *)
Delete(id) ==
    /\ Called
    /\ map' = [map EXCEPT ![id] = None]
    /\ dirty' = TRUE
    /\ Exposes(id)
    /\ known' = known \ {id}
    /\ Sends(<<Message(id, None)>>)
    /\ UNCHANGED <<buckets, file, writes, relay, finding, now, running, restarts>>

(* findOne: an object in the map moves to the bucket of now. *)
FindInMap(id) ==
    /\ running
    /\ map[id] # None
    /\ map' = [map EXCEPT ![id].stamp = now]
    /\ buckets' = UpdateStamp(buckets, map[id].stamp, id)
    /\ UNCHANGED <<dirty, file, writes, relay, remote, pending, finding, exposed,
                   known, now, running, ops, restarts>>

(* Otherwise the remote store is asked. *)
FindElsewhere(c, id) ==
    /\ Called
    /\ map[id] = None /\ relay # "none" /\ finding[c] = None
    /\ finding' = [finding EXCEPT ![c] = [id |-> id, answered |-> FALSE, obj |-> None]]
    /\ UNCHANGED <<map, buckets, dirty, file, writes, relay, remote, pending,
                   exposed, known, now, running, restarts>>

Asking(c) == finding[c] # None /\ ~finding[c].answered

(* The service answers, from before or after the messages under way. *)
Answers(c) ==
    /\ relay = "service"
    /\ Asking(c)
    /\ finding' = [finding EXCEPT ![c].answered = TRUE,
                                  ![c].obj = remote[finding[c].id]]
    /\ UNCHANGED <<map, buckets, dirty, file, writes, relay, remote, pending,
                   exposed, known, now, running, ops, restarts>>

(* No object: an answer without one, a failure, or the stand-in.           *)
FindFails(c) ==
    /\ finding[c] # None
    /\ finding[c].obj = None
    /\ finding' = [finding EXCEPT ![c] = None]
    /\ UNCHANGED <<map, buckets, dirty, file, writes, relay, remote, pending,
                   exposed, known, now, running, ops, restarts>>

(* The object comes in.  If the map has got one meanwhile, #create fails   *)
(* and nobody looks: the object that was fetched is sent back and stamped, *)
(* by the time it had at the remote store, and the map keeps its own.      *)
Fetched(c) ==
    LET id == finding[c].id
        obj == finding[c].obj
    IN
    /\ finding[c] # None /\ obj # None
    /\ finding' = [finding EXCEPT ![c] = None]
    /\ IF map[id] = None
       THEN /\ AddToStorageMap(id, obj.val)
            /\ Sends(<<Message(id, [obj EXCEPT !.stamp = now])>>)
       ELSE /\ buckets' = UpdateStamp(buckets, obj.stamp, id)
            /\ Sends(<<Message(id, obj)>>)
            /\ UNCHANGED <<map, dirty, exposed, known>>
    /\ UNCHANGED <<file, writes, relay, now, running, ops, restarts>>

-----------------------------------------------------------------------------
(* The stash interval. *)

(* Mutant: pruned objects are removed first and then looked up to be sent. *)
SentAfterRemoval(order) == <<>>

SentWhenPruned(order) == [i \in DOMAIN order |-> Message(order[i], map[order[i]])]

(* prune_storage_map, with prunes as remote_store_sync is called: aged     *)
(* objects are sent and, then, removed; empty buckets go.                  *)
Stash(prunes) ==
    LET gone == IF prunes THEN AgedIds ELSE {}
        kept == [id \in Ids |-> IF id \in gone THEN None ELSE map[id]]
    IN
    /\ running /\ dirty
    /\ Cardinality(writes) < MaxWrites
    /\ \E order \in Bijection(1..Cardinality(AgedIds), AgedIds) :
          Sends(SentWhenPruned(order))
    /\ map' = kept
    /\ buckets' = [t \in Times |-> IF t \in Aged /\ prunes THEN {} ELSE buckets[t]]
    /\ writes' = writes \cup {kept}
    /\ exposed' = IF writes = {} THEN {} ELSE exposed \cup gone
    /\ UNCHANGED <<dirty, file, relay, finding, known, now, running, ops, restarts>>

(* The callback of the write does not ask whether it succeeded; a write    *)
(* that failed may leave a file that cannot be parsed.                     *)
Written ==
    \E m \in writes :
        /\ writes' = writes \ {m}
        /\ \/ file' = m /\ UNCHANGED exposed
           \/ exposed' = Ids /\ file' \in {file, Empty}
        /\ dirty' = FALSE
        /\ UNCHANGED <<map, buckets, relay, remote, pending, finding, known, now,
                       running, ops, restarts>>

-----------------------------------------------------------------------------
(* The process stops by a signal or a crash: app_shutdown, which would     *)
(* write the map, is hidden by a field of AppLifeCycle; a write may be cut *)
(* short.  It starts with the map of the file, every object stamped anew.  *)

StopsWith(held) ==
    /\ running
    /\ restarts < MaxRestarts
    /\ running' = FALSE
    /\ restarts' = restarts + 1
    /\ map' = held
    /\ dirty' = FALSE
    /\ writes' = {}
    /\ pending' = <<>>
    /\ finding' = [c \in Callers |-> None]
    /\ buckets' = [t \in Times |-> {}]
    /\ known' = {}
    /\ file' \in {file} \cup (IF writes = {} THEN {} ELSE {Empty})
    /\ UNCHANGED <<relay, remote, exposed, now, ops>>

Stops == StopsWith(Empty)

Stamped(m) == [id \in Ids |-> IF m[id] = None THEN None
                              ELSE [m[id] EXCEPT !.stamp = now]]

(* Mutant: the buckets are not made from the map that was read. *)
NoBuckets == [t \in Times |-> {}]

ChronoUpdateAll ==
    [t \in Times |-> IF t = now THEN {id \in Ids : file[id] # None} ELSE {}]

Starts ==
    /\ ~running
    /\ running' = TRUE
    /\ map' = Stamped(file)
    /\ buckets' = ChronoUpdateAll
    /\ known' = {id \in Ids : file[id] # None}
    /\ exposed' = {}
    /\ UNCHANGED <<dirty, file, writes, relay, remote, pending, finding, now, ops,
                   restarts>>

Tick ==
    /\ now < MaxTime
    /\ now' = now + 1
    /\ UNCHANGED <<map, buckets, dirty, file, writes, relay, remote, pending,
                   finding, exposed, known, running, ops, restarts>>

RelayNext ==
    \/ \E id \in Ids, v \in Vals : Update(id, v)
    \/ \E id \in Ids : Delete(id) \/ FindInMap(id)
    \/ \E c \in Callers, id \in Ids : FindElsewhere(c, id)
    \/ \E c \in Callers : Answers(c) \/ FindFails(c) \/ Fetched(c)
    \/ Delivered
    \/ Stash(TRUE) \/ Written
    \/ Stops \/ Starts
    \/ Tick

-----------------------------------------------------------------------------
(* Properties. *)

(* Every variable has its type. *)
RelayTypeOK ==
    /\ map \in [Ids -> Objects \cup {None}]
    /\ file \in [Ids -> Objects \cup {None}]
    /\ remote \in [Ids -> Objects \cup {None}]
    /\ buckets \in [Times -> SUBSET Ids]
    /\ dirty \in BOOLEAN /\ running \in BOOLEAN
    /\ writes \subseteq [Ids -> Objects \cup {None}]
    /\ pending \in Seq([id : Ids, obj : Objects \cup {None}])
    /\ \A c \in Callers : finding[c] = None \/ finding[c].id \in Ids
    /\ exposed \subseteq Ids /\ known \subseteq Ids

(* Every object in the map is in a bucket, and in one that is not older    *)
(* than its last use: touching, fetching twice at a time, deleting and     *)
(* storing again leave no object that pruning never meets.                 *)
EverythingAges ==
    \A id \in Ids : map[id] # None =>
        \E t \in map[id].stamp..now : id \in buckets[t]

(* With a messenger, pruning an object is not losing it: what was stored   *)
(* and not deleted is in the map, at the remote store or on its way there, *)
(* whatever fetches and deletions went on, unless the service lost a       *)
(* message about it.                                                       *)
InPending(id) ==
    \E i \in DOMAIN pending :
        /\ pending[i].id = id /\ pending[i].obj # None
        /\ \A j \in (i + 1)..Len(pending) : pending[j].id = id => pending[j].obj # None

PrunedIsRelayed ==
    relay # "none" =>
        \A id \in known : map[id] # None \/ remote[id] # None \/ InPending(id)

(* With the flag down and no write under way, the file holds the values of *)
(* the map, but for objects that no write has taken since they were        *)
(* changed in place (the static store's way to set what it has), changed   *)
(* during a write or hit by a failed one.                                  *)
Val(m, id) == IF m[id] = None THEN None ELSE m[id].val

RelayCleanIsOnDisk ==
    running /\ ~dirty /\ writes = {} =>
        \A id \in Ids \ exposed : Val(file, id) = Val(map, id)

(* What is stored while no write is under way reaches the file, unless it  *)
(* is pruned, replaced or deleted, a write fails, or the process ends.     *)
Holds(m, id, v) == m # None /\ \E t \in Times : m[id] = [val |-> v, stamp |-> t]

ObjectsReachFile ==
    \A id \in Ids, v \in Vals :
        running /\ id \notin exposed /\ Holds(map, id, v)
            ~> Holds(file, id, v) \/ ~Holds(map, id, v) \/ id \in exposed \/ ~running
=============================================================================
