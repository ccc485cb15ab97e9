------------------------------ MODULE ChunkUpload ------------------------------
(***************************************************************************)
(* Uploads of lib/general_transition_engine.js.  A primary transition      *)
(* prepares a chunk manager under its token; secondary requests with       *)
(* `next` bring chunks; the one without `next` has the chunks written.     *)
(*                                                                         *)
(* The requests come through contractual/transition_processing.js, whose   *)
(* token cache decides who still gets to the engine: of it, this module    *)
(* keeps which primary's transition is stored under a token.  External:    *)
(* the application's hooks, which call files_coming_in_chunks,             *)
(* upload_chunk and chunks_complete among awaits of their own; the tokens, *)
(* which it may use again; store_data, which the application has to        *)
(* replace, as the default asks the descriptor of the body for a writeFile *)
(* and rejects; the mv of the file descriptors, which with a callback is   *)
(* not waited for.  A chunk is named by the request that brought it.       *)
(***************************************************************************)
EXTENDS Naturals, SequencesExt

CONSTANTS
    Req,
    Tokens,
    Files,      \* file names
    None,
    MaxList,    \* bound on the files a completion lists
    MaxTime     \* bound on the clock

Chunks == Seq(Req)
Managers == [owner : Req, one : BOOLEAN, all : Chunks, by : [Files -> {None} \cup Chunks]]

ASSUME UploadAssumption ==
    /\ None \notin Req \cup Files \cup Tokens
    /\ None \notin Chunks /\ None \notin Managers
    /\ MaxList \in Nat /\ MaxTime \in Nat

VARIABLES
    open,       \* open[t]: the primary whose transition is in the cache
    managers,   \* managers[t]: _uploader_managers[t]
    req,        \* req[r]: the activation serving r
    stored,     \* stored writes: by whom, of whose manager, which file, where, what
    described,  \* upload_file: the paths the database was told of
    now         \* Date.now()

vars == <<open, managers, req, stored, described, now>>

(* files are those a request names, full those it has data for; offer is   *)
(* the primary whose transition it found, last whether it closed it.       *)
(* History: owner of managers, into whose manager the chunk went; seen,    *)
(* the chunks that had been acknowledged when the request arrived; late,   *)
(* whether others were on their way then.                                  *)
Idle == [pc |-> "idle", token |-> None, files |-> {}, full |-> {}, offer |-> None,
         last |-> FALSE, into |-> None, seen |-> {}, late |-> FALSE,
         todo |-> <<>>, path |-> None, from |-> None, data |-> <<>>,
         answer |-> "none"]

Init ==
    /\ open = [t \in Tokens |-> None]
    /\ managers = [t \in Tokens |-> None]
    /\ req = [r \in Req |-> Idle]
    /\ stored = {}
    /\ described = {}
    /\ now = 0

To(r, c) == req' = [req EXCEPT ![r] = c]

Answer(r, c, a) == To(r, [c EXCEPT !.pc = "done", !.answer = a])

-----------------------------------------------------------------------------
(* Preparation: files_coming_in_chunks, for a list of files or for one. *)

ManagerFor(r, names) ==
    [owner |-> r, one |-> names = {}, all |-> <<>>,
     by |-> [f \in Files |-> IF f \in names THEN <<>> ELSE None]]

(* A manager that is there already is replaced, with all that it holds. *)
FilesComingInChunks(r, t, names) ==
    /\ req[r].pc = "idle"
    /\ managers' = [managers EXCEPT ![t] = ManagerFor(r, names)]
    /\ To(r, [Idle EXCEPT !.pc = "offer", !.token = t, !.files = names])
    /\ UNCHANGED <<open, stored, described, now>>

(* The transition goes into the cache, and takes the place of one that is  *)
(* there.                                                                  *)
StoreTransition(r) ==
    /\ req[r].pc = "offer"
    /\ open' = [open EXCEPT ![req[r].token] = r]
    /\ Answer(r, req[r], "prepared")
    /\ UNCHANGED <<managers, stored, described, now>>

-----------------------------------------------------------------------------
(* Chunks. *)

Acknowledged == {r \in Req : req[r].answer = "next"}

(* Chunks for t are on their way, or not yet acknowledged. *)
Uploading(t) == \E s \in Req : req[s].token = t /\ req[s].pc \in {"upload", "pushed"}

(* A secondary request for t that finds the transition. *)
Arrival(t) == [Idle EXCEPT !.token = t, !.offer = open[t], !.seen = Acknowledged]

(* A request with `next` finds the transition and leaves it in the cache.  *)
ChunkRequest(r, t, names, full) ==
    /\ req[r].pc = "idle"
    /\ LET c == [Arrival(t) EXCEPT !.files = names, !.full = full]
       IN IF open[t] # None THEN To(r, [c EXCEPT !.pc = "upload"])
          ELSE Answer(r, c, "unavailable")
    /\ UNCHANGED <<open, managers, stored, described, now>>

(* Mutant: chunks are put in front. *)
Push(chunks, r) == <<r>> \o chunks

Pushed(chunks, r) == Append(chunks, r)

(* What upload_chunk makes of manager m: one file for a single manager;    *)
(* otherwise the files that were announced.  Anything else, and a file     *)
(* without data, is dropped.                                               *)
WithChunk(m, r, names, full) ==
    IF m.one
    THEN [m EXCEPT !.all = IF \E f \in full : names = {f} THEN Pushed(@, r) ELSE @]
    ELSE [m EXCEPT !.by = [f \in Files |->
                             IF f \in full /\ @[f] # None THEN Pushed(@[f], r)
                             ELSE @[f]]]

(* The application calls upload_chunk; it awaits nothing. *)
UploadChunk(r) ==
    LET c == req[r]
        m == managers[c.token]
    IN
    /\ c.pc = "upload"
    /\ IF c.files = {}
       THEN Answer(r, c, "failed") /\ UNCHANGED managers
       ELSE /\ managers' = [managers EXCEPT ![c.token] = WithChunk(m, r, c.files, c.full)]
            /\ To(r, [c EXCEPT !.pc = "pushed", !.into = m.owner])
    /\ UNCHANGED <<open, stored, described, now>>

(* The client hears of it behind the hooks' awaits. *)
Acknowledge(r) ==
    /\ req[r].pc = "pushed"
    /\ Answer(r, req[r], "next")
    /\ UNCHANGED <<open, managers, stored, described, now>>

-----------------------------------------------------------------------------
(* Completion. *)

(* Mutant: the transition stays redeemable. *)
Stay(t) == open

Redeemed(t) == [open EXCEPT ![t] = None]

(* A request without `next` takes the transition out of the cache. *)
CompleteRequest(r, t, list) ==
    /\ req[r].pc = "idle"
    /\ LET c == [Arrival(t) EXCEPT !.todo = list, !.last = TRUE, !.late = Uploading(t)]
       IN IF open[t] # None THEN To(r, [c EXCEPT !.pc = "complete"])
          ELSE Answer(r, c, "unavailable")
    /\ open' = Redeemed(t)
    /\ UNCHANGED <<managers, stored, described, now>>

Blob(m, f) == IF m.one THEN m.all ELSE m.by[f]

(* Mutant: no differentiator. *)
StoreNameBare(f) == f

(* file_entry_id: the differentiator is the time. *)
StoreName(f) == <<f, now>>

(* chunks_complete takes the next file: its chunks are put together before *)
(* store_data is awaited.  A file nobody announced is passed over.         *)
ChunkMover(r) ==
    LET c == req[r]
        m == managers[c.token]
        f == Head(c.todo)
        blob == Blob(m, f)
    IN
    /\ c.pc = "complete"
    /\ \/ /\ c.todo = <<>>
          /\ Answer(r, c, "stored")
       \/ /\ c.todo # <<>>
          /\ blob = None
          /\ To(r, [c EXCEPT !.todo = Tail(@)])
       \/ /\ c.todo # <<>>
          /\ blob # None
          /\ To(r, [c EXCEPT !.pc = "store", !.path = StoreName(f), !.from = m.owner,
                          !.data = blob])
    /\ UNCHANGED <<open, managers, stored, described, now>>

(* store_data has written the file, or rejects and the request fails. *)
StoreData(r) ==
    LET c == req[r] IN
    /\ c.pc = "store"
    /\ \/ /\ stored' = stored \cup {[by |-> r, from |-> c.from, file |-> Head(c.todo),
                                     path |-> c.path, data |-> c.data]}
          /\ To(r, [c EXCEPT !.pc = "complete", !.todo = Tail(@)])
       \/ /\ Answer(r, c, "error")
          /\ UNCHANGED stored
    /\ UNCHANGED <<open, managers, described, now>>

-----------------------------------------------------------------------------
(* upload_file: every file is handed to mv and the request answered at     *)
(* once; the callbacks come later.                                         *)
UploadFile(r, names) ==
    /\ req[r].pc = "idle"
    /\ IF names = {} THEN Answer(r, Idle, "failed")
       ELSE To(r, [Idle EXCEPT !.pc = "moving", !.answer = "stored",
                               !.files = {StoreName(f) : f \in names}])
    /\ UNCHANGED <<open, managers, stored, described, now>>

(* The callback tells the database of a file that is in place, and nobody  *)
(* but the session manager of one that is not.                             *)
Moves(r) ==
    /\ req[r].pc = "moving"
    /\ \E p \in req[r].files, ok \in BOOLEAN :
          /\ described' = IF ok THEN described \cup {p} ELSE described
          /\ LET rest == req[r].files \ {p}
             IN To(r, [req[r] EXCEPT !.files = rest,
                                     !.pc = IF rest = {} THEN "done" ELSE "moving"])
    /\ UNCHANGED <<open, managers, stored, now>>

Tick ==
    /\ now < MaxTime
    /\ now' = now + 1
    /\ UNCHANGED <<open, managers, req, stored, described>>

-----------------------------------------------------------------------------

Lists == {l \in SeqOf(Files, MaxList) : IsInjective(l)}

Next ==
    \/ \E r \in Req :
          \/ \E t \in Tokens, names \in SUBSET Files : FilesComingInChunks(r, t, names)
          \/ \E t \in Tokens, names \in SUBSET Files :
                \E full \in SUBSET names : ChunkRequest(r, t, names, full)
          \/ \E t \in Tokens, list \in Lists : CompleteRequest(r, t, list)
          \/ \E names \in SUBSET Files : UploadFile(r, names)
          \/ StoreTransition(r) \/ UploadChunk(r) \/ Acknowledge(r)
          \/ ChunkMover(r) \/ StoreData(r) \/ Moves(r)
    \/ Tick

Spec == Init /\ [][Next]_vars

-----------------------------------------------------------------------------
(* Properties. *)

Paths == Files \X (0..MaxTime)
Activation ==
    [pc : {"idle", "offer", "upload", "pushed", "complete", "store", "moving", "done"},
     token : Tokens \cup {None}, files : SUBSET (Files \cup Paths), full : SUBSET Files,
     offer : Req \cup {None}, last : BOOLEAN, into : Req \cup {None},
     seen : SUBSET Req, late : BOOLEAN,
     todo : Seq(Files), path : Paths \cup {None}, from : Req \cup {None}, data : Chunks,
     answer : {"none", "prepared", "next", "failed", "unavailable", "stored", "error"}]

(* Every variable has its type. *)
TypeOK ==
    /\ open \in [Tokens -> Req \cup {None}]
    /\ managers \in [Tokens -> {None} \cup Managers]
    /\ req \in [Req -> Activation]
    /\ stored \subseteq [by : Req, from : Req, file : Files, path : Paths, data : Chunks]
    /\ described \subseteq Paths
    /\ now \in 0..MaxTime

(* Request r brings a chunk that the manager prepared by p keeps for file  *)
(* f: there is data, and a list of files was announced with f in it, or    *)
(* none was and r has one file only.  Other chunks are acknowledged too.   *)
Brings(r, f, p) ==
    IF req[p].files = {} THEN \E g \in req[r].full : req[r].files = {g}
    ELSE f \in req[p].files /\ f \in req[r].full

(* The chunks that were put where w was taken from: not into a manager     *)
(* that was replaced, under the same token, before w was put together.     *)
Kept(w) == {r \in Acknowledged : req[r].into = w.from /\ Brings(r, w.file, w.from)}

(* What is written has every chunk that was acknowledged before the        *)
(* completing request arrived, however many others are on their way, and a *)
(* chunk behind those that were acknowledged before it was sent; except    *)
(* for what upload_chunk drops and what went into a replaced manager.      *)
StoredHasAcknowledged ==
    \A w \in stored :
        LET owed == Kept(w) \cap req[w.by].seen
        IN \A r \in owed :
              \E k \in DOMAIN w.data :
                  /\ w.data[k] = r
                  /\ \A q \in owed \cap req[r].seen : \E l \in 1..(k - 1) : w.data[l] = q

(* Two requests to complete the same upload do not both write its files:   *)
(* the second one finds no transition.                                     *)
StoredByOne ==
    \A w1, w2 \in stored : req[w1.by].offer = req[w2.by].offer => w1.by = w2.by

(* A client that has all its answers when it completes its upload is never *)
(* acknowledged a chunk that is not in the file, save those exceptions:    *)
(* no chunk gets in behind the completion.                                 *)
StoredIsFinal ==
    \A w \in stored :
        ~req[w.by].late =>
            \A r \in Kept(w) : req[r].offer = req[w.by].offer => r \in Range(w.data)

(* An upload is written once and for good, however often its completion is *)
(* sent, however late its chunks come in and whoever uses its token again. *)
StoredOnce == StoredByOne /\ StoredIsFinal

(* What requests get out of the token cache here is what the transition    *)
(* contract allows, the contract that TransitionHandling implements: an    *)
(* upload is offered under its token, chunks use the offer, completion     *)
(* closes it, and so does another upload under the token.                  *)
OfferOf(p) ==
    IF req[p].answer # "prepared" THEN "none"
    ELSE IF open[req[p].token] = p THEN "open" ELSE "closed"

WorkOf(s) ==
    IF req[s].offer = None THEN None
    ELSE [offer |-> req[s].offer, last |-> req[s].last]

Contract == INSTANCE TransitionContract
                WITH offer <- [p \in Req |-> OfferOf(p)],
                     work <- [s \in Req |-> WorkOf(s)]

UsesContract == Contract!ContractSpec
=============================================================================
