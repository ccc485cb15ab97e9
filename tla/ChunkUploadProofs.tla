--------------------------- MODULE ChunkUploadProofs ---------------------------
(***************************************************************************)
(* Proofs about ChunkUpload for any sets of requests, tokens and files.    *)
(*                                                                         *)
(* A manager holds, in an order that respects what clients waited for, the *)
(* chunks that went into it since it was prepared; completing an upload    *)
(* closes it for good, so that of its chunks only those that were under    *)
(* way can still come.                                                     *)
(***************************************************************************)
EXTENDS ChunkUpload, TLAPS

(* Request p prepares an upload, or has. *)
Preparer(p) == req[p].pc = "offer" \/ req[p].answer = "prepared"

(* The chunks of S that belong to file f of the manager prepared by p.     *)
Belong(S, f, p) == {r \in S : req[r].into = p /\ Brings(r, f, p)}

(* Request r has put its chunk into a manager. *)
InManager == {r \in Req : req[r].pc = "pushed" \/ req[r].answer = "next"}

(* Sequence s has every chunk of S, behind those of S its client knew of   *)
(* when it sent it; a is req.                                              *)
InOrder(s, S, a) ==
    \A r \in S :
        \E k \in DOMAIN s :
            s[k] = r /\ \A q \in S \cap a[r].seen : \E l \in 1..(k - 1) : s[l] = q

(* What an activation is at each stage. *)
StageOK(r) ==
    LET c == req[r] IN
    /\ c.pc = "idle" => c = Idle
    /\ c.pc = "offer" => /\ c.token \in Tokens /\ managers[c.token] # None
                         /\ c.answer = "none" /\ c.offer = None
    /\ c.answer = "prepared" => c.pc = "done" /\ c.token \in Tokens /\ c.offer = None
    /\ c.pc \in {"upload", "pushed"} => ~c.last /\ c.answer = "none" /\ c.offer # None
    /\ c.pc \in {"complete", "store"} => c.last /\ c.answer = "none" /\ c.offer # None
    /\ c.pc = "moving" => c.offer = None /\ c.files \subseteq Paths /\ c.answer = "stored"
    /\ c.answer = "next" => c.pc = "done" /\ ~c.last /\ c.offer # None
    /\ c.pc = "pushed" \/ c.answer = "next" => c.into # None /\ Preparer(c.into)
    /\ c.pc = "store" =>
          /\ c.todo # <<>> /\ c.path \in Paths /\ c.from # None /\ Preparer(c.from)
          /\ InOrder(c.data, Belong(c.seen, Head(c.todo), c.from), req)

(* What the transition that a request found is; what it knew of is still   *)
(* acknowledged.                                                           *)
FoundOK(r) ==
    LET c == req[r] IN
    /\ c.seen \subseteq Acknowledged
    /\ c.offer # None =>
          /\ req[c.offer].answer = "prepared" /\ req[c.offer].token = c.token
          /\ c.token \in Tokens /\ managers[c.token] # None

Stages == \A r \in Req : StageOK(r) /\ FoundOK(r)

(* A manager is its owner's, and holds what belongs to it. *)
ManagerOK(t) ==
    LET m == managers[t] IN
    m # None =>
        /\ Preparer(m.owner) /\ req[m.owner].token = t
        /\ m.one <=> req[m.owner].files = {}
        /\ \A f \in Files :
              /\ ~m.one => (m.by[f] # None <=> f \in req[m.owner].files)
              /\ Blob(m, f) # None => InOrder(Blob(m, f), Belong(InManager, f, m.owner), req)

(* An open token has an upload that was prepared under it. *)
OpenOK(t) ==
    open[t] # None =>
        req[open[t]].answer = "prepared" /\ req[open[t]].token = t /\ managers[t] # None

Tables == \A t \in Tokens : ManagerOK(t) /\ OpenOK(t)

(* Request r took the transition of its token out of the cache. *)
Completing(r) == req[r].last /\ req[r].offer # None

(* Behind its completion, an upload is closed; and if no chunk of its was  *)
(* on its way then, none is ever again.                                    *)
CompletionOK(r) ==
    /\ open[req[r].token] # req[r].offer
    /\ \A s \in Req :
          req[s].offer = req[r].offer =>
              /\ req[s].last => s = r
              /\ ~req[r].late =>
                    /\ req[s].pc \notin {"upload", "pushed"}
                    /\ req[s].answer = "next" => s \in req[r].seen

Completed == \A r \in Req : Completing(r) => CompletionOK(r)

(* What was written was put together by the completing request. *)
Written ==
    \A w \in stored :
        /\ Completing(w.by) /\ Preparer(w.from)
        /\ InOrder(w.data, Belong(req[w.by].seen, w.file, w.from), req)

IInv == TypeOK /\ Stages /\ Tables /\ Completed /\ Written

-----------------------------------------------------------------------------
(* Orders. *)

(* A part of what is in order is, and only what was known counts. *)
LEMMA OrderOfPart ==
  ASSUME NEW s, NEW S, NEW T \in SUBSET S, NEW a, NEW b, InOrder(s, S, a),
         \A r \in T : b[r].seen = a[r].seen
  PROVE  InOrder(s, T, b)
BY DEF InOrder

(* A chunk that is put behind the others keeps the order. *)
LEMMA OrderPushed ==
  ASSUME NEW s \in Chunks, NEW S, NEW r \in Req, NEW a, InOrder(s, S, a),
         r \notin S, \A q \in S \cup {r} : r \notin a[q].seen
  PROVE  InOrder(Pushed(s, r), S \cup {r}, a)
<1> DEFINE u == Append(s, r)
<1>1. s \in Seq(Req) /\ Len(s) \in Nat /\ DOMAIN s = 1..Len(s)
  BY DEF Chunks
<1>2. /\ DOMAIN u = 1..(Len(s) + 1)
      /\ u[Len(s) + 1] = r
      /\ \A i \in 1..Len(s) : u[i] = s[i]
  BY <1>1
<1>3. Pushed(s, r) = u
  BY DEF Pushed
<1> HIDE DEF u
<1>4. ASSUME NEW q \in S
      PROVE  \E k \in DOMAIN u :
                u[k] = q /\ \A z \in (S \cup {r}) \cap a[q].seen :
                                \E l \in 1..(k - 1) : u[l] = z
  <2>1. PICK k \in 1..Len(s) :
               s[k] = q /\ \A z \in S \cap a[q].seen : \E l \in 1..(k - 1) : s[l] = z
    BY <1>1 DEF InOrder
  <2>2. k \in DOMAIN u /\ u[k] = q
    BY <1>1, <1>2, <2>1
  <2>3. ASSUME NEW z \in (S \cup {r}) \cap a[q].seen PROVE \E l \in 1..(k - 1) : u[l] = z
    <3>1. z \in S
      OBVIOUS
    <3>2. PICK l \in 1..(k - 1) : s[l] = z
      BY <2>1, <2>3, <3>1
    <3>3. l \in 1..Len(s)
      BY <1>1
    <3> QED BY <1>2, <3>2, <3>3
  <2> QED BY <2>2, <2>3
<1>5. \E k \in DOMAIN u :
         u[k] = r /\ \A z \in (S \cup {r}) \cap a[r].seen : \E l \in 1..(k - 1) : u[l] = z
  <2>1. Len(s) + 1 \in DOMAIN u /\ u[Len(s) + 1] = r
    BY <1>1, <1>2
  <2>2. ASSUME NEW z \in (S \cup {r}) \cap a[r].seen
        PROVE  \E l \in 1..((Len(s) + 1) - 1) : u[l] = z
    <3>1. z \in S
      OBVIOUS
    <3>2. PICK l \in 1..Len(s) : s[l] = z
      BY <1>1, <3>1 DEF InOrder
    <3>3. l \in 1..((Len(s) + 1) - 1)
      BY <1>1
    <3> QED BY <1>2, <3>2, <3>3
  <2> QED BY <2>1, <2>2
<1>6. InOrder(u, S \cup {r}, a)
  BY <1>4, <1>5 DEF InOrder
<1> QED BY <1>3, <1>6

-----------------------------------------------------------------------------
(* Chunk managers. *)

(* The manager of a new upload. *)
LEMMA ManagerType ==
  ASSUME NEW r \in Req, NEW names \in SUBSET Files
  PROVE  ManagerFor(r, names) \in Managers /\ ManagerFor(r, names) # None
<1>1. <<>> \in Chunks
  BY DEF Chunks
<1>2. ManagerFor(r, names) \in Managers
  BY <1>1 DEF ManagerFor, Managers
<1> QED BY <1>2, UploadAssumption

(* What upload_chunk makes of a manager. *)
LEMMA WithChunkIs ==
  ASSUME NEW m \in Managers, NEW r \in Req, NEW names, NEW full
  PROVE  /\ WithChunk(m, r, names, full) \in Managers
         /\ WithChunk(m, r, names, full) # None
         /\ WithChunk(m, r, names, full).owner = m.owner
         /\ WithChunk(m, r, names, full).one = m.one
         /\ \A f \in Files :
               /\ WithChunk(m, r, names, full).by[f] = None <=> m.by[f] = None
               /\ Blob(m, f) # None =>
                     Blob(WithChunk(m, r, names, full), f) =
                         IF IF m.one THEN \E g \in full : names = {g} ELSE f \in full
                         THEN Pushed(Blob(m, f), r) ELSE Blob(m, f)
<1> DEFINE n == WithChunk(m, r, names, full)
<1>0. /\ m.owner \in Req /\ m.one \in BOOLEAN /\ m.all \in Chunks
      /\ m.by \in [Files -> {None} \cup Chunks]
  BY DEF Managers
<1>1. \A s \in Chunks : Pushed(s, r) \in Chunks
  BY DEF Pushed, Chunks
<1>2. CASE m.one
  <2>1. /\ n.owner = m.owner /\ n.one = m.one /\ n.by = m.by
        /\ n.all = IF \E g \in full : names = {g} THEN Pushed(m.all, r) ELSE m.all
        /\ n = [owner |-> n.owner, one |-> n.one, all |-> n.all, by |-> n.by]
    BY <1>0, <1>2 DEF WithChunk, Managers
  <2>2. n \in Managers
    BY <1>0, <1>1, <2>1 DEF Managers
  <2> HIDE DEF n
  <2>3. \A f \in Files : Blob(n, f) = n.all /\ Blob(m, f) = m.all
    BY <1>2, <2>1 DEF Blob
  <2>4. n # None
    BY <2>2, UploadAssumption
  <2> QED BY <1>2, <2>1, <2>2, <2>3, <2>4 DEF n
<1>3. CASE ~m.one
  <2>1. /\ n.owner = m.owner /\ n.one = m.one /\ n.all = m.all
        /\ n.by = [f \in Files |-> IF f \in full /\ m.by[f] # None
                                   THEN Pushed(m.by[f], r) ELSE m.by[f]]
        /\ n = [owner |-> n.owner, one |-> n.one, all |-> n.all, by |-> n.by]
    BY <1>0, <1>3 DEF WithChunk, Managers
  <2> HIDE DEF n
  <2>2. ASSUME NEW f \in Files
        PROVE  /\ n.by[f] \in {None} \cup Chunks
               /\ n.by[f] = None <=> m.by[f] = None
               /\ Blob(n, f) = n.by[f] /\ Blob(m, f) = m.by[f]
               /\ m.by[f] # None =>
                     n.by[f] = IF f \in full THEN Pushed(m.by[f], r) ELSE m.by[f]
    BY <1>0, <1>1, <1>3, <2>1, UploadAssumption DEF Blob
  <2>3. n.by \in [Files -> {None} \cup Chunks]
    BY <2>1, <2>2
  <2>4. n \in Managers /\ n # None
    BY <1>0, <2>1, <2>3, UploadAssumption DEF Managers
  <2> QED BY <1>3, <2>1, <2>2, <2>4 DEF n
<1> QED BY <1>0, <1>2, <1>3

-----------------------------------------------------------------------------
(* Activations. *)

(* What requests put in their activation has the type of one. *)
LEMMA ActivationTypes ==
  ASSUME TypeOK
  PROVE  /\ Idle \in Activation
         /\ \A l \in Lists : l \in Seq(Files)
         /\ \A f \in Files : StoreName(f) \in Paths
         /\ \A t \in Tokens : Arrival(t) \in Activation
<1>1. <<>> \in Seq(Files) /\ <<>> \in Chunks
  BY DEF Chunks
<1>2. Idle \in Activation
  BY <1>1 DEF Idle, Activation
<1>3. ASSUME NEW l \in Lists PROVE l \in Seq(Files)
  <2>1. PICK m \in 0..MaxList : l \in [1..m -> Files]
    BY DEF Lists, SeqOf
  <2> QED BY <2>1, UploadAssumption
<1>4. ASSUME NEW f \in Files PROVE StoreName(f) \in Paths
  BY DEF TypeOK, StoreName, Paths
<1>5. ASSUME NEW t \in Tokens PROVE Arrival(t) \in Activation
  <2>1. Acknowledged \in SUBSET Req /\ open[t] \in Req \cup {None}
    BY DEF Acknowledged, TypeOK
  <2> QED BY <1>2, <2>1 DEF Arrival, Activation
<1> QED BY <1>2, <1>3, <1>4, <1>5

(* What a step leaves in the activations. *)
LEMMA ToIs ==
  ASSUME TypeOK, NEW r \in Req, NEW c \in Activation, To(r, c)
  PROVE  /\ req'[r] = c /\ \A s \in Req \ {r} : req'[s] = req[s]
         /\ req' \in [Req -> Activation]
BY DEF To, TypeOK

(* What an answer leaves in the activations. *)
LEMMA AnswerIs ==
  ASSUME TypeOK, NEW r \in Req, NEW c \in Activation,
         NEW a \in {"none", "prepared", "next", "failed", "unavailable", "stored", "error"},
         Answer(r, c, a)
  PROVE  /\ req'[r] = [c EXCEPT !.pc = "done", !.answer = a]
         /\ \A s \in Req \ {r} : req'[s] = req[s]
         /\ req' \in [Req -> Activation]
<1>1. [c EXCEPT !.pc = "done", !.answer = a] \in Activation
  BY DEF Activation
<1> QED BY <1>1, ToIs DEF Answer

-----------------------------------------------------------------------------
(* What the steps do: each leaves the other requests alone, and takes no   *)
(* manager away.                                                           *)

(* The step is one of request r, which is not done. *)
Turn(r) ==
    /\ \A s \in Req \ {r} : req'[s] = req[s]
    /\ \A t \in Tokens : managers[t] # None => managers'[t] # None
    /\ req[r].answer \notin {"prepared", "next"}
    /\ req[r].pc = "offer" =>
          req'[r].files = req[r].files /\ req'[r].token = req[r].token /\ Preparer(r)'

(* The request keeps what it arrived with. *)
Same(r) ==
    /\ req'[r].token = req[r].token /\ req'[r].files = req[r].files
    /\ req'[r].full = req[r].full /\ req'[r].offer = req[r].offer
    /\ req'[r].last = req[r].last /\ req'[r].seen = req[r].seen
    /\ req'[r].late = req[r].late

(* files_coming_in_chunks. *)
LEMMA FilesComingIs ==
  ASSUME IInv, NEW r \in Req, NEW t \in Tokens, NEW names \in SUBSET Files,
         FilesComingInChunks(r, t, names)
  PROVE  /\ TypeOK' /\ Turn(r)
         /\ req[r] = Idle /\ req'[r] = [Idle EXCEPT !.pc = "offer", !.token = t, !.files = names]
         /\ req'[r].pc = "offer" /\ req'[r].token = t /\ req'[r].files = names
         /\ req'[r].offer = None /\ req'[r].answer = "none" /\ ~req'[r].last
         /\ req'[r].seen = {} /\ open' = open /\ stored' = stored
         /\ managers'[t] = ManagerFor(r, names)
         /\ \A u \in Tokens \ {t} : managers'[u] = managers[u]
<1> DEFINE c == [Idle EXCEPT !.pc = "offer", !.token = t, !.files = names]
<1>0. TypeOK /\ req[r].pc = "idle" /\ req[r] = Idle /\ Idle.answer = "none"
  BY DEF IInv, Stages, StageOK, FilesComingInChunks, Idle
<1>1. c \in Activation
  BY <1>0, ActivationTypes DEF Activation
<1>2. To(r, c) /\ open' = open /\ stored' = stored /\ described' = described /\ now' = now
      /\ managers' = [managers EXCEPT ![t] = ManagerFor(r, names)]
  BY DEF FilesComingInChunks
<1>3. /\ c.pc = "offer" /\ c.token = t /\ c.files = names
      /\ c.offer = None /\ c.answer = "none" /\ ~c.last /\ c.seen = {}
  BY DEF Idle
<1>4. /\ req'[r] = c /\ \A s \in Req \ {r} : req'[s] = req[s]
      /\ req' \in [Req -> Activation]
  <2> HIDE DEF c
  <2> QED BY <1>0, <1>1, <1>2, ToIs
<1> HIDE DEF c
<1>5. ManagerFor(r, names) \in Managers /\ ManagerFor(r, names) # None
  BY ManagerType
<1>6. /\ managers'[t] = ManagerFor(r, names)
      /\ \A u \in Tokens \ {t} : managers'[u] = managers[u]
      /\ managers' \in [Tokens -> {None} \cup Managers]
  BY <1>0, <1>2, <1>5 DEF TypeOK
<1>7. TypeOK'
  BY <1>0, <1>2, <1>4, <1>6 DEF TypeOK
<1>8. Turn(r)
  BY <1>0, <1>4, <1>5, <1>6 DEF Turn
<1> QED BY <1>0, <1>2, <1>3, <1>4, <1>6, <1>7, <1>8 DEF c

(* The transition is stored. *)
LEMMA StoreTransitionIs ==
  ASSUME IInv, NEW r \in Req, StoreTransition(r)
  PROVE  /\ TypeOK' /\ Turn(r) /\ Same(r)
         /\ req[r].pc = "offer" /\ req[r].answer = "none" /\ req[r].offer = None
         /\ req[r].token \in Tokens
         /\ req'[r].pc = "done" /\ req'[r].answer = "prepared"
         /\ managers' = managers /\ stored' = stored
         /\ open'[req[r].token] = r
         /\ \A u \in Tokens \ {req[r].token} : open'[u] = open[u]
<1>0. /\ TypeOK /\ req[r] \in Activation /\ req[r].pc = "offer" /\ req[r].answer = "none"
      /\ req[r].token \in Tokens /\ req[r].offer = None
  BY DEF IInv, Stages, StageOK, StoreTransition, TypeOK
<1>1. /\ req'[r] = [req[r] EXCEPT !.pc = "done", !.answer = "prepared"]
      /\ \A s \in Req \ {r} : req'[s] = req[s]
      /\ req' \in [Req -> Activation]
  BY <1>0, AnswerIs DEF StoreTransition
<1>2. Same(r) /\ req'[r].pc = "done" /\ req'[r].answer = "prepared"
  BY <1>0, <1>1 DEF Same, Activation
<1>3. /\ managers' = managers /\ stored' = stored /\ described' = described /\ now' = now
      /\ open' = [open EXCEPT ![req[r].token] = r]
  BY DEF StoreTransition
<1>4. TypeOK'
  BY <1>0, <1>1, <1>3 DEF TypeOK
<1>5. Turn(r)
  BY <1>0, <1>1, <1>2, <1>3 DEF Turn, Same, Preparer
<1> QED BY <1>0, <1>1, <1>2, <1>3, <1>4, <1>5 DEF TypeOK

(* A chunk comes in. *)
LEMMA ChunkRequestIs ==
  ASSUME IInv, NEW r \in Req, NEW t \in Tokens, NEW names \in SUBSET Files,
         NEW full \in SUBSET names, ChunkRequest(r, t, names, full)
  PROVE  /\ TypeOK' /\ Turn(r)
         /\ req[r] = Idle /\ req'[r].token = t /\ req'[r].offer = open[t]
         /\ req'[r].seen = Acknowledged /\ ~req'[r].last
         /\ IF open[t] # None THEN req'[r].pc = "upload" /\ req'[r].answer = "none"
            ELSE req'[r].pc = "done" /\ req'[r].answer = "unavailable"
         /\ open' = open /\ managers' = managers /\ stored' = stored
<1> DEFINE c == [Arrival(t) EXCEPT !.files = names, !.full = full]
<1>0. TypeOK /\ req[r].pc = "idle" /\ req[r] = Idle /\ Idle.answer = "none"
  BY DEF IInv, Stages, StageOK, ChunkRequest, Idle
<1>1. c \in Activation /\ [c EXCEPT !.pc = "upload"] \in Activation
  <2>1. Arrival(t) \in Activation
    BY <1>0, ActivationTypes
  <2>2. c \in Activation
    BY <2>1 DEF Activation
  <2> HIDE DEF c
  <2>3. [c EXCEPT !.pc = "upload"] \in Activation
    BY <2>2 DEF Activation
  <2> QED BY <2>2, <2>3
<1>2. /\ IF open[t] # None THEN To(r, [c EXCEPT !.pc = "upload"])
        ELSE Answer(r, c, "unavailable")
      /\ open' = open /\ managers' = managers /\ stored' = stored
      /\ described' = described /\ now' = now
  BY DEF ChunkRequest
<1>3. /\ c.token = t /\ c.offer = open[t] /\ c.seen = Acknowledged /\ ~c.last
      /\ c.answer = "none"
  BY DEF Arrival, Idle
<1> HIDE DEF c
<1>4. /\ req'[r] = IF open[t] # None THEN [c EXCEPT !.pc = "upload"]
                   ELSE [c EXCEPT !.pc = "done", !.answer = "unavailable"]
      /\ \A s \in Req \ {r} : req'[s] = req[s]
      /\ req' \in [Req -> Activation]
  <2>1. CASE open[t] # None
    BY <1>0, <1>1, <1>2, <2>1, ToIs
  <2>2. CASE open[t] = None
    BY <1>0, <1>1, <1>2, <2>2, AnswerIs
  <2> QED BY <2>1, <2>2
<1>5. /\ req'[r].token = t /\ req'[r].offer = open[t]
      /\ req'[r].seen = Acknowledged /\ ~req'[r].last
      /\ IF open[t] # None THEN req'[r].pc = "upload" /\ req'[r].answer = "none"
         ELSE req'[r].pc = "done" /\ req'[r].answer = "unavailable"
  BY <1>1, <1>3, <1>4 DEF Activation
<1>6. TypeOK'
  BY <1>0, <1>2, <1>4 DEF TypeOK
<1>7. Turn(r)
  BY <1>0, <1>2, <1>4 DEF Turn
<1> QED BY <1>0, <1>2, <1>5, <1>6, <1>7

(* A completing request comes in. *)
LEMMA CompleteRequestIs ==
  ASSUME IInv, NEW r \in Req, NEW t \in Tokens, NEW list \in Lists,
         CompleteRequest(r, t, list)
  PROVE  /\ TypeOK' /\ Turn(r)
         /\ req[r] = Idle /\ req'[r].token = t /\ req'[r].offer = open[t]
         /\ req'[r].seen = Acknowledged /\ req'[r].last /\ req'[r].late = Uploading(t)
         /\ IF open[t] # None THEN req'[r].pc = "complete" /\ req'[r].answer = "none"
            ELSE req'[r].pc = "done" /\ req'[r].answer = "unavailable"
         /\ open'[t] = None /\ \A u \in Tokens \ {t} : open'[u] = open[u]
         /\ managers' = managers /\ stored' = stored
<1> DEFINE c == [Arrival(t) EXCEPT !.todo = list, !.last = TRUE, !.late = Uploading(t)]
<1>0. TypeOK /\ req[r].pc = "idle" /\ req[r] = Idle /\ Idle.answer = "none"
  BY DEF IInv, Stages, StageOK, CompleteRequest, Idle
<1>1. c \in Activation /\ [c EXCEPT !.pc = "complete"] \in Activation
  <2>1. Arrival(t) \in Activation /\ list \in Seq(Files)
    BY <1>0, ActivationTypes
  <2>2. Uploading(t) \in BOOLEAN
    BY DEF Uploading
  <2>3. c \in Activation
    BY <2>1, <2>2 DEF Activation
  <2> HIDE DEF c
  <2>4. [c EXCEPT !.pc = "complete"] \in Activation
    BY <2>3 DEF Activation
  <2> QED BY <2>3, <2>4
<1>2. /\ IF open[t] # None THEN To(r, [c EXCEPT !.pc = "complete"])
        ELSE Answer(r, c, "unavailable")
      /\ open' = [open EXCEPT ![t] = None] /\ managers' = managers /\ stored' = stored
      /\ described' = described /\ now' = now
  BY DEF CompleteRequest, Redeemed
<1>3. /\ c.token = t /\ c.offer = open[t] /\ c.seen = Acknowledged /\ c.last
      /\ c.late = Uploading(t) /\ c.answer = "none"
  BY DEF Arrival, Idle
<1> HIDE DEF c
<1>4. /\ req'[r] = IF open[t] # None THEN [c EXCEPT !.pc = "complete"]
                   ELSE [c EXCEPT !.pc = "done", !.answer = "unavailable"]
      /\ \A s \in Req \ {r} : req'[s] = req[s]
      /\ req' \in [Req -> Activation]
  <2>1. CASE open[t] # None
    BY <1>0, <1>1, <1>2, <2>1, ToIs
  <2>2. CASE open[t] = None
    BY <1>0, <1>1, <1>2, <2>2, AnswerIs
  <2> QED BY <2>1, <2>2
<1>5. /\ req'[r].token = t /\ req'[r].offer = open[t]
      /\ req'[r].seen = Acknowledged /\ req'[r].last /\ req'[r].late = Uploading(t)
      /\ IF open[t] # None THEN req'[r].pc = "complete" /\ req'[r].answer = "none"
         ELSE req'[r].pc = "done" /\ req'[r].answer = "unavailable"
  BY <1>1, <1>3, <1>4 DEF Activation
<1>6. TypeOK'
  BY <1>0, <1>2, <1>4 DEF TypeOK
<1>7. Turn(r)
  BY <1>0, <1>2, <1>4 DEF Turn
<1> QED BY <1>0, <1>2, <1>5, <1>6, <1>7 DEF TypeOK

(* upload_chunk. *)
LEMMA UploadChunkIs ==
  ASSUME IInv, NEW r \in Req, UploadChunk(r)
  PROVE  LET t == req[r].token
             m == managers[t]
         IN  /\ TypeOK' /\ Turn(r) /\ Same(r)
             /\ req[r].pc = "upload" /\ req[r].answer = "none" /\ ~req[r].last
             /\ req[r].offer # None
             /\ t \in Tokens /\ m \in Managers
             /\ \/ /\ req'[r].pc = "done" /\ req'[r].answer = "failed"
                   /\ managers' = managers
                \/ /\ req'[r].pc = "pushed" /\ req'[r].answer = "none"
                   /\ req'[r].into = m.owner
                   /\ managers'[t] = WithChunk(m, r, req[r].files, req[r].full)
                   /\ \A u \in Tokens \ {t} : managers'[u] = managers[u]
             /\ open' = open /\ stored' = stored
<1> DEFINE t == req[r].token
           m == managers[t]
<1>0. /\ TypeOK /\ req[r] \in Activation /\ req[r].pc = "upload" /\ req[r].answer = "none"
      /\ ~req[r].last /\ req[r].offer # None
      /\ t \in Tokens /\ m \in Managers
  BY DEF IInv, Stages, StageOK, FoundOK, UploadChunk, TypeOK
<1>1. open' = open /\ stored' = stored /\ described' = described /\ now' = now
  BY DEF UploadChunk
<1>2. CASE req[r].files = {}
  <2>1. Answer(r, req[r], "failed") /\ managers' = managers
    BY <1>2 DEF UploadChunk
  <2>2. /\ req'[r] = [req[r] EXCEPT !.pc = "done", !.answer = "failed"]
        /\ \A s \in Req \ {r} : req'[s] = req[s]
        /\ req' \in [Req -> Activation]
    BY <1>0, <2>1, AnswerIs
  <2>3. Same(r) /\ req'[r].pc = "done" /\ req'[r].answer = "failed"
    BY <1>0, <2>2 DEF Same, Activation
  <2>4. TypeOK' /\ Turn(r)
    BY <1>0, <1>1, <2>1, <2>2 DEF TypeOK, Turn
  <2> QED BY <1>0, <1>1, <2>1, <2>3, <2>4
<1>3. CASE req[r].files # {}
  <2> DEFINE n == WithChunk(m, r, req[r].files, req[r].full)
             c == [req[r] EXCEPT !.pc = "pushed", !.into = m.owner]
  <2>1. To(r, c) /\ managers' = [managers EXCEPT ![t] = n]
    BY <1>3 DEF UploadChunk
  <2>2. c \in Activation
    BY <1>0 DEF Activation, Managers
  <2>3. n \in Managers /\ n # None
    BY <1>0, WithChunkIs
  <2> HIDE DEF n
  <2>4. /\ managers'[t] = n /\ \A u \in Tokens \ {t} : managers'[u] = managers[u]
        /\ managers' \in [Tokens -> {None} \cup Managers]
    BY <1>0, <2>1, <2>3 DEF TypeOK
  <2>5. /\ req'[r] = c /\ \A s \in Req \ {r} : req'[s] = req[s]
        /\ req' \in [Req -> Activation]
    <3> HIDE DEF c
    <3> QED BY <1>0, <2>1, <2>2, ToIs
  <2>6. Same(r) /\ req'[r].pc = "pushed" /\ req'[r].answer = "none" /\ req'[r].into = m.owner
    BY <1>0, <2>5 DEF Same, Activation
  <2>7. TypeOK' /\ Turn(r)
    BY <1>0, <1>1, <2>3, <2>4, <2>5 DEF TypeOK, Turn
  <2> QED BY <1>0, <1>1, <2>4, <2>6, <2>7 DEF n
<1> QED BY <1>2, <1>3

(* The client of a chunk is answered. *)
LEMMA AcknowledgeIs ==
  ASSUME IInv, NEW r \in Req, Acknowledge(r)
  PROVE  /\ TypeOK' /\ Turn(r) /\ Same(r)
         /\ req[r].pc = "pushed" /\ req[r].answer = "none" /\ ~req[r].last
         /\ req[r].offer # None /\ req[r].into # None /\ Preparer(req[r].into)
         /\ req'[r].pc = "done" /\ req'[r].answer = "next" /\ req'[r].into = req[r].into
         /\ open' = open /\ managers' = managers /\ stored' = stored
<1>0. /\ TypeOK /\ req[r] \in Activation /\ req[r].pc = "pushed" /\ req[r].answer = "none"
      /\ ~req[r].last /\ req[r].offer # None /\ req[r].into # None /\ Preparer(req[r].into)
  BY DEF IInv, Stages, StageOK, Acknowledge, TypeOK
<1>1. /\ req'[r] = [req[r] EXCEPT !.pc = "done", !.answer = "next"]
      /\ \A s \in Req \ {r} : req'[s] = req[s]
      /\ req' \in [Req -> Activation]
  BY <1>0, AnswerIs DEF Acknowledge
<1>2. /\ Same(r) /\ req'[r].pc = "done" /\ req'[r].answer = "next"
      /\ req'[r].into = req[r].into
  BY <1>0, <1>1 DEF Same, Activation
<1>3. /\ managers' = managers /\ stored' = stored /\ described' = described /\ now' = now
      /\ open' = open
  BY DEF Acknowledge
<1>4. TypeOK' /\ Turn(r)
  BY <1>0, <1>1, <1>3 DEF TypeOK, Turn
<1> QED BY <1>0, <1>2, <1>3, <1>4

(* chunk_mover puts a file together, or passes one over, or is through. *)
LEMMA ChunkMoverIs ==
  ASSUME IInv, NEW r \in Req, ChunkMover(r)
  PROVE  LET m == managers[req[r].token]
             f == Head(req[r].todo)
         IN  /\ TypeOK' /\ Turn(r) /\ Same(r)
             /\ req[r].pc = "complete" /\ req[r].answer = "none" /\ req[r].last
             /\ req[r].offer # None /\ req[r].token \in Tokens /\ m \in Managers
             /\ \/ req'[r].pc = "done" /\ req'[r].answer = "stored"
                \/ req'[r].pc = "complete" /\ req'[r].answer = "none"
                \/ /\ req'[r].pc = "store" /\ req'[r].answer = "none"
                   /\ req[r].todo # <<>> /\ f \in Files /\ req'[r].todo = req[r].todo
                   /\ req'[r].path \in Paths /\ req'[r].from = m.owner
                   /\ Blob(m, f) # None /\ req'[r].data = Blob(m, f)
             /\ open' = open /\ managers' = managers /\ stored' = stored
<1> DEFINE c == req[r]
           m == managers[c.token]
           f == Head(c.todo)
<1>0. /\ TypeOK /\ c \in Activation /\ c.pc = "complete" /\ c.answer = "none"
      /\ c.last /\ c.offer # None /\ c.token \in Tokens /\ m \in Managers
      /\ c.todo \in Seq(Files)
  BY DEF IInv, Stages, StageOK, FoundOK, ChunkMover, TypeOK, Activation
<1>1. open' = open /\ managers' = managers /\ stored' = stored /\ described' = described /\ now' = now
  BY DEF ChunkMover
<1>2. CASE c.todo = <<>> /\ Answer(r, c, "stored")
  <2>1. /\ req'[r] = [c EXCEPT !.pc = "done", !.answer = "stored"]
        /\ \A s \in Req \ {r} : req'[s] = req[s]
        /\ req' \in [Req -> Activation]
    BY <1>0, <1>2, AnswerIs
  <2>2. Same(r) /\ req'[r].pc = "done" /\ req'[r].answer = "stored"
    <3>1. c \in Activation /\ c.answer = "none" /\ c.pc \in {"complete", "store"}
      BY <1>0
    <3> QED BY <3>1, <2>1 DEF Same, Activation
  <2>3. TypeOK' /\ Turn(r)
    BY <1>0, <1>1, <2>1 DEF TypeOK, Turn
  <2> QED BY <1>0, <1>1, <2>2, <2>3
<1>3. CASE c.todo # <<>> /\ To(r, [c EXCEPT !.todo = Tail(@)])
  <2> DEFINE d == [c EXCEPT !.todo = Tail(@)]
  <2>1. Tail(c.todo) \in Seq(Files)
    BY <1>0, <1>3
  <2>2. d \in Activation
    BY <1>0, <2>1 DEF Activation
  <2>3. /\ req'[r] = d /\ \A s \in Req \ {r} : req'[s] = req[s]
        /\ req' \in [Req -> Activation]
    <3> HIDE DEF d
    <3>1. To(r, d)
      BY <1>3 DEF d
    <3> QED BY <1>0, <2>2, <3>1, ToIs
  <2>4. Same(r) /\ req'[r].pc = "complete" /\ req'[r].answer = "none"
    <3>1. /\ d.token = c.token /\ d.files = c.files /\ d.full = c.full
          /\ d.offer = c.offer /\ d.last = c.last /\ d.seen = c.seen /\ d.late = c.late
          /\ d.pc = c.pc /\ d.answer = c.answer
      OBVIOUS
    <3> QED BY <1>0, <2>3, <3>1 DEF Same
  <2>5. TypeOK' /\ Turn(r)
    BY <1>0, <1>1, <2>3 DEF TypeOK, Turn
  <2> QED BY <1>0, <1>1, <2>4, <2>5
<1>4. CASE /\ c.todo # <<>> /\ Blob(m, f) # None
           /\ To(r, [c EXCEPT !.pc = "store", !.path = StoreName(f), !.from = m.owner,
                              !.data = Blob(m, f)])
  <2> DEFINE d == [c EXCEPT !.pc = "store", !.path = StoreName(f), !.from = m.owner,
                            !.data = Blob(m, f)]
  <2>1. f \in Files
    BY <1>0, <1>4
  <2>2. StoreName(f) \in Paths /\ m.owner \in Req /\ Blob(m, f) \in Chunks
    BY <1>0, <1>4, <2>1, ActivationTypes DEF Blob, Managers
  <2>3. d \in Activation
    BY <1>0, <2>2 DEF Activation
  <2>4. /\ req'[r] = d /\ \A s \in Req \ {r} : req'[s] = req[s]
        /\ req' \in [Req -> Activation]
    <3> HIDE DEF d
    <3>1. To(r, d)
      BY <1>4 DEF d
    <3> QED BY <1>0, <2>3, <3>1, ToIs
  <2>5. /\ Same(r) /\ req'[r].pc = "store" /\ req'[r].answer = "none"
        /\ req'[r].todo = c.todo /\ req'[r].path = StoreName(f)
        /\ req'[r].from = m.owner /\ req'[r].data = Blob(m, f)
    <3>1. c \in Activation /\ c.answer = "none" /\ c.pc \in {"complete", "store"}
      BY <1>0
    <3> QED BY <3>1, <2>4 DEF Same, Activation
  <2>6. TypeOK' /\ Turn(r)
    BY <1>0, <1>1, <2>4 DEF TypeOK, Turn
  <2> QED BY <1>0, <1>1, <1>4, <2>1, <2>2, <2>5, <2>6
<1> QED BY <1>2, <1>3, <1>4 DEF ChunkMover

(* store_data writes the file or rejects. *)
LEMMA StoreDataIs ==
  ASSUME IInv, NEW r \in Req, StoreData(r)
  PROVE  LET f == Head(req[r].todo)
         IN  /\ TypeOK' /\ Turn(r) /\ Same(r)
             /\ req[r].pc = "store" /\ req[r].answer = "none" /\ req[r].last
             /\ req[r].offer # None
             /\ \/ /\ req'[r].pc = "complete" /\ req'[r].answer = "none"
                   /\ stored' = stored \cup
                         {[by |-> r, from |-> req[r].from, file |-> f, path |-> req[r].path,
                           data |-> req[r].data]}
                \/ req'[r].pc = "done" /\ req'[r].answer = "error" /\ stored' = stored
             /\ open' = open /\ managers' = managers
<1> DEFINE c == req[r]
           w == [by |-> r, from |-> c.from, file |-> Head(c.todo), path |-> c.path,
                 data |-> c.data]
<1>0. /\ TypeOK /\ c \in Activation /\ c.pc = "store" /\ c.answer = "none"
      /\ c.last /\ c.offer # None /\ c.todo \in Seq(Files) /\ c.todo # <<>>
      /\ c.path \in Paths /\ c.from \in Req /\ c.data \in Chunks
  BY DEF IInv, Stages, StageOK, StoreData, TypeOK, Activation
<1>1. open' = open /\ managers' = managers /\ described' = described /\ now' = now
  BY DEF StoreData
<1>2. CASE /\ stored' = stored \cup {w}
           /\ To(r, [c EXCEPT !.pc = "complete", !.todo = Tail(@)])
  <2> DEFINE d == [c EXCEPT !.pc = "complete", !.todo = Tail(@)]
  <2>1. Tail(c.todo) \in Seq(Files) /\ Head(c.todo) \in Files
    BY <1>0
  <2>2. d \in Activation
    BY <1>0, <2>1 DEF Activation
  <2>3. /\ req'[r] = d /\ \A s \in Req \ {r} : req'[s] = req[s]
        /\ req' \in [Req -> Activation]
    <3> HIDE DEF d
    <3>1. To(r, d)
      BY <1>2 DEF d
    <3> QED BY <1>0, <2>2, <3>1, ToIs
  <2>4. Same(r) /\ req'[r].pc = "complete" /\ req'[r].answer = "none"
    <3>1. c \in Activation /\ c.answer = "none" /\ c.pc \in {"complete", "store"}
      BY <1>0
    <3> QED BY <3>1, <2>3 DEF Same, Activation
  <2>5. TypeOK'
    BY <1>0, <1>1, <1>2, <2>1, <2>3 DEF TypeOK
  <2>6. Turn(r)
    BY <1>0, <1>1, <2>3 DEF Turn
  <2> QED BY <1>0, <1>1, <1>2, <2>4, <2>5, <2>6
<1>3. CASE Answer(r, c, "error") /\ stored' = stored
  <2>1. /\ req'[r] = [c EXCEPT !.pc = "done", !.answer = "error"]
        /\ \A s \in Req \ {r} : req'[s] = req[s]
        /\ req' \in [Req -> Activation]
    BY <1>0, <1>3, AnswerIs
  <2>2. Same(r) /\ req'[r].pc = "done" /\ req'[r].answer = "error"
    <3>1. c \in Activation /\ c.answer = "none" /\ c.pc \in {"complete", "store"}
      BY <1>0
    <3> QED BY <3>1, <2>1 DEF Same, Activation
  <2>3. TypeOK' /\ Turn(r)
    BY <1>0, <1>1, <1>3, <2>1 DEF TypeOK, Turn
  <2> QED BY <1>0, <1>1, <1>3, <2>2, <2>3
<1> QED BY <1>2, <1>3 DEF StoreData

(* An activation whose files are being moved is one. *)
LEMMA MovingType ==
  ASSUME NEW c \in Activation, NEW fs \in SUBSET Paths, NEW p \in {"moving", "done"}
  PROVE  /\ [c EXCEPT !.files = fs, !.pc = p] \in Activation
         /\ [c EXCEPT !.pc = p, !.answer = "stored", !.files = fs] \in Activation
BY DEF Activation

(* A step of upload_file leaves the uploads in chunks alone. *)
Moving(r) ==
    /\ TypeOK' /\ Turn(r)
    /\ req[r].pc \in {"idle", "moving"} /\ req[r].offer = None
    /\ req[r].answer \in {"none", "stored"}
    /\ req'[r].offer = None /\ req'[r].seen = req[r].seen
    /\ \/ req'[r].pc = "done" /\ req'[r].answer \in {"stored", "failed"}
       \/ /\ req'[r].pc = "moving" /\ req'[r].answer = "stored"
          /\ req'[r].files \subseteq Paths
    /\ open' = open /\ managers' = managers /\ stored' = stored

(* upload_file and the callbacks of mv. *)
LEMMA MovingIs ==
  ASSUME IInv, NEW r \in Req, (\E names \in SUBSET Files : UploadFile(r, names)) \/ Moves(r)
  PROVE  Moving(r)
<1>0. TypeOK /\ req[r] \in Activation /\ StageOK(r) /\ FoundOK(r)
  BY DEF IInv, Stages, TypeOK
<1>1. ASSUME NEW names \in SUBSET Files, UploadFile(r, names)
      PROVE  Moving(r)
  <2>0. /\ req[r] = Idle /\ req[r].pc = "idle" /\ Idle \in Activation
        /\ Idle.offer = None /\ Idle.answer = "none" /\ Idle.seen = {}
    BY <1>0, <1>1, ActivationTypes DEF UploadFile, StageOK, Idle
  <2>1. /\ open' = open /\ managers' = managers /\ stored' = stored
        /\ described' = described /\ now' = now
    BY <1>1 DEF UploadFile
  <2>2. CASE Answer(r, Idle, "failed")
    <3>1. /\ req'[r] = [Idle EXCEPT !.pc = "done", !.answer = "failed"]
          /\ \A s \in Req \ {r} : req'[s] = req[s]
          /\ req' \in [Req -> Activation]
      BY <1>0, <2>0, <2>2, AnswerIs
    <3>2. /\ req'[r].pc = "done" /\ req'[r].answer = "failed"
          /\ req'[r].offer = None /\ req'[r].seen = {}
      BY <2>0, <3>1 DEF Activation
    <3>3. TypeOK' /\ Turn(r)
      BY <1>0, <2>0, <2>1, <3>1 DEF TypeOK, Turn
    <3> QED BY <2>0, <2>1, <3>2, <3>3 DEF Moving
  <2>3. CASE To(r, [Idle EXCEPT !.pc = "moving", !.answer = "stored",
                                !.files = {StoreName(f) : f \in names}])
    <3> DEFINE d == [Idle EXCEPT !.pc = "moving", !.answer = "stored",
                                 !.files = {StoreName(f) : f \in names}]
    <3>1. {StoreName(f) : f \in names} \subseteq Paths
      BY <1>0, ActivationTypes
    <3>2. d \in Activation
      BY <2>0, <3>1, MovingType
    <3>3. /\ d.pc = "moving" /\ d.answer = "stored" /\ d.offer = None /\ d.seen = {}
          /\ d.files \subseteq Paths
      BY <3>1 DEF Idle
    <3> HIDE DEF d
    <3>4. /\ req'[r] = d /\ \A s \in Req \ {r} : req'[s] = req[s]
          /\ req' \in [Req -> Activation]
      <4>1. To(r, d)
        BY <2>3 DEF d
      <4> QED BY <1>0, <3>2, <4>1, ToIs
    <3>5. TypeOK' /\ Turn(r)
      BY <1>0, <2>0, <2>1, <3>4 DEF TypeOK, Turn
    <3> QED BY <2>0, <2>1, <3>3, <3>4, <3>5 DEF Moving
  <2> QED BY <1>1, <2>2, <2>3 DEF UploadFile
<1>2. CASE Moves(r)
  <2> DEFINE d(q) == [req[r] EXCEPT !.files = req[r].files \ {q},
                                    !.pc = IF req[r].files \ {q} = {} THEN "done"
                                           ELSE "moving"]
  <2>0. /\ req[r].pc = "moving" /\ req[r].offer = None /\ req[r].answer = "stored"
        /\ req[r].files \subseteq Paths
    BY <1>0, <1>2 DEF Moves, StageOK
  <2>1. PICK q \in req[r].files, ok \in BOOLEAN :
            /\ To(r, d(q))
            /\ described' = IF ok THEN described \cup {q} ELSE described
    BY <1>2 DEF Moves
  <2>2. open' = open /\ managers' = managers /\ stored' = stored /\ now' = now
    BY <1>2 DEF Moves
  <2>3. /\ d(q) \in Activation
        /\ d(q).offer = None /\ d(q).seen = req[r].seen /\ d(q).answer = "stored"
        /\ d(q).pc \in {"done", "moving"} /\ d(q).files \subseteq Paths
    <3>1. req[r] \in Activation
      BY <1>0
    <3>2. d(q) \in Activation
      <4>1. req[r].files \ {q} \in SUBSET Paths
        BY <2>0
      <4> QED BY <3>1, <4>1, MovingType
    <3>3. d(q).offer = None /\ d(q).seen = req[r].seen /\ d(q).answer = "stored"
      BY <2>0, <3>1 DEF Activation
    <3>4. d(q).pc \in {"done", "moving"} /\ d(q).files \subseteq Paths
      BY <2>0, <3>1 DEF Activation
    <3> QED BY <3>2, <3>3, <3>4
  <2> HIDE DEF d
  <2>4. /\ req'[r] = d(q) /\ \A s \in Req \ {r} : req'[s] = req[s]
        /\ req' \in [Req -> Activation]
    BY <1>0, <2>1, <2>3, ToIs
  <2>5. TypeOK'
    BY <1>0, <2>0, <2>1, <2>2, <2>4 DEF TypeOK
  <2>6. Turn(r)
    BY <2>0, <2>2, <2>4 DEF Turn
  <2> QED BY <2>0, <2>2, <2>3, <2>4, <2>5, <2>6 DEF Moving
<1> QED BY <1>1, <1>2

-----------------------------------------------------------------------------
(* What a step of one request leaves of the invariant. *)

(* Whoever prepared an upload stays its preparer. *)
LEMMA PreparersStay ==
  ASSUME IInv, NEW r \in Req, Turn(r), NEW p \in Req, Preparer(p)
  PROVE  /\ Preparer(p)' /\ req'[p].files = req[p].files /\ req'[p].token = req[p].token
         /\ req[p].answer = "prepared" => req'[p] = req[p]
BY DEF Turn, Preparer

(* The chunks of others belong where they did. *)
LEMMA BelongStays ==
  ASSUME IInv, NEW r \in Req, Turn(r), NEW p \in Req, Preparer(p),
         NEW S \in SUBSET (Req \ {r}), NEW f
  PROVE  Belong(S, f, p)' = Belong(S, f, p)
<1>1. req'[p].files = req[p].files
  BY PreparersStay
<1>2. \A s \in S : req'[s] = req[s]
  BY DEF Turn
<1> QED BY <1>1, <1>2 DEF Belong, Brings

(* What is known to be acknowledged is done with. *)
LEMMA SeenIsDone ==
  ASSUME IInv, NEW r \in Req, Turn(r), NEW s \in Req
  PROVE  req[s].seen \in SUBSET (Req \ {r})
BY DEF IInv, Stages, FoundOK, Turn, Acknowledged

(* What a request found stays, when the request keeps what it knew. *)
LEMMA FoundStays ==
  ASSUME IInv, NEW r \in Req, Turn(r), Same(r) PROVE FoundOK(r)'
<1>1. FoundOK(r) /\ req[r].seen \in SUBSET (Req \ {r}) /\ req[r].offer \in Req \cup {None}
  BY SeenIsDone DEF IInv, Stages, TypeOK, Activation
<1>2. req[r].offer # None => req[r].offer # r /\ req'[req[r].offer] = req[req[r].offer]
  BY <1>1 DEF FoundOK, Turn
<1> QED BY <1>1, <1>2 DEF FoundOK, Acknowledged, Turn, Same

(* The stages of the others. *)
LEMMA StagesKeep ==
  ASSUME IInv, TypeOK', NEW r \in Req, Turn(r), StageOK(r)', FoundOK(r)'
  PROVE  Stages'
<1> SUFFICES ASSUME NEW s \in Req \ {r} PROVE StageOK(s)' /\ FoundOK(s)'
  BY DEF Stages
<1>1. req'[s] = req[s] /\ StageOK(s) /\ FoundOK(s) /\ req[s] \in Activation
  BY DEF IInv, Stages, Turn, TypeOK
<1>2. \A p \in Req : Preparer(p) => Preparer(p)' /\ (req[p].answer = "prepared" => req'[p] = req[p])
  BY PreparersStay
<1>3. req[s].into \in Req \cup {None} /\ req[s].from \in Req \cup {None}
      /\ req[s].offer \in Req \cup {None}
  BY <1>1 DEF Activation
<1>4. CASE req[s].pc = "store"
  <2> DEFINE f == Head(req[s].todo)
             b == Belong(req[s].seen, f, req[s].from)
  <2>1. req[s].from \in Req /\ Preparer(req[s].from) /\ InOrder(req[s].data, b, req)
    BY <1>1, <1>3, <1>4 DEF StageOK
  <2>2. req[s].seen \in SUBSET (Req \ {r})
    BY SeenIsDone
  <2>3. \A S \in SUBSET (Req \ {r}) : \A g, p :
          p \in Req /\ Preparer(p) => Belong(S, g, p)' = Belong(S, g, p)
    BY BelongStays
  <2>4. Belong(req[s].seen, f, req[s].from)' = b
    BY <1>1, <2>1, <2>2, <2>3
  <2>5. \A z \in b : req'[z].seen = req[z].seen
    BY <2>2 DEF Turn, Belong
  <2>6. InOrder(req[s].data, b, req')
    BY <2>1, <2>5, OrderOfPart
  <2>7. StageOK(s)'
    BY <1>1, <1>2, <1>3, <1>4, <2>4, <2>6 DEF StageOK
  <2>8. FoundOK(s)'
    BY <1>1, <1>2, <1>3, <2>2 DEF FoundOK, Acknowledged, Turn, Preparer
  <2> QED BY <2>7, <2>8
<1>5. CASE req[s].pc # "store"
  <2>1. StageOK(s)'
    BY <1>1, <1>2, <1>3, <1>5 DEF StageOK, Turn
  <2>2. FoundOK(s)'
    <3>1. req[s].seen \in SUBSET (Req \ {r})
      BY SeenIsDone
    <3> QED BY <1>1, <1>2, <1>3, <3>1 DEF FoundOK, Acknowledged, Turn, Preparer
  <2> QED BY <2>1, <2>2
<1> QED BY <1>4, <1>5

(* The chunks in a manager, where no chunk comes in. *)
LEMMA ManagerChunksStay ==
  ASSUME IInv, NEW r \in Req, Turn(r), r \in InManager <=> r \in InManager',
         r \in InManager => Same(r) /\ req'[r].into = req[r].into,
         NEW p \in Req, Preparer(p), NEW f
  PROVE  /\ Belong(InManager, f, p)' = Belong(InManager, f, p)
         /\ \A z \in Belong(InManager, f, p) : req'[z].seen = req[z].seen
<1>1. InManager' = InManager
  BY DEF InManager, Turn
<1>2. req'[p].files = req[p].files
  BY PreparersStay
<1>3. ASSUME NEW z \in InManager
      PROVE  /\ req'[z].into = req[z].into /\ req'[z].seen = req[z].seen
             /\ req'[z].files = req[z].files /\ req'[z].full = req[z].full
  BY DEF Turn, Same, InManager
<1> QED BY <1>1, <1>2, <1>3 DEF Belong, Brings

(* The tables, where no chunk comes in. *)
LEMMA TablesKeep ==
  ASSUME IInv, TypeOK', NEW r \in Req, Turn(r), r \in InManager <=> r \in InManager',
         r \in InManager => Same(r) /\ req'[r].into = req[r].into,
         managers' = managers,
         \A t \in Tokens : open'[t] \in {open[t], None} \/ OpenOK(t)'
  PROVE  Tables'
<1> SUFFICES ASSUME NEW t \in Tokens PROVE ManagerOK(t)' /\ OpenOK(t)'
  BY DEF Tables
<1>0. ManagerOK(t) /\ OpenOK(t) /\ managers[t] \in {None} \cup Managers
      /\ open[t] \in Req \cup {None}
  BY DEF IInv, Tables, TypeOK
<1>1. OpenOK(t)'
  BY <1>0, PreparersStay DEF OpenOK, Preparer
<1>2. CASE managers[t] = None
  BY <1>1, <1>2 DEF ManagerOK
<1>3. CASE managers[t] # None
  <2> DEFINE m == managers[t]
  <2>1. m.owner \in Req /\ Preparer(m.owner) /\ req[m.owner].token = t
    BY <1>0, <1>3 DEF ManagerOK, Managers
  <2>2. Preparer(m.owner)' /\ req'[m.owner].files = req[m.owner].files
        /\ req'[m.owner].token = t
    BY <2>1, PreparersStay
  <2>3. ASSUME NEW f \in Files, Blob(m, f) # None
        PROVE  InOrder(Blob(m, f), Belong(InManager, f, m.owner)', req')
    <3>1. InOrder(Blob(m, f), Belong(InManager, f, m.owner), req)
      BY <1>0, <1>3, <2>3 DEF ManagerOK
    <3>2. \A p : p \in Req /\ Preparer(p) =>
             /\ Belong(InManager, f, p)' = Belong(InManager, f, p)
             /\ \A z \in Belong(InManager, f, p) : req'[z].seen = req[z].seen
      BY ManagerChunksStay
    <3>3. /\ Belong(InManager, f, m.owner)' = Belong(InManager, f, m.owner)
          /\ \A z \in Belong(InManager, f, m.owner) : req'[z].seen = req[z].seen
      BY <2>1, <3>2
    <3> QED BY <3>1, <3>3, OrderOfPart
  <2>4. \A f \in Files : Blob(m, f)' = Blob(m, f)
    BY DEF Blob
  <2>5. ManagerOK(t)'
    BY <1>0, <1>3, <2>2, <2>3, <2>4 DEF ManagerOK
  <2> QED BY <1>1, <2>5
<1> QED BY <1>2, <1>3

(* What completions leave behind, where none comes in and no chunk does. *)
LEMMA CompletedKeep ==
  ASSUME IInv, NEW r \in Req, Turn(r), req'[r].offer = req[r].offer,
         req[r].offer # None => Same(r),
         req'[r].pc \in {"upload", "pushed"} => req[r].pc \in {"upload", "pushed"},
         req'[r].answer = "next" => req[r].pc = "pushed",
         \A t \in Tokens :
             \/ open'[t] \in {open[t], None}
             \/ open'[t] = r
  PROVE  Completed'
<1> SUFFICES ASSUME NEW c \in Req, Completing(c)' PROVE CompletionOK(c)'
  BY DEF Completed
<1>1. /\ Completing(c) /\ req'[c].offer = req[c].offer /\ req'[c].token = req[c].token
      /\ req'[c].late = req[c].late /\ req'[c].seen = req[c].seen
  BY DEF Completing, Turn, Same
<1>2. CompletionOK(c) /\ FoundOK(c)
  BY <1>1 DEF IInv, Completed, Stages
<1>3. open'[req[c].token] # req[c].offer
  <2>1. req[c].offer # r /\ req[c].offer # None /\ req[c].token \in Tokens
    BY <1>1, <1>2 DEF FoundOK, Turn, Completing
  <2> QED BY <1>2, <2>1 DEF CompletionOK
<1>4. ASSUME NEW s \in Req, req'[s].offer = req[c].offer
      PROVE  /\ req'[s].last => s = c
             /\ ~req[c].late => /\ req'[s].pc \notin {"upload", "pushed"}
                                /\ req'[s].answer = "next" => s \in req[c].seen
  <2>1. req[s].offer = req[c].offer /\ req[s].offer # None
    BY <1>1, <1>4 DEF Turn, Completing
  <2>2. CASE s # r
    BY <1>2, <2>1, <2>2 DEF CompletionOK, Turn
  <2>3. CASE s = r
    BY <1>2, <2>1, <2>3 DEF CompletionOK, Same
  <2> QED BY <2>2, <2>3
<1> QED BY <1>1, <1>3, <1>4 DEF CompletionOK

(* What was written. *)
LEMMA WrittenKeep ==
  ASSUME IInv, NEW r \in Req, Turn(r), req[r].offer # None => Same(r), stored' = stored
  PROVE  Written'
<1> SUFFICES ASSUME NEW w \in stored
             PROVE  /\ Completing(w.by)' /\ Preparer(w.from)'
                    /\ InOrder(w.data, Belong(req[w.by].seen, w.file, w.from), req)'
  BY DEF Written
<1>1. /\ w.by \in Req /\ w.from \in Req /\ Completing(w.by) /\ Preparer(w.from)
      /\ InOrder(w.data, Belong(req[w.by].seen, w.file, w.from), req)
  BY DEF IInv, Written, TypeOK
<1>2. Completing(w.by)' /\ Preparer(w.from)' /\ req'[w.by].seen = req[w.by].seen
  BY <1>1, PreparersStay DEF Completing, Turn, Same
<1> DEFINE S == req[w.by].seen
<1>3. S \in SUBSET (Req \ {r})
  BY <1>1, SeenIsDone
<1>4. \A T \in SUBSET (Req \ {r}) : Belong(T, w.file, w.from)' = Belong(T, w.file, w.from)
  BY <1>1, BelongStays
<1>5. Belong(req[w.by].seen, w.file, w.from)' = Belong(S, w.file, w.from)
  BY <1>2, <1>3, <1>4
<1>6. \A z \in Belong(S, w.file, w.from) : req'[z].seen = req[z].seen
  BY <1>3 DEF Turn, Belong
<1>7. InOrder(w.data, Belong(S, w.file, w.from), req')
  BY <1>1, <1>6, OrderOfPart
<1> QED BY <1>2, <1>5, <1>7

-----------------------------------------------------------------------------
(* The steps keep the invariant. *)

(* Nothing is uploaded at the start. *)
LEMMA InitIInv == Init => IInv
<1> SUFFICES ASSUME Init PROVE IInv
  OBVIOUS
<1>1. <<>> \in Seq(Files) /\ <<>> \in Chunks
  BY DEF Chunks
<1>2. Idle \in Activation
  BY <1>1 DEF Idle, Activation
<1>3. TypeOK
  BY <1>2, UploadAssumption DEF Init, TypeOK
<1>4. \A r \in Req : req[r] = Idle
  BY DEF Init
<1>5. /\ Idle.pc = "idle" /\ Idle.answer = "none" /\ Idle.offer = None /\ Idle.seen = {}
  BY DEF Idle
<1>6. Stages
  BY <1>4, <1>5 DEF Stages, StageOK, FoundOK
<1>7. Tables /\ Written
  BY DEF Init, Tables, ManagerOK, OpenOK, Written
<1>8. Completed
  BY <1>4, <1>5 DEF Completed, Completing
<1> QED BY <1>3, <1>6, <1>7, <1>8 DEF IInv

(* A new manager is empty, and nothing belongs to it yet. *)
LEMMA FilesComingIInv ==
  ASSUME IInv, NEW r \in Req, NEW t \in Tokens, NEW names \in SUBSET Files,
         FilesComingInChunks(r, t, names)
  PROVE  IInv'
<1>1. /\ TypeOK' /\ Turn(r)
      /\ req[r] = Idle /\ req'[r] = [Idle EXCEPT !.pc = "offer", !.token = t, !.files = names]
      /\ req'[r].pc = "offer" /\ req'[r].token = t /\ req'[r].files = names
      /\ req'[r].offer = None /\ req'[r].answer = "none" /\ ~req'[r].last
      /\ req'[r].seen = {} /\ open' = open /\ stored' = stored
      /\ managers'[t] = ManagerFor(r, names)
      /\ \A u \in Tokens \ {t} : managers'[u] = managers[u]
  BY FilesComingIs
<1>2. Idle.pc = "idle" /\ Idle.answer = "none" /\ Idle.offer = None
  BY DEF Idle
<1>3. Stages'
  <2>1. StageOK(r)' /\ FoundOK(r)'
    BY <1>1, ManagerType DEF StageOK, FoundOK
  <2> QED BY <1>1, <2>1, StagesKeep
<1>4. Completed' /\ Written'
  BY <1>1, <1>2, CompletedKeep, WrittenKeep
<1>5. Tables'
  <2> SUFFICES ASSUME NEW u \in Tokens PROVE ManagerOK(u)' /\ OpenOK(u)'
    BY DEF Tables
  <2>1. OpenOK(u)'
    <3>1. OpenOK(u) /\ open[u] \in Req \cup {None}
      BY DEF IInv, Tables, TypeOK
    <3> QED BY <1>1, <3>1, PreparersStay DEF OpenOK, Preparer, Turn
  <2>2. CASE u # t
    <3> DEFINE m == managers[u]
    <3>0. ManagerOK(u) /\ m \in {None} \cup Managers /\ managers'[u] = m
      BY <1>1, <2>2 DEF IInv, Tables, TypeOK
    <3>1. CASE m = None
      BY <3>0, <3>1, <2>1 DEF ManagerOK
    <3>2. CASE m # None
      <4>1. m.owner \in Req /\ Preparer(m.owner) /\ req[m.owner].token = u
        BY <3>0, <3>2 DEF ManagerOK, Managers
      <4>2. Preparer(m.owner)' /\ req'[m.owner].files = req[m.owner].files
            /\ req'[m.owner].token = u
        BY <1>1, <3>0, <4>1, PreparersStay
      <4>3. r \notin InManager /\ r \notin InManager'
        BY <1>1, <1>2 DEF InManager
      <4>4. ASSUME NEW f \in Files, Blob(m, f) # None
            PROVE  InOrder(Blob(m, f), Belong(InManager, f, m.owner)', req')
        <5>1. InOrder(Blob(m, f), Belong(InManager, f, m.owner), req)
          BY <3>0, <3>2, <4>4 DEF ManagerOK
        <5>2. \A p : p \in Req /\ Preparer(p) =>
                 /\ Belong(InManager, f, p)' = Belong(InManager, f, p)
                 /\ \A z \in Belong(InManager, f, p) : req'[z].seen = req[z].seen
          BY <1>1, <4>3, ManagerChunksStay
        <5>3. /\ Belong(InManager, f, m.owner)' = Belong(InManager, f, m.owner)
              /\ \A z \in Belong(InManager, f, m.owner) : req'[z].seen = req[z].seen
          BY <3>0, <4>1, <5>2
        <5> QED BY <5>1, <5>3, OrderOfPart
      <4>5. \A f \in Files : Blob(m, f)' = Blob(m, f)
        BY <3>0 DEF Blob
      <4>6. ManagerOK(u)'
        BY <3>0, <3>2, <4>2, <4>4, <4>5 DEF ManagerOK
      <4> QED BY <2>1, <4>6
    <3> QED BY <3>1, <3>2
  <2>3. CASE u = t
    <3>1. /\ managers'[u].owner = r /\ managers'[u].one = (names = {})
          /\ \A f \in Files : managers'[u].by[f] # None <=> f \in names
      <4>1. <<>> \in Chunks
        BY DEF Chunks
      <4>2. <<>> # None
        BY <4>1, UploadAssumption
      <4> QED BY <1>1, <2>3, <4>2 DEF ManagerFor
    <3>2. Preparer(r)'
      BY <1>1 DEF Preparer
    <3>3. ASSUME NEW z \in Req PROVE z \in InManager' => req'[z].into # r
      <4>1. CASE z = r
        BY <1>1, <4>1 DEF InManager
      <4>2. CASE z # r
        <5>1. req'[z] = req[z] /\ StageOK(z)
          BY <1>1, <4>2 DEF Turn, IInv, Stages
        <5>2. ~Preparer(r)
          BY <1>1, <1>2 DEF Preparer
        <5> QED BY <5>1, <5>2 DEF InManager, StageOK
      <4> QED BY <4>1, <4>2
    <3>4. \A f \in Files : Belong(InManager, f, managers[u].owner)' = {}
      BY <3>1, <3>3 DEF Belong, InManager
    <3>5. \A x : InOrder(x, {}, req')
      BY DEF InOrder
    <3>6. \A f \in Files : InOrder(Blob(managers[u], f), Belong(InManager, f, managers[u].owner), req)'
      BY <3>4, <3>5
    <3>7. ManagerOK(u)'
      BY <1>1, <2>3, <3>1, <3>2, <3>6 DEF ManagerOK
    <3> QED BY <2>1, <3>7
  <2> QED BY <2>2, <2>3
<1> QED BY <1>1, <1>3, <1>4, <1>5 DEF IInv

(* The transition that is stored has no user yet. *)
LEMMA StoreTransitionIInv ==
  ASSUME IInv, NEW r \in Req, StoreTransition(r) PROVE IInv'
<1>1. /\ TypeOK' /\ Turn(r) /\ Same(r)
      /\ req[r].pc = "offer" /\ req[r].answer = "none" /\ req[r].offer = None
      /\ req[r].token \in Tokens
      /\ req'[r].pc = "done" /\ req'[r].answer = "prepared"
      /\ managers' = managers /\ stored' = stored
      /\ open'[req[r].token] = r
      /\ \A u \in Tokens \ {req[r].token} : open'[u] = open[u]
  BY StoreTransitionIs
<1>2. req'[r].token = req[r].token /\ req'[r].offer = None /\ req'[r].seen = req[r].seen
  BY <1>1 DEF Same
<1>3. Stages'
  <2>1. req[r].seen \in SUBSET (Req \ {r}) /\ FoundOK(r)
    BY <1>1, SeenIsDone DEF IInv, Stages
  <2>2. StageOK(r)' /\ FoundOK(r)'
    BY <1>1, <1>2, <2>1 DEF StageOK, FoundOK, Acknowledged, Turn
  <2> QED BY <1>1, <2>2, StagesKeep
<1>4. Completed' /\ Written'
  BY <1>1, <1>2, CompletedKeep, WrittenKeep
<1>5. Tables'
  <2>1. managers[req[r].token] # None
    BY <1>1 DEF IInv, Stages, StageOK
  <2>2. \A t \in Tokens : open'[t] \in {open[t], None} \/ OpenOK(t)'
    BY <1>1, <1>2, <2>1 DEF OpenOK
  <2>3. r \notin InManager /\ r \notin InManager'
    BY <1>1 DEF InManager
  <2> QED BY <1>1, <2>2, <2>3, TablesKeep
<1> QED BY <1>1, <1>3, <1>4, <1>5 DEF IInv

(* A chunk finds an upload that nobody has completed. *)
LEMMA ChunkRequestIInv ==
  ASSUME IInv, NEW r \in Req, NEW t \in Tokens, NEW names \in SUBSET Files,
         NEW full \in SUBSET names, ChunkRequest(r, t, names, full)
  PROVE  IInv'
<1>1. /\ TypeOK' /\ Turn(r)
      /\ req[r] = Idle /\ req'[r].token = t /\ req'[r].offer = open[t]
      /\ req'[r].seen = Acknowledged /\ ~req'[r].last
      /\ IF open[t] # None THEN req'[r].pc = "upload" /\ req'[r].answer = "none"
         ELSE req'[r].pc = "done" /\ req'[r].answer = "unavailable"
      /\ open' = open /\ managers' = managers /\ stored' = stored
  BY ChunkRequestIs
<1>2. Idle.pc = "idle" /\ Idle.answer = "none" /\ Idle.offer = None
  BY DEF Idle
<1>3. Stages'
  <2>1. StageOK(r)'
    BY <1>1 DEF StageOK
  <2>2. Acknowledged \subseteq Acknowledged'
    BY <1>1 DEF Acknowledged, Turn
  <2>3. OpenOK(t) /\ open[t] \in Req \cup {None}
    BY DEF IInv, Tables, TypeOK
  <2>4. FoundOK(r)'
    BY <1>1, <2>2, <2>3, PreparersStay DEF FoundOK, OpenOK, Preparer
  <2> QED BY <1>1, <2>1, <2>4, StagesKeep
<1>4. Tables'
  BY <1>1, <1>2, TablesKeep DEF InManager
<1>5. Written'
  BY <1>1, <1>2, WrittenKeep
<1>6. Completed'
  <2> SUFFICES ASSUME NEW c \in Req, Completing(c)' PROVE CompletionOK(c)'
    BY DEF Completed
  <2>1. c # r
    BY <1>1 DEF Completing
  <2>2. Completing(c) /\ req'[c] = req[c] /\ CompletionOK(c) /\ FoundOK(c)
    BY <1>1, <2>1 DEF Completing, Turn, IInv, Completed, Stages
  <2>3. req'[r].offer # req[c].offer
    <3>1. CASE open[t] = None
      BY <1>1, <2>2, <3>1 DEF Completing
    <3>2. CASE open[t] # None
      <4>1. req[open[t]].token = t
        BY <3>2 DEF IInv, Tables, OpenOK
      <4> QED BY <1>1, <2>2, <4>1 DEF CompletionOK, FoundOK, Completing
    <3> QED BY <3>1, <3>2
  <2> QED BY <1>1, <2>2, <2>3 DEF CompletionOK, Turn
<1> QED BY <1>1, <1>3, <1>4, <1>5, <1>6 DEF IInv

(* A completing request finds an upload that nobody has completed, and     *)
(* closes it.                                                              *)
LEMMA CompleteRequestIInv ==
  ASSUME IInv, NEW r \in Req, NEW t \in Tokens, NEW list \in Lists,
         CompleteRequest(r, t, list)
  PROVE  IInv'
<1>1. /\ TypeOK' /\ Turn(r)
      /\ req[r] = Idle /\ req'[r].token = t /\ req'[r].offer = open[t]
      /\ req'[r].seen = Acknowledged /\ req'[r].last /\ req'[r].late = Uploading(t)
      /\ IF open[t] # None THEN req'[r].pc = "complete" /\ req'[r].answer = "none"
         ELSE req'[r].pc = "done" /\ req'[r].answer = "unavailable"
      /\ open'[t] = None /\ \A u \in Tokens \ {t} : open'[u] = open[u]
      /\ managers' = managers /\ stored' = stored
  BY CompleteRequestIs
<1>2. Idle.pc = "idle" /\ Idle.answer = "none" /\ Idle.offer = None
  BY DEF Idle
<1>3. Stages'
  <2>1. StageOK(r)'
    BY <1>1 DEF StageOK
  <2>2. Acknowledged \subseteq Acknowledged'
    BY <1>1 DEF Acknowledged, Turn
  <2>3. OpenOK(t) /\ open[t] \in Req \cup {None}
    BY DEF IInv, Tables, TypeOK
  <2>4. FoundOK(r)'
    BY <1>1, <2>2, <2>3, PreparersStay DEF FoundOK, OpenOK, Preparer
  <2> QED BY <1>1, <2>1, <2>4, StagesKeep
<1>4. Tables'
  BY <1>1, <1>2, TablesKeep DEF InManager
<1>5. Written'
  BY <1>1, <1>2, WrittenKeep
<1>6. Completed'
  <2> SUFFICES ASSUME NEW c \in Req, Completing(c)' PROVE CompletionOK(c)'
    BY DEF Completed
  <2>1. CASE c # r
    <3>1. Completing(c) /\ req'[c] = req[c] /\ CompletionOK(c) /\ FoundOK(c)
      BY <1>1, <2>1 DEF Completing, Turn, IInv, Completed, Stages
    <3>2. req'[r].offer # req[c].offer
      <4>1. CASE open[t] = None
        BY <1>1, <3>1, <4>1 DEF Completing
      <4>2. CASE open[t] # None
        <5>1. req[open[t]].token = t
          BY <4>2 DEF IInv, Tables, OpenOK
        <5> QED BY <1>1, <3>1, <5>1 DEF CompletionOK, FoundOK, Completing
      <4> QED BY <4>1, <4>2
    <3>3. open'[req[c].token] # req[c].offer
      BY <1>1, <3>1 DEF CompletionOK, FoundOK, Completing
    <3> QED BY <1>1, <3>1, <3>2, <3>3 DEF CompletionOK, Turn
  <2>2. CASE c = r
    <3> DEFINE p == open[t]
    <3>1. p # None /\ p \in Req /\ req[p].token = t
      BY <1>1, <2>2 DEF Completing, IInv, Tables, OpenOK, TypeOK
    <3>2. ASSUME NEW s \in Req \ {r}, req'[s].offer = p
          PROVE  /\ ~req'[s].last
                 /\ ~req'[r].late => /\ req'[s].pc \notin {"upload", "pushed"}
                                     /\ req'[s].answer = "next" => s \in req'[r].seen
      <4>1. req'[s] = req[s] /\ FoundOK(s) /\ req[s].token = t /\ req[s].offer = p
        BY <1>1, <3>1, <3>2 DEF Turn, IInv, Stages, FoundOK
      <4>2. ~req[s].last
        BY <3>1, <4>1 DEF IInv, Completed, Completing, CompletionOK
      <4>3. ~Uploading(t) => req[s].pc \notin {"upload", "pushed"}
        BY <4>1 DEF Uploading
      <4>4. req[s].answer = "next" => s \in Acknowledged
        BY DEF Acknowledged
      <4> QED BY <1>1, <4>1, <4>2, <4>3, <4>4
    <3>3. req'[r].answer = "none" /\ req'[r].pc = "complete"
      BY <1>1, <3>1
    <3> QED BY <1>1, <2>2, <3>1, <3>2, <3>3 DEF CompletionOK
  <2> QED BY <2>1, <2>2
<1> QED BY <1>1, <1>3, <1>4, <1>5, <1>6 DEF IInv

(* A chunk is put behind those its client knew of, and dropped chunks      *)
(* belong nowhere.                                                         *)
LEMMA UploadChunkIInv ==
  ASSUME IInv, NEW r \in Req, UploadChunk(r) PROVE IInv'
<1> DEFINE t == req[r].token
           m == managers[t]
           n == WithChunk(m, r, req[r].files, req[r].full)
<1>1. /\ TypeOK' /\ Turn(r) /\ Same(r)
      /\ req[r].pc = "upload" /\ req[r].answer = "none" /\ ~req[r].last
      /\ req[r].offer # None
      /\ t \in Tokens /\ m \in Managers
      /\ \/ /\ req'[r].pc = "done" /\ req'[r].answer = "failed"
            /\ managers' = managers
         \/ /\ req'[r].pc = "pushed" /\ req'[r].answer = "none"
            /\ req'[r].into = m.owner
            /\ managers'[t] = n
            /\ \A u \in Tokens \ {t} : managers'[u] = managers[u]
      /\ open' = open /\ stored' = stored
  BY UploadChunkIs
<1>2. /\ req'[r].token = t /\ req'[r].offer = req[r].offer /\ req'[r].seen = req[r].seen
      /\ ~req'[r].last /\ req'[r].files = req[r].files /\ req'[r].full = req[r].full
  BY <1>1 DEF Same
<1>3. PICK o \in Req :
        o = m.owner /\ ManagerOK(t) /\ Preparer(o) /\ req[o].token = t /\ m # None
  BY <1>1, UploadAssumption DEF IInv, Tables, ManagerOK, Managers
<1>4. Stages'
  <2>1. StageOK(r)'
    <3>1. Preparer(o)' /\ o # None
      BY <1>1, <1>3, PreparersStay, UploadAssumption
    <3> QED BY <1>1, <1>2, <1>3, <3>1 DEF StageOK, Preparer
  <2>2. FoundOK(r)'
    BY <1>1, FoundStays
  <2> QED BY <1>1, <2>1, <2>2, StagesKeep
<1>5. Completed' /\ Written'
  BY <1>1, <1>2, CompletedKeep, WrittenKeep
<1>6. CASE managers' = managers /\ req'[r].pc = "done" /\ req'[r].answer = "failed"
  <2>1. r \notin InManager /\ r \notin InManager'
    BY <1>1, <1>6 DEF InManager
  <2>2. Tables'
    BY <1>1, <1>6, <2>1, TablesKeep
  <2> QED BY <1>1, <1>4, <1>5, <2>2 DEF IInv
<1>7. CASE /\ req'[r].pc = "pushed" /\ req'[r].into = m.owner
           /\ managers'[t] = n
           /\ \A u \in Tokens \ {t} : managers'[u] = managers[u]
  <2>1. InManager' = InManager \cup {r} /\ r \notin InManager
    BY <1>1, <1>7 DEF InManager, Turn
  <2>2. ASSUME NEW p \in Req, Preparer(p), NEW f
        PROVE  Belong(InManager, f, p)' =
                   Belong(InManager, f, p) \cup
                   (IF p = o /\ Brings(r, f, p) THEN {r} ELSE {})
    <3>1. req'[p].files = req[p].files
      BY <1>1, <2>2, PreparersStay
    <3>2. \A z \in InManager : req'[z] = req[z]
      BY <2>1, <1>1 DEF Turn, InManager
    <3>3. \A z \in InManager : Brings(z, f, p)' = Brings(z, f, p)
      BY <3>1, <3>2 DEF Brings, InManager
    <3>4. Brings(r, f, p)' = Brings(r, f, p)
      BY <1>2, <3>1 DEF Brings
    <3> QED BY <1>3, <1>7, <2>1, <3>2, <3>3, <3>4 DEF Belong
  <2>3. /\ n \in Managers /\ n # None /\ n.owner = m.owner /\ n.one = m.one
        /\ \A f \in Files :
              /\ n.by[f] = None <=> m.by[f] = None
              /\ Blob(m, f) # None =>
                    Blob(n, f) = IF IF m.one THEN \E g \in req[r].full : req[r].files = {g}
                                    ELSE f \in req[r].full
                                 THEN Pushed(Blob(m, f), r) ELSE Blob(m, f)
              /\ Blob(n, f) # None => Blob(m, f) # None
    <3>1. /\ n \in Managers /\ n # None /\ n.owner = m.owner /\ n.one = m.one
          /\ \A f \in Files :
                /\ n.by[f] = None <=> m.by[f] = None
                /\ Blob(m, f) # None =>
                      Blob(n, f) = IF IF m.one THEN \E g \in req[r].full : req[r].files = {g}
                                      ELSE f \in req[r].full
                                   THEN Pushed(Blob(m, f), r) ELSE Blob(m, f)
      BY <1>1, WithChunkIs
    <3> HIDE DEF n
    <3>2. \A f \in Files : Blob(n, f) # None => Blob(m, f) # None
      BY <1>1, <3>1, UploadAssumption DEF Blob, Managers
    <3> QED BY <3>1, <3>2
  <2>4. \A z \in Req : req'[z].seen = req[z].seen /\ r \notin req[z].seen
    BY <1>1, <1>2, SeenIsDone DEF Turn
  <2>5. ASSUME NEW f \in Files, Blob(n, f) # None
        PROVE  InOrder(Blob(n, f), Belong(InManager, f, o)', req')
    <3> DEFINE S == Belong(InManager, f, o)
               b == Blob(m, f)
    <3>1. b # None /\ b \in Chunks /\ InOrder(b, S, req) /\ S \subseteq Req /\ r \notin S
      BY <1>1, <1>3, <2>1, <2>3, <2>5 DEF ManagerOK, Blob, Managers, Belong, InManager
    <3>2. Brings(r, f, o) <=>
             IF m.one THEN \E g \in req[r].full : req[r].files = {g} ELSE f \in req[r].full
      <4>1. CASE m.one
        BY <1>3, <4>1 DEF ManagerOK, Brings
      <4>2. CASE ~m.one
        <5>1. f \in req[o].files /\ req[o].files # {}
          BY <1>1, <1>3, <3>1, <4>2 DEF ManagerOK, Blob, Managers
        <5> QED BY <4>2, <5>1 DEF Brings
      <4> QED BY <4>1, <4>2
    <3>3. Belong(InManager, f, o)' = S \cup (IF Brings(r, f, o) THEN {r} ELSE {})
      BY <1>3, <2>2
    <3>4. InOrder(Blob(n, f), S \cup (IF Brings(r, f, o) THEN {r} ELSE {}), req')
      <4>1. CASE Brings(r, f, o)
        <5>1. Blob(n, f) = Pushed(b, r)
          BY <2>3, <3>1, <3>2, <4>1
        <5>2. \A q \in S \cup {r} : r \notin req[q].seen
          BY <2>4, <3>1
        <5>3. InOrder(Pushed(b, r), S \cup {r}, req)
          BY <3>1, <5>2, OrderPushed
        <5>4. \A z \in S \cup {r} : req'[z].seen = req[z].seen
          BY <2>4, <3>1
        <5>5. InOrder(Pushed(b, r), S \cup {r}, req')
          BY <5>3, <5>4, OrderOfPart
        <5> QED BY <4>1, <5>1, <5>5
      <4>2. CASE ~Brings(r, f, o)
        <5>1. Blob(n, f) = b
          BY <2>3, <3>1, <3>2, <4>2
        <5>2. \A z \in S : req'[z].seen = req[z].seen
          BY <2>4, <3>1
        <5>3. InOrder(b, S, req')
          BY <3>1, <5>2, OrderOfPart
        <5>4. S \cup (IF Brings(r, f, o) THEN {r} ELSE {}) = S
          BY <4>2
        <5> QED BY <5>1, <5>3, <5>4
      <4> QED BY <4>1, <4>2
    <3> QED BY <3>3, <3>4
  <2>6. ManagerOK(t)'
    <3>1. managers'[req'[r].token] = n /\ n.owner = o /\ n.one = m.one
      BY <1>2, <1>3, <1>7, <2>3
    <3>2. Preparer(o)' /\ req'[o].token = t /\ req'[o].files = req[o].files
      BY <1>1, <1>3, PreparersStay
    <3>3. ASSUME NEW f \in Files PROVE ~n.one => (n.by[f] # None <=> f \in req[o].files)
      BY <1>3, <2>3, <3>1 DEF ManagerOK
    <3>4. n.one <=> req[o].files = {}
      BY <1>3, <3>1 DEF ManagerOK
    <3> HIDE DEF n
    <3> QED BY <1>2, <2>5, <3>1, <3>2, <3>3, <3>4 DEF ManagerOK, Blob
  <2>7. ASSUME NEW u \in Tokens \ {t} PROVE ManagerOK(u)'
    <3> DEFINE l == managers[u]
    <3>1. ManagerOK(u) /\ l \in {None} \cup Managers /\ managers'[u] = l
      BY <1>7 DEF IInv, Tables, TypeOK
    <3>2. CASE l = None
      BY <3>1, <3>2 DEF ManagerOK
    <3>3. CASE l # None
      <4>1. PICK p \in Req : p = l.owner /\ Preparer(p) /\ req[p].token = u /\ p # o
        BY <1>3, <3>1, <3>3 DEF ManagerOK, Managers
      <4>2. Preparer(p)' /\ req'[p].files = req[p].files /\ req'[p].token = u
        BY <1>1, <4>1, PreparersStay
      <4>3. ASSUME NEW f \in Files, Blob(l, f) # None
            PROVE  InOrder(Blob(l, f), Belong(InManager, f, p)', req')
        <5>1. InOrder(Blob(l, f), Belong(InManager, f, p), req)
          BY <3>1, <3>3, <4>1, <4>3 DEF ManagerOK
        <5>2. Belong(InManager, f, p)' = Belong(InManager, f, p)
          BY <2>2, <4>1
        <5>3. \A z \in Belong(InManager, f, p) : req'[z].seen = req[z].seen
          BY <2>4 DEF Belong, InManager
        <5> QED BY <5>1, <5>2, <5>3, OrderOfPart
      <4> QED BY <3>1, <3>3, <4>1, <4>2, <4>3 DEF ManagerOK, Blob
    <3> QED BY <3>2, <3>3
  <2>8. ASSUME NEW u \in Tokens PROVE ManagerOK(u)' /\ OpenOK(u)'
    <3>1. OpenOK(u) /\ open[u] \in Req \cup {None}
      BY DEF IInv, Tables, TypeOK
    <3>2. managers[u] # None => managers'[u] # None
      BY <1>1 DEF Turn
    <3>3. OpenOK(u)'
      BY <1>1, <3>1, <3>2, PreparersStay DEF OpenOK, Preparer
    <3>4. CASE u = t
      <4>1. \A x : x = t => ManagerOK(x)'
        BY <1>2, <2>6
      <4> QED BY <3>3, <3>4, <4>1
    <3> QED BY <2>7, <3>3, <3>4
  <2>9. Tables'
    BY <2>8 DEF Tables
  <2> QED BY <1>1, <1>4, <1>5, <2>9 DEF IInv
<1> QED BY <1>1, <1>6, <1>7

(* The answer to a chunk's client moves nothing. *)
LEMMA AcknowledgeIInv ==
  ASSUME IInv, NEW r \in Req, Acknowledge(r) PROVE IInv'
<1>1. /\ TypeOK' /\ Turn(r) /\ Same(r)
      /\ req[r].pc = "pushed" /\ req[r].answer = "none" /\ ~req[r].last
      /\ req[r].offer # None /\ req[r].into # None /\ Preparer(req[r].into)
      /\ req'[r].pc = "done" /\ req'[r].answer = "next" /\ req'[r].into = req[r].into
      /\ open' = open /\ managers' = managers /\ stored' = stored
  BY AcknowledgeIs
<1>2. /\ req'[r].token = req[r].token /\ req'[r].offer = req[r].offer
      /\ req'[r].seen = req[r].seen /\ ~req'[r].last
  BY <1>1 DEF Same
<1>3. FoundOK(r)'
  BY <1>1, <1>2, FoundStays
<1>4. StageOK(r)'
  <2>1. PICK p \in Req : p = req[r].into /\ Preparer(p)
    BY <1>1 DEF IInv, TypeOK, Activation
  <2>2. Preparer(p)'
    BY <1>1, <2>1, PreparersStay
  <2> QED BY <1>1, <1>2, <2>1, <2>2 DEF StageOK, Preparer
<1>5. Stages'
  BY <1>1, <1>3, <1>4, StagesKeep
<1>6. Completed' /\ Written'
  BY <1>1, <1>2, CompletedKeep, WrittenKeep
<1>7. Tables'
  <2>1. r \in InManager /\ r \in InManager'
    BY <1>1 DEF InManager
  <2> QED BY <1>1, <2>1, TablesKeep
<1> QED BY <1>1, <1>5, <1>6, <1>7 DEF IInv

(* chunk_mover takes what belongs to the file. *)
LEMMA ChunkMoverIInv ==
  ASSUME IInv, NEW r \in Req, ChunkMover(r) PROVE IInv'
<1> DEFINE m == managers[req[r].token]
           f == Head(req[r].todo)
<1>1. /\ TypeOK' /\ Turn(r) /\ Same(r)
      /\ req[r].pc = "complete" /\ req[r].answer = "none" /\ req[r].last
      /\ req[r].offer # None /\ req[r].token \in Tokens /\ m \in Managers
      /\ \/ req'[r].pc = "done" /\ req'[r].answer = "stored"
         \/ req'[r].pc = "complete" /\ req'[r].answer = "none"
         \/ /\ req'[r].pc = "store" /\ req'[r].answer = "none"
            /\ req[r].todo # <<>> /\ f \in Files /\ req'[r].todo = req[r].todo
            /\ req'[r].path \in Paths /\ req'[r].from = m.owner
            /\ Blob(m, f) # None /\ req'[r].data = Blob(m, f)
      /\ open' = open /\ managers' = managers /\ stored' = stored
  BY ChunkMoverIs
<1>2. /\ req'[r].token = req[r].token /\ req'[r].offer = req[r].offer
      /\ req'[r].seen = req[r].seen /\ req'[r].last
  BY <1>1 DEF Same
<1>3. FoundOK(r)'
  BY <1>1, <1>2, FoundStays
<1>4. StageOK(r)'
  <2>1. CASE req'[r].pc # "store"
    BY <1>1, <1>2, <2>1 DEF StageOK
  <2>2. CASE req'[r].pc = "store"
    <3>1. PICK p \in Req, g \in Files, b \in Chunks :
              /\ p = m.owner /\ g = f /\ b = Blob(m, g) /\ p # None
              /\ Preparer(p) /\ InOrder(b, Belong(InManager, g, p), req)
      <4>1. ManagerOK(req[r].token) /\ m # None
        BY <1>1, UploadAssumption DEF IInv, Tables
      <4>2. f \in Files /\ Blob(m, f) # None
        BY <1>1, <2>2
      <4>3. Blob(m, f) \in Chunks /\ m.owner \in Req /\ m.owner # None
        BY <1>1, <4>2, UploadAssumption DEF Blob, Managers
      <4>4. Preparer(m.owner) /\ InOrder(Blob(m, f), Belong(InManager, f, m.owner), req)
        BY <4>1, <4>2 DEF ManagerOK
      <4> QED BY <4>2, <4>3, <4>4
    <3>2. PICK S \in SUBSET (Req \ {r}) : S = req[r].seen /\ S \subseteq InManager
      BY <1>1, SeenIsDone DEF IInv, Stages, FoundOK, Acknowledged, InManager
    <3>3. Belong(S, g, p) \subseteq Belong(InManager, g, p)
      BY <3>2 DEF Belong
    <3>4. \A z \in S : req'[z].seen = req[z].seen
      BY <1>1 DEF Turn
    <3>5. InOrder(b, Belong(S, g, p), req')
      BY <3>1, <3>3, <3>4, OrderOfPart DEF Belong
    <3>6. Belong(S, g, p)' = Belong(S, g, p) /\ Preparer(p)'
      BY <1>1, <3>1, BelongStays, PreparersStay
    <3>7. /\ req'[r].seen = S /\ Head(req'[r].todo) = g /\ req'[r].from = p
          /\ req'[r].data = b
      BY <1>1, <1>2, <2>2, <3>1, <3>2
    <3>8. InOrder(req'[r].data, Belong(req[r].seen, Head(req[r].todo), req[r].from)', req')
      BY <3>5, <3>6, <3>7
    <3> QED BY <1>1, <1>2, <2>2, <3>1, <3>6, <3>7, <3>8 DEF StageOK
  <2> QED BY <2>1, <2>2
<1>5. Stages'
  BY <1>1, <1>3, <1>4, StagesKeep
<1>6. Completed' /\ Written'
  BY <1>1, <1>2, CompletedKeep, WrittenKeep
<1>7. Tables'
  <2>1. r \notin InManager /\ r \notin InManager'
    BY <1>1 DEF InManager
  <2> QED BY <1>1, <2>1, TablesKeep
<1> QED BY <1>1, <1>5, <1>6, <1>7 DEF IInv

(* What is written is what was taken. *)
LEMMA StoreDataIInv ==
  ASSUME IInv, NEW r \in Req, StoreData(r) PROVE IInv'
<1> DEFINE f == Head(req[r].todo)
           w == [by |-> r, from |-> req[r].from, file |-> f, path |-> req[r].path,
                 data |-> req[r].data]
<1>1. /\ TypeOK' /\ Turn(r) /\ Same(r)
      /\ req[r].pc = "store" /\ req[r].answer = "none" /\ req[r].last
      /\ req[r].offer # None
      /\ \/ /\ req'[r].pc = "complete" /\ req'[r].answer = "none"
            /\ stored' = stored \cup {w}
         \/ req'[r].pc = "done" /\ req'[r].answer = "error" /\ stored' = stored
      /\ open' = open /\ managers' = managers
  BY StoreDataIs
<1>2. /\ req'[r].token = req[r].token /\ req'[r].offer = req[r].offer
      /\ req'[r].seen = req[r].seen /\ req'[r].last
  BY <1>1 DEF Same
<1>3. StageOK(r)' /\ FoundOK(r)'
  <2>1. FoundOK(r)'
    BY <1>1, <1>2, FoundStays
  <2> QED BY <1>1, <1>2, <2>1 DEF StageOK
<1>4. Stages'
  BY <1>1, <1>3, StagesKeep
<1>5. Completed'
  BY <1>1, <1>2, CompletedKeep
<1>6. Tables'
  <2>1. r \notin InManager /\ r \notin InManager'
    BY <1>1 DEF InManager
  <2> QED BY <1>1, <2>1, TablesKeep
<1>7. Written'
  <2> SUFFICES ASSUME NEW v \in stored'
               PROVE  /\ Completing(v.by)' /\ Preparer(v.from)'
                      /\ InOrder(v.data, Belong(req[v.by].seen, v.file, v.from), req)'
    BY DEF Written
  <2> DEFINE S == req[v.by].seen
  <2>1. /\ v.by \in Req /\ v.from \in Req /\ Completing(v.by) /\ Preparer(v.from)
        /\ InOrder(v.data, Belong(S, v.file, v.from), req)
    <3>1. CASE v \in stored
      BY <3>1 DEF IInv, Written, TypeOK
    <3>2. CASE v = w
      <4>1. /\ v.by = r /\ v.from = req[r].from /\ v.file = f /\ v.data = req[r].data
        BY <3>2
      <4>2. req[r].from \in Req /\ Preparer(req[r].from)
        BY <1>1 DEF IInv, Stages, StageOK, TypeOK, Activation
      <4>3. InOrder(req[r].data, Belong(req[r].seen, f, req[r].from), req)
        BY <1>1 DEF IInv, Stages, StageOK
      <4>4. Completing(r)
        BY <1>1 DEF Completing
      <4> QED BY <4>1, <4>2, <4>3, <4>4
    <3> QED BY <1>1, <3>1, <3>2
  <2>2. Completing(v.by)' /\ Preparer(v.from)' /\ req'[v.by].seen = S
    BY <1>1, <1>2, <2>1, PreparersStay DEF Completing, Turn
  <2>3. S \in SUBSET (Req \ {r})
    BY <1>1, <2>1, SeenIsDone
  <2>4. \A T \in SUBSET (Req \ {r}) : Belong(T, v.file, v.from)' = Belong(T, v.file, v.from)
    BY <1>1, <2>1, BelongStays
  <2>5. Belong(req[v.by].seen, v.file, v.from)' = Belong(S, v.file, v.from)
    BY <2>2, <2>3, <2>4
  <2>6. \A z \in Belong(S, v.file, v.from) : req'[z].seen = req[z].seen
    BY <1>1, <2>3 DEF Turn, Belong
  <2>7. InOrder(v.data, Belong(S, v.file, v.from), req')
    BY <2>1, <2>6, OrderOfPart
  <2> QED BY <2>2, <2>5, <2>7
<1> QED BY <1>1, <1>4, <1>5, <1>6, <1>7 DEF IInv

(* upload_file has no part in the uploads in chunks. *)
LEMMA MovingIInv ==
  ASSUME IInv, NEW r \in Req, (\E names \in SUBSET Files : UploadFile(r, names)) \/ Moves(r)
  PROVE  IInv'
<1>1. Moving(r)
  BY MovingIs
<1>2. StageOK(r)'
  BY <1>1 DEF Moving, StageOK
<1>3. FoundOK(r)'
  <2>1. req[r].seen \in SUBSET (Req \ {r}) /\ FoundOK(r)
    BY <1>1, SeenIsDone DEF IInv, Stages, Moving
  <2> QED BY <1>1, <2>1 DEF Moving, FoundOK, Acknowledged, Turn
<1>4. Stages'
  BY <1>1, <1>2, <1>3, StagesKeep DEF Moving
<1>5. Completed' /\ Written'
  BY <1>1, CompletedKeep, WrittenKeep DEF Moving
<1>6. Tables'
  <2>1. r \notin InManager /\ r \notin InManager'
    BY <1>1 DEF InManager, Moving
  <2> QED BY <1>1, <2>1, TablesKeep DEF Moving
<1> QED BY <1>1, <1>4, <1>5, <1>6 DEF IInv, Moving

(* The clock is in no part but the types. *)
LEMMA StillIInv == ASSUME IInv, Tick \/ UNCHANGED vars PROVE IInv'
<1>1. /\ open' = open /\ managers' = managers /\ req' = req /\ stored' = stored
      /\ described' = described /\ now' \in 0..MaxTime
  BY UploadAssumption DEF Tick, vars, IInv, TypeOK
<1>2. TypeOK'
  BY <1>1 DEF IInv, TypeOK
<1>3. /\ \A S, f, p : Belong(S, f, p)' = Belong(S, f, p)
      /\ InManager' = InManager
  BY <1>1 DEF Belong, Brings, InManager
<1>4. \A m, f : Blob(m, f)' = Blob(m, f)
  BY DEF Blob
<1>5. Stages'
  <2> SUFFICES ASSUME NEW r \in Req PROVE StageOK(r)' /\ FoundOK(r)'
    BY DEF Stages
  <2>1. StageOK(r) /\ FoundOK(r)
    BY DEF IInv, Stages
  <2> QED BY <1>1, <1>3, <2>1 DEF StageOK, FoundOK, Preparer, Acknowledged
<1>6. Tables'
  <2> SUFFICES ASSUME NEW t \in Tokens PROVE ManagerOK(t)' /\ OpenOK(t)'
    BY DEF Tables
  <2>1. ManagerOK(t) /\ OpenOK(t)
    BY DEF IInv, Tables
  <2> QED BY <1>1, <1>3, <1>4, <2>1 DEF ManagerOK, OpenOK, Preparer
<1>7. Completed'
  BY <1>1 DEF IInv, Completed, CompletionOK, Completing
<1>8. Written'
  BY <1>1, <1>3 DEF IInv, Written, Completing, Preparer
<1> QED BY <1>2, <1>5, <1>6, <1>7, <1>8 DEF IInv

(* Every step keeps the invariant. *)
LEMMA NextIInv == IInv /\ [Next]_vars => IInv'
<1> SUFFICES ASSUME IInv, [Next]_vars PROVE IInv'
  OBVIOUS
<1>1. ASSUME NEW r \in Req,
             \/ \E t \in Tokens, names \in SUBSET Files : FilesComingInChunks(r, t, names)
             \/ StoreTransition(r)
      PROVE  IInv'
  BY <1>1, FilesComingIInv, StoreTransitionIInv
<1>2. ASSUME NEW r \in Req,
             \/ \E t \in Tokens, names \in SUBSET Files :
                   \E full \in SUBSET names : ChunkRequest(r, t, names, full)
             \/ \E t \in Tokens, list \in Lists : CompleteRequest(r, t, list)
      PROVE  IInv'
  BY <1>2, ChunkRequestIInv, CompleteRequestIInv
<1>3. ASSUME NEW r \in Req, UploadChunk(r) \/ Acknowledge(r) PROVE IInv'
  BY <1>3, UploadChunkIInv, AcknowledgeIInv
<1>4. ASSUME NEW r \in Req, ChunkMover(r) \/ StoreData(r) PROVE IInv'
  BY <1>4, ChunkMoverIInv, StoreDataIInv
<1>5. ASSUME NEW r \in Req,
             (\E names \in SUBSET Files : UploadFile(r, names)) \/ Moves(r)
      PROVE  IInv'
  BY <1>5, MovingIInv
<1>6. CASE Tick \/ UNCHANGED vars
  BY <1>6, StillIInv
<1> QED BY <1>1, <1>2, <1>3, <1>4, <1>5, <1>6 DEF Next

(* The invariant holds. *)
LEMMA IInvInvariant == Spec => []IInv
BY InitIInv, NextIInv, PTL DEF Spec

-----------------------------------------------------------------------------
(* The variables keep their types. *)
THEOREM TypeCorrect == Spec => []TypeOK
<1>1. IInv => TypeOK
  BY DEF IInv
<1> QED BY <1>1, IInvInvariant, PTL

(* What is kept for a write and was known to its request is what belongs.  *)
LEMMA KeptBelongs ==
  ASSUME IInv, NEW w \in stored
  PROVE  Kept(w) \cap req[w.by].seen = Belong(req[w.by].seen, w.file, w.from)
<1>1. w.by \in Req /\ req[w.by].seen \subseteq Acknowledged
  BY DEF IInv, TypeOK, Stages, FoundOK
<1> QED BY <1>1 DEF Kept, Belong

(* Whatever else is on its way when the completing request arrives, and    *)
(* whoever prepares an upload under the token meanwhile: of the chunks     *)
(* that went into the manager it is taken from, what is written has every  *)
(* one acknowledged before, behind those its client had to wait for.       *)
THEOREM AcknowledgedIsStored == Spec => []StoredHasAcknowledged
<1>1. IInv => StoredHasAcknowledged
  <2> SUFFICES ASSUME IInv, NEW w \in stored,
                      NEW r \in Kept(w) \cap req[w.by].seen
               PROVE  \E k \in DOMAIN w.data :
                         /\ w.data[k] = r
                         /\ \A q \in (Kept(w) \cap req[w.by].seen) \cap req[r].seen :
                               \E l \in 1..(k - 1) : w.data[l] = q
    BY DEF StoredHasAcknowledged
  <2>1. InOrder(w.data, Kept(w) \cap req[w.by].seen, req)
    BY KeptBelongs DEF IInv, Written
  <2> QED BY <2>1 DEF InOrder
<1> QED BY <1>1, IInvInvariant, PTL

(* An upload is written by one request; and a client that had all its      *)
(* answers when it completed the upload is never acknowledged a chunk that *)
(* went into the manager written and is not in the file.                   *)
THEOREM UploadsAreFinal == Spec => []StoredOnce
<1>1. IInv => StoredByOne
  BY DEF IInv, TypeOK, Written, Completed, Completing, CompletionOK, StoredByOne
<1>2. IInv => StoredIsFinal
  <2> SUFFICES ASSUME IInv, NEW w \in stored, ~req[w.by].late,
                      NEW r \in Kept(w), req[r].offer = req[w.by].offer
               PROVE  r \in Range(w.data)
    BY DEF StoredIsFinal
  <2>1. w.by \in Req /\ Completing(w.by) /\ r \in Req /\ req[r].answer = "next"
    BY DEF IInv, TypeOK, Written, Kept, Acknowledged
  <2>2. r \in req[w.by].seen
    BY <2>1 DEF IInv, Completed, CompletionOK
  <2>3. InOrder(w.data, Kept(w) \cap req[w.by].seen, req)
    BY KeptBelongs DEF IInv, Written
  <2>4. \E k \in DOMAIN w.data : w.data[k] = r
    BY <2>2, <2>3 DEF InOrder
  <2> QED BY <2>4 DEF Range
<1> QED BY <1>1, <1>2, IInvInvariant, PTL DEF StoredOnce

-----------------------------------------------------------------------------
(* The transition contract. *)

(* A step that stores no transition, finds none and closes none is no step *)
(* of the contract.                                                        *)
LEMMA QuietStep ==
  ASSUME NEW r \in Req, Turn(r), req'[r].answer # "prepared",
         req'[r].offer = req[r].offer, req[r].offer # None => Same(r), open' = open
  PROVE  UNCHANGED Contract!contractVars
<1>1. ASSUME NEW p \in Req PROVE OfferOf(p)' = OfferOf(p)
  BY DEF OfferOf, Turn
<1>2. ASSUME NEW s \in Req PROVE WorkOf(s)' = WorkOf(s)
  BY DEF WorkOf, Turn, Same
<1> QED BY <1>1, <1>2 DEF Contract!contractVars

(* Storing the transition of an upload makes an offer and closes one that  *)
(* is under its token; a chunk uses the offer, the completion closes it;   *)
(* no other step touches the contract.                                     *)
THEOREM UploadsUseContract == Spec => UsesContract
<1> DEFINE O == [p \in Req |-> OfferOf(p)]
           W == [s \in Req |-> WorkOf(s)]
<1>1. Init => Contract!ContractInit
  BY DEF Init, Contract!ContractInit, OfferOf, WorkOf, Idle
<1>2. ASSUME IInv, NEW r \in Req, StoreTransition(r) PROVE Contract!ContractNext
  <2> DEFINE t == req[r].token
  <2>1. /\ Turn(r) /\ Same(r) /\ req[r].answer = "none" /\ t \in Tokens
        /\ req'[r].answer = "prepared" /\ req'[r].token = t
        /\ open'[t] = r /\ \A u \in Tokens \ {t} : open'[u] = open[u]
    BY <1>2, StoreTransitionIs DEF Same
  <2>2. W' = W
    <3>1. \A s \in Req : WorkOf(s)' = WorkOf(s)
      BY <2>1 DEF WorkOf, Turn, Same
    <3> QED BY <3>1
  <2>3. OfferOf(r) = "none" /\ OfferOf(r)' = "open"
    BY <2>1 DEF OfferOf
  <2>4. ASSUME NEW p \in Req \ {r}, p # open[t] PROVE OfferOf(p)' = OfferOf(p)
    <3>1. req'[p] = req[p] /\ (req[p].answer = "prepared" => req[p].token \in Tokens)
      BY <1>2, <2>1 DEF Turn, IInv, Stages, StageOK
    <3> QED BY <2>1, <2>4, <3>1 DEF OfferOf
  <2>5. CASE open[t] = None
    <3>1. \A p \in Req \ {r} : OfferOf(p)' = OfferOf(p)
      <4>1. None \notin Req
        BY UploadAssumption
      <4> QED BY <2>4, <2>5, <4>1
    <3>2. O' = [O EXCEPT ![r] = "open"]
      BY <2>3, <3>1
    <3> QED BY <2>2, <2>3, <3>2 DEF Contract!ContractNext, Contract!MakeOffer
  <2>6. CASE open[t] # None
    <3>1. PICK old \in Req : /\ old = open[t] /\ req[old].answer = "prepared"
                             /\ req[old].token = t
      BY <1>2, <2>1, <2>6 DEF IInv, TypeOK, Tables, OpenOK
    <3>2. old # r /\ OfferOf(old) = "open" /\ OfferOf(old)' = "closed"
      BY <2>1, <3>1 DEF OfferOf, Turn
    <3>3. O' = [O EXCEPT ![r] = "open", ![old] = "closed"]
      BY <2>3, <2>4, <3>1, <3>2
    <3> QED BY <2>2, <2>3, <3>2, <3>3 DEF Contract!ContractNext, Contract!MakeOffer
  <2> QED BY <2>5, <2>6
<1>3. ASSUME IInv, NEW r \in Req, NEW t \in Tokens, NEW names \in SUBSET Files,
             NEW full \in SUBSET names, ChunkRequest(r, t, names, full)
      PROVE  Contract!ContractNext \/ UNCHANGED Contract!contractVars
  <2>1. /\ Turn(r) /\ req[r] = Idle /\ req'[r].offer = open[t] /\ ~req'[r].last
        /\ req'[r].answer # "prepared" /\ open' = open
    BY <1>3, ChunkRequestIs
  <2>2. O' = O
    <3>1. \A p \in Req : OfferOf(p)' = OfferOf(p)
      BY <2>1 DEF OfferOf, Turn, Idle
    <3> QED BY <3>1
  <2>3. WorkOf(r) = None
    BY <2>1 DEF WorkOf, Idle
  <2>4. \A s \in Req \ {r} : WorkOf(s)' = WorkOf(s)
    BY <2>1 DEF WorkOf, Turn
  <2>5. CASE open[t] # None
    <3>1. PICK p \in Req : p = open[t] /\ OfferOf(p) = "open"
      BY <1>3, <2>5 DEF OfferOf, IInv, TypeOK, Tables, OpenOK
    <3>2. WorkOf(r)' = [offer |-> p, last |-> FALSE]
      <4>1. req'[r].last = FALSE
        BY <1>3, <2>1, ChunkRequestIs DEF TypeOK, Activation
      <4> QED BY <2>1, <2>5, <3>1, <4>1 DEF WorkOf
    <3>3. W' = [W EXCEPT ![r] = [offer |-> p, last |-> FALSE]]
      BY <2>4, <3>2
    <3> QED BY <2>2, <2>3, <3>1, <3>3 DEF Contract!ContractNext, Contract!UseOffer
  <2>6. CASE open[t] = None
    <3>1. \A s \in Req : WorkOf(s)' = WorkOf(s)
      BY <2>1, <2>3, <2>4, <2>6 DEF WorkOf
    <3> QED BY <2>2, <3>1 DEF Contract!contractVars
  <2> QED BY <2>5, <2>6
<1>4. ASSUME IInv, NEW r \in Req, NEW t \in Tokens, NEW list \in Lists,
             CompleteRequest(r, t, list)
      PROVE  Contract!ContractNext \/ UNCHANGED Contract!contractVars
  <2>1. /\ Turn(r) /\ req[r] = Idle /\ req'[r].offer = open[t] /\ req'[r].last
        /\ req'[r].answer # "prepared"
        /\ open'[t] = None /\ \A u \in Tokens \ {t} : open'[u] = open[u]
    BY <1>4, CompleteRequestIs
  <2>2. ASSUME NEW p \in Req, p # open[t] PROVE OfferOf(p)' = OfferOf(p)
    <3>1. CASE p = r
      BY <2>1, <3>1 DEF OfferOf, Idle
    <3>2. CASE p # r
      <4>1. req'[p] = req[p] /\ (req[p].answer = "prepared" => req[p].token \in Tokens)
        BY <1>4, <2>1, <3>2 DEF Turn, IInv, Stages, StageOK
      <4>2. p # None
        BY UploadAssumption
      <4> QED BY <2>1, <2>2, <4>1, <4>2 DEF OfferOf
    <3> QED BY <3>1, <3>2
  <2>3. WorkOf(r) = None
    BY <2>1 DEF WorkOf, Idle
  <2>4. \A s \in Req \ {r} : WorkOf(s)' = WorkOf(s)
    BY <2>1 DEF WorkOf, Turn
  <2>5. CASE open[t] # None
    <3>1. PICK p \in Req : /\ p = open[t] /\ req[p].answer = "prepared" /\ req[p].token = t
      BY <1>4, <2>5 DEF IInv, TypeOK, Tables, OpenOK
    <3>2. OfferOf(p) = "open" /\ OfferOf(p)' = "closed"
      <4>1. req'[p] = req[p] /\ p # None
        BY <2>1, <3>1, UploadAssumption DEF Turn, Idle
      <4> QED BY <2>1, <3>1, <4>1 DEF OfferOf
    <3>3. O' = [O EXCEPT ![p] = "closed"]
      BY <2>2, <3>1, <3>2
    <3>4. WorkOf(r)' = [offer |-> p, last |-> TRUE]
      BY <2>1, <2>5, <3>1 DEF WorkOf
    <3>5. W' = [W EXCEPT ![r] = [offer |-> p, last |-> TRUE]]
      BY <2>4, <3>4
    <3> QED BY <2>3, <3>2, <3>3, <3>5 DEF Contract!ContractNext, Contract!CloseOffer
  <2>6. CASE open[t] = None
    <3>1. \A p \in Req : OfferOf(p)' = OfferOf(p)
      <4>1. None \notin Req
        BY UploadAssumption
      <4> QED BY <2>2, <2>6, <4>1
    <3>2. \A s \in Req : WorkOf(s)' = WorkOf(s)
      BY <2>1, <2>3, <2>4, <2>6 DEF WorkOf
    <3> QED BY <3>1, <3>2 DEF Contract!contractVars
  <2> QED BY <2>5, <2>6
<1>5. ASSUME IInv, NEW r \in Req,
             \/ UploadChunk(r) \/ Acknowledge(r) \/ ChunkMover(r) \/ StoreData(r)
             \/ (\E names \in SUBSET Files : UploadFile(r, names)) \/ Moves(r)
             \/ \E t \in Tokens, names \in SUBSET Files : FilesComingInChunks(r, t, names)
      PROVE  UNCHANGED Contract!contractVars
  <2> USE <1>5
  <2>1. CASE UploadChunk(r)
    BY <2>1, UploadChunkIs, QuietStep DEF Same
  <2>2. CASE Acknowledge(r)
    BY <2>2, AcknowledgeIs, QuietStep DEF Same
  <2>3. CASE ChunkMover(r)
    BY <2>3, ChunkMoverIs, QuietStep DEF Same
  <2>4. CASE StoreData(r)
    BY <2>4, StoreDataIs, QuietStep DEF Same
  <2>5. CASE (\E names \in SUBSET Files : UploadFile(r, names)) \/ Moves(r)
    BY <2>5, MovingIs, QuietStep DEF Moving
  <2>6. CASE \E t \in Tokens, names \in SUBSET Files : FilesComingInChunks(r, t, names)
    <3>1. /\ Turn(r) /\ req[r] = Idle /\ req'[r].offer = None /\ req'[r].answer = "none"
          /\ open' = open
      BY <2>6, FilesComingIs
    <3>2. Idle.offer = None
      BY DEF Idle
    <3> QED BY <3>1, <3>2, QuietStep
  <2> QED BY <2>1, <2>2, <2>3, <2>4, <2>5, <2>6
<1>6. ASSUME Tick \/ UNCHANGED vars PROVE UNCHANGED Contract!contractVars
  <2>1. open' = open /\ req' = req
    BY <1>6 DEF Tick, vars
  <2> QED BY <2>1 DEF Contract!contractVars, OfferOf, WorkOf
<1>7. IInv /\ [Next]_vars => [Contract!ContractNext]_(Contract!contractVars)
  <2> SUFFICES ASSUME IInv, [Next]_vars
               PROVE  Contract!ContractNext \/ UNCHANGED Contract!contractVars
    OBVIOUS
  <2>1. CASE Tick \/ UNCHANGED vars
    BY <2>1, <1>6
  <2>2. ASSUME NEW r \in Req, StoreTransition(r) PROVE Contract!ContractNext
    BY <2>2, <1>2
  <2>3. ASSUME NEW r \in Req,
               \/ \E t \in Tokens, names \in SUBSET Files :
                     \E full \in SUBSET names : ChunkRequest(r, t, names, full)
               \/ \E t \in Tokens, list \in Lists : CompleteRequest(r, t, list)
        PROVE  Contract!ContractNext \/ UNCHANGED Contract!contractVars
    BY <2>3, <1>3, <1>4
  <2>4. ASSUME NEW r \in Req,
               \/ UploadChunk(r) \/ Acknowledge(r) \/ ChunkMover(r) \/ StoreData(r)
               \/ (\E names \in SUBSET Files : UploadFile(r, names)) \/ Moves(r)
               \/ \E t \in Tokens, names \in SUBSET Files : FilesComingInChunks(r, t, names)
        PROVE  UNCHANGED Contract!contractVars
    BY <2>4, <1>5
  <2> QED BY <2>1, <2>2, <2>3, <2>4 DEF Next
<1> QED BY <1>1, <1>7, IInvInvariant, PTL
        DEF Spec, UsesContract, Contract!ContractSpec
=============================================================================
