---------------------------- MODULE MimeHandling ----------------------------
(***************************************************************************)
(* contractual/mime_processing.js over default_storage/local_object_cache, *)
(* with what lib/general_static.js and lib/general_dynamic.js fetch.       *)
(*                                                                         *)
(* One action is one stretch of a handler between two awaits.  A token is  *)
(* named by the primary request it was made for.  The application's hooks  *)
(* (guard, process_asset, match, an overriding dynamic fetch) answer yes,  *)
(* no, or reject.                                                          *)
(***************************************************************************)
CONSTANTS Req,        \* requests that may arrive
          Assets,     \* asset keys
          None

MimeAssumption == None \notin Req

VARIABLES
    preloaded,  \* preloaded[a]: the static entry of asset a
    asked,      \* asked[r]: the activation serving request r
    cache       \* cache[t]: cache_map[t], the asset fetched for token t

mimeVars == <<preloaded, asked, cache>>

(* What preload_all leaves for an asset: a file described by name, type and *)
(* data; an application may put in media objects, with a mime type.        *)
Entries == {"described", "media", "absent"}

(* What the fetchers come to.  The unguarded one answers the entry or a    *)
(* message.  guarded_fetch is handed over without its object, so it throws *)
(* for every asset key.  A dynamic fetch is the application's.             *)
StaticFetch(a) == preloaded[a]
GuardedFetch == {"throws"}
DynamicFetch == {"media", "nothing", "throws"}
Fetcher(kind) == IF kind = "guarded static" THEN GuardedFetch ELSE DynamicFetch

Asked == [kind : {"none", "static", "guarded static", "guarded dynamic", "secondary"},
          pc : {"idle", "guard", "process", "fetch", "done"},
          asset : Assets \cup {None},
          token : Req \cup {None},
          entry : Req \cup {None},     \* cached_transition, by its maker
          answer : {"none", "asset", "text", "offer", "unavailable", "error"}]

NotAsked == [kind |-> "none", pc |-> "idle", asset |-> None, token |-> None,
             entry |-> None, answer |-> "none"]

MimeInit ==
    /\ preloaded \in [Assets -> Entries]
    /\ asked = [r \in Req |-> NotAsked]
    /\ cache = [t \in Req |-> None]

MimeGoes(r, c, pc) == asked' = [asked EXCEPT ![r] = [c EXCEPT !.pc = pc]]
MimeAnswers(r, c, a) ==
    asked' = [asked EXCEPT ![r] = [c EXCEPT !.pc = "done", !.answer = a]]

-----------------------------------------------------------------------------
(* A primary request, up to guard_static or guard. *)
AssetRequest(r, kind, a) ==
    /\ asked[r].pc = "idle"
    /\ kind \in {"static", "guarded static", "guarded dynamic"}
    /\ MimeGoes(r, [NotAsked EXCEPT !.kind = kind, !.asset = a], "guard")
    /\ UNCHANGED <<preloaded, cache>>

(* The guard of static_asset_handler: the unguarded fetch knows only what  *)
(* is preloaded; what is no media object is sent as its text.              *)
StaticGuarded(r) ==
    LET c == asked[r] IN
    /\ c.pc = "guard" /\ c.kind = "static"
    /\ \/ MimeAnswers(r, c, IF StaticFetch(c.asset) = "media" THEN "asset" ELSE "text")
       \/ MimeAnswers(r, c, "unavailable")
       \/ MimeAnswers(r, c, "error")
    /\ UNCHANGED <<preloaded, cache>>

(* The guard of guarded_kindof_asset_handler. *)
KindOfGuarded(r) ==
    LET c == asked[r] IN
    /\ c.pc = "guard" /\ c.kind # "static"
    /\ \/ MimeGoes(r, c, "process")
       \/ MimeAnswers(r, c, "unavailable")
       \/ MimeAnswers(r, c, "error")
    /\ UNCHANGED <<preloaded, cache>>

(* process_asset: a transition object with its token when a secondary      *)
(* action is wanted, one without, or nothing.                              *)
AssetProcessed(r) ==
    LET c == asked[r] IN
    /\ c.pc = "process"
    /\ \/ \E t \in {r, None} : MimeGoes(r, [c EXCEPT !.token = t], "fetch")
       \/ MimeAnswers(r, c, "unavailable")
       \/ MimeAnswers(r, c, "error")
    /\ UNCHANGED <<preloaded, cache>>

(* Mutant: the asset is kept under the token whatever the fetcher did.     *)
KeptAlways(r, got) == [cache EXCEPT ![r] = r]

Kept(r, got) == IF got = "throws" THEN cache ELSE [cache EXCEPT ![r] = r]

(* The fetcher for a later secondary request: a throw is caught.           *)
KeepsAsset(r) ==
    LET c == asked[r] IN
    /\ c.pc = "fetch" /\ c.token # None
    /\ \E got \in Fetcher(c.kind) :
          /\ MimeAnswers(r, c, IF got = "throws" THEN "unavailable" ELSE "offer")
          /\ cache' = Kept(r, got)
    /\ UNCHANGED preloaded

(* The fetcher when the asset is sent at once: here nothing catches.       *)
SentAs(got) == IF got = "media" THEN "asset"
               ELSE IF got = "nothing" THEN "unavailable" ELSE "error"

SendsAsset(r) ==
    LET c == asked[r] IN
    /\ c.pc = "fetch" /\ c.token = None
    /\ \E got \in Fetcher(c.kind) : MimeAnswers(r, c, SentAs(got))
    /\ UNCHANGED <<preloaded, cache>>

(* Mutant: the entry stays when it is fetched. *)
FetchedStays(t) == cache

FetchLocalAsset(t) == [cache EXCEPT ![t] = None]

(* guarded_secondary_asset_handler runs in one go: the entry is consumed;  *)
(* where it matches, the name `req` is not declared, so the handler rejects *)
(* before it looks at the asset.                                           *)
AssetSecondary(r, t) ==
    LET c == [NotAsked EXCEPT !.kind = "secondary", !.token = t,
                              !.entry = IF t = None THEN None ELSE cache[t]] IN
    /\ asked[r].pc = "idle"
    /\ cache' = IF t = None THEN cache ELSE FetchLocalAsset(t)
    /\ \/ MimeAnswers(r, c, "unavailable")
       \/ c.entry # None /\ MimeAnswers(r, c, "error")
    /\ UNCHANGED preloaded

MimeNext ==
    \E r \in Req :
       \/ \E kind \in {"static", "guarded static", "guarded dynamic"}, a \in Assets :
             AssetRequest(r, kind, a)
       \/ \E t \in Req \cup {None} : AssetSecondary(r, t)
       \/ StaticGuarded(r) \/ KindOfGuarded(r) \/ AssetProcessed(r)
       \/ KeepsAsset(r) \/ SendsAsset(r)

-----------------------------------------------------------------------------
(* Properties. *)

(* Every variable has its type. *)
MimeTypeOK ==
    /\ preloaded \in [Assets -> Entries]
    /\ asked \in [Req -> Asked]
    /\ cache \in [Req -> Req \cup {None}]

(* The abstract offer of a primary request, and the work of a secondary.   *)
AssetOffer(p) ==
    IF asked[p].answer # "offer" THEN "none"
    ELSE IF \E t \in Req : cache[t] = p THEN "open" ELSE "closed"

AssetWork(s) == IF asked[s].entry = None THEN None
                ELSE [offer |-> asked[s].entry, last |-> TRUE]

Contract == INSTANCE TransitionContract
                WITH offer <- [p \in Req |-> AssetOffer(p)],
                     work <- [s \in Req |-> AssetWork(s)]

(* mime_processing.js keeps the contract of two-phase processing: what a   *)
(* primary request was offered stands until one secondary request takes    *)
(* it, and no secondary request works on what nobody was offered.          *)
AssetsKeepContract == Contract!ContractSpec
=============================================================================
