-------------------------------- MODULE MCLive --------------------------------
(***************************************************************************)
(* Liveness of the handlers and stores that run on timers and promises.    *)
(* They share no state in the code; in a behaviour of this instance one of *)
(* them (part) runs and the others stay in an initial state.  The default  *)
(* persistent store and the relay store use the same variables.            *)
(***************************************************************************)
EXTENDS RelayStore

CONSTANTS Parts,
          Req, Tokens, Transitions,
          k1, k2, k3, f1, f2, Files, FilesAtStart, NoFile, Setups, Stopper,
          Cullers, Removers, Getters, MaxInMem, ReleaseSize

VARIABLES part,
          call, cache, tobj,
          setup, table, disk, toRemove, cull, rem, getter, run, latest, unsure, opsDone,
          starts

MCKeys == {k1, k2, k3}
MCFiles == {f1, f2}
MCFileOf == [k \in MCKeys |-> IF k = k3 THEN f2 ELSE f1]

TH == INSTANCE TransitionHandling
KV == INSTANCE KeyValueDB WITH Keys <- MCKeys, FileOf <- MCFileOf, MaxOps <- 4,
                               restarts <- starts
FM == INSTANCE FileMapper

transitionVars == <<call, cache, tobj>>
kvVars == <<setup, table, disk, toRemove, cull, rem, getter, run, latest, unsure, opsDone,
          starts>>
vars == <<part, relayVars, transitionVars, kvVars>>

mapperOthers == <<buckets, relay, remote, pending, finding, known, now>>

Init ==
    /\ part \in Parts
    /\ TH!Init /\ KV!Init /\ RelayInit
    /\ part # "kv" => setup = {"cull", "get"} /\ disk = [f \in Files |-> NoFile]
    /\ part # "relay" => relay = "none"

(* A step of one part; the others stay as they are. *)
InTransition(A) ==
    part = "transition" /\ A /\ UNCHANGED <<part, relayVars, kvVars>>
InKV(A) ==
    part = "kv" /\ A /\ UNCHANGED <<part, relayVars, transitionVars>>
InMapper(A) ==
    part = "mapper" /\ A /\ UNCHANGED <<part, transitionVars, kvVars, mapperOthers>>
InRelay(A) ==
    part = "relay" /\ A /\ UNCHANGED <<part, transitionVars, kvVars>>

Next ==
    /\ UNCHANGED part
    /\ \/ /\ part = "transition" /\ TH!Next
          /\ UNCHANGED <<relayVars, kvVars>>
       \/ /\ part = "kv" /\ KV!Next
          /\ UNCHANGED <<relayVars, transitionVars>>
       \/ /\ part = "mapper" /\ FM!Next
          /\ UNCHANGED <<mapperOthers, transitionVars, kvVars>>
       \/ /\ part = "relay" /\ RelayNext
          /\ UNCHANGED <<transitionVars, kvVars>>

Spec == Init /\ [][Next]_vars

(* What the hooks of the application return settles; the timers keep       *)
(* firing, file operations complete, and the relay service works.          *)
FairSpec ==
    /\ Spec
    /\ \A r \in Req : WF_vars(InTransition(TH!Settles(r)))
    /\ \A c \in Cullers : WF_vars(InKV(KV!MemCheck(c)))
    /\ \A c \in Cullers \cup {Stopper} : WF_vars(InKV(KV!Culling(c)))
    /\ \A r \in Removers : WF_vars(InKV(KV!RemovalTimer(r)))
    /\ \A r \in Removers \cup {Stopper} : WF_vars(InKV(KV!Removing(r)))
    /\ \A g \in Getters : WF_vars(InKV(KV!Getting(g)))
    /\ WF_vars(InKV(KV!ShutdownStores))
    /\ WF_vars(InMapper(FM!Stash))
    /\ WF_vars(InMapper(FM!Written))
    /\ WF_vars(InRelay(Stash(TRUE)))
    /\ WF_vars(InRelay(Written))
    /\ WF_vars(InRelay(Delivered))

-----------------------------------------------------------------------------
(* Properties: those of the modules. *)

(* transition_processing.js and its callers: a request of an endpoint is   *)
(* answered whatever the hooks of the application answer; one of a web     *)
(* server is answered or its handler rejects, and one of a websocket ends. *)
EveryRequestAnswered == TH!EveryRequestAnswered

(* key_value_db.js: a crowded table comes back to its limit once the       *)
(* operations pause.                                                       *)
MemoryRecedes == KV!MemoryRecedes

(* key_value_db.js: a deleted key leaves its file.                         *)
RemovalTakesEffect == KV!RemovalTakesEffect

(* The stash timers of the two stores that write a map to a file: what     *)
(* update stores while no write is under way gets there, if it lasts and   *)
(* no write fails.                                                         *)
MapReachesFile == FM!MapReachesFile /\ ObjectsReachFile
=============================================================================
