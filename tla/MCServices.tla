------------------------------ MODULE MCServices ------------------------------
(***************************************************************************)
(* What a service is made of beside its transitions and stores: its life   *)
(* (Service), the accounts of the reference application, the separate      *)
(* service for foreign logins and the assets.  They share no state in the  *)
(* code, so in a behaviour of this instance one of them (part) runs and    *)
(* the others stay in an initial state.                                    *)
(***************************************************************************)
EXTENDS ForeignAuth, TLC

CONSTANTS Parts,
          Commands, Messages, Signals, MaxConfs, Ables,
          Users, Reqs, Passwords, MaxCount,
          Req, Assets

VARIABLES part,
          up, started, inst, ready, command, message, able, signal, gone,
          late,
          users, record, updates, recent, page, put, numbers, planned, shown,
          spoilt, mail, act,
          preloaded, asked, cache

SV == INSTANCE Service
AC == INSTANCE Accounts
MH == INSTANCE MimeHandling

ASSUME ServicesAssumption ==
    SV!ServiceAssumption /\ AC!AccountAssumption /\ MH!MimeAssumption

accountVars ==
    <<users, record, updates, recent, page, put, numbers, planned, shown, spoilt,
      mail, act>>
serviceVars ==
    <<up, started, inst, ready, command, message, able, signal, gone, late>>
mimeVars == <<preloaded, asked, cache>>
vars == <<part, serviceVars, accountVars, foreignVars, mimeVars>>

(* All requests but one: with fewer permutations each state is cheaper.    *)
Symmetry == Permutations(Commands)
                \cup Permutations(Reqs \ {CHOOSE r \in Reqs : TRUE})

Init ==
    /\ part \in Parts
    /\ SV!ServiceInit /\ AC!AccountInit /\ ForeignInit /\ MH!MimeInit
    /\ part # "service" => able = {}
    /\ part # "accounts" => users = [u \in Users |-> None]
    /\ part # "mime" => preloaded = [a \in Assets |-> "absent"]

Next ==
    /\ UNCHANGED part
    /\ \/ /\ part = "service" /\ SV!ServiceNext
          /\ UNCHANGED <<accountVars, foreignVars, mimeVars>>
       \/ /\ part = "accounts" /\ AC!AccountNext
          /\ UNCHANGED <<serviceVars, foreignVars, mimeVars>>
       \/ /\ part = "foreign" /\ ForeignNext
          /\ UNCHANGED <<serviceVars, accountVars, mimeVars>>
       \/ /\ part = "mime" /\ MH!MimeNext
          /\ UNCHANGED <<serviceVars, accountVars, foreignVars>>

Spec == Init /\ [][Next]_vars

-----------------------------------------------------------------------------
(* Properties beside those of ForeignAuth: the ones of the other modules. *)

(* Every variable has its type. *)
TypeOK == SV!ServiceTypeOK /\ AC!AccountTypeOK /\ ForeignTypeOK /\ MH!MimeTypeOK

(* captcha_business.js: the page a mail links to leads to its user.        *)
PageNumberIsLive == AC!PageNumberIsLive

(* general_db.js: what is in a slot of a wired service is initialized.      *)
InstalledIsInitialized == SV!InstalledIsInitialized

(* user_service_class.js: an orderly end has disconnected every store.      *)
StopDisconnectsAll == SV!StopDisconnectsAll

(* mime_processing.js implements TransitionContract over the token cache.  *)
AssetsKeepContract == MH!AssetsKeepContract
=============================================================================
