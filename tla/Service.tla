------------------------------- MODULE Service -------------------------------
(***************************************************************************)
(* The life of a service process: user_service_class.js starts the stores  *)
(* of lib/general_db.js and then wires all parts in one go; the link       *)
(* manager (lib/general_link_manager.js, listening since it was made)      *)
(* takes endpoint operations and commands that put another store instance  *)
(* into a slot while the service runs; SIGINT disconnects the stores.      *)
(*                                                                         *)
(* One action is one stretch between two awaits.  The instances are the    *)
(* default one and the one a command makes (com_link_manager), which knows *)
(* `initialized` and `close_connection`; whether an instance has a         *)
(* `disconnect` too is the application's choice, and none of the default   *)
(* stores has one.  After initialize of the stores nothing that start-up   *)
(* awaits does any input or output, so no event comes between those steps. *)
(***************************************************************************)
EXTENDS Integers, Sequences

CONSTANTS Commands,     \* add_service_connections commands, and their instances
          Messages,     \* endpoint messages
          Signals,      \* SIGINTs
          MaxConfs,     \* bound: configurations a command lists
          Ables,        \* bound: the values of `able` to start from
          None

VARIABLES
    up,        \* where the process is
    started,   \* how many stores db.initialize has initialized
    inst,      \* inst[s]: the instance in slot s
    ready,     \* ready[s]: instances for s that are initialized
    command,   \* command[c]: the activation serving command c
    message,   \* message[m]: the activation serving endpoint message m
    able,      \* default stores (by slot) and commands' instances with a disconnect
    signal,    \* signal[k]: which store this SIGINT is disconnecting
    gone,      \* gone[s]: instances of s whose disconnect was called
    late       \* slots whose instance changed since the first SIGINT (history)

serviceVars ==
    <<up, started, inst, ready, command, message, able, signal, gone, late>>

Order == <<"key_value_db", "session_key_value_db", "persistence_db", "static_db">>
Slots == {Order[i] : i \in 1 .. Len(Order)}
Default == "default"

ServiceAssumption ==
    /\ None \notin Nat /\ MaxConfs \in Nat
    /\ \A a \in Ables : a \subseteq Slots \cup Commands
    /\ "default" \notin Commands       \* the instance of the start is not a command's

(* No target: where the process has ended. *)
Ended == {"stopped", "broken"}
Alive == up \notin Ended

NoCommand == [pc |-> "idle", slot |-> None, left |-> 0, answer |-> None]

ServiceInit ==
    /\ up = "booting"
    /\ started = 0
    /\ inst = [s \in Slots |-> Default]
    /\ ready = [s \in Slots |-> {}]
    /\ command = [c \in Commands |-> NoCommand]
    /\ message = [m \in Messages |-> "idle"]
    /\ able \in Ables
    /\ signal = [k \in Signals |-> None]
    /\ gone = [s \in Slots |-> {}]
    /\ late = {}

bootVars == <<up, started>>
storeVars == <<inst, ready, able>>
stopVars == <<signal, gone>>

-----------------------------------------------------------------------------
(* Start-up. *)

(* db.initialize: the next store has initialized, or the start ends with   *)
(* an unhandled rejection.                                                 *)
StoreStarts ==
    /\ up = "booting" /\ started < Len(Order)
    /\ \/ LET s == Order[started + 1] IN
          /\ started' = started + 1
          /\ ready' = [ready EXCEPT ![s] = @ \cup {inst[s]}]
          /\ UNCHANGED up
       \/ up' = "broken" /\ UNCHANGED <<started, ready>>
    /\ UNCHANGED <<inst, able, command, message, stopVars, late>>

(* The rest of initialize_all and setup_paths; or some step throws.        *)
Wires ==
    /\ up = "booting" /\ started = Len(Order)
    /\ up' \in {"wired", "broken"}
    /\ UNCHANGED <<started, storeVars, command, message, stopVars, late>>

(* run, which the application calls on `ready`. *)
Listens ==
    /\ up = "wired"
    /\ up' = "listening"
    /\ UNCHANGED <<started, storeVars, command, message, stopVars, late>>

Wired == up \in {"wired", "listening"}

-----------------------------------------------------------------------------
(* app_message_handler of the link manager: operations of endpoints. *)

Served(m, stage) == message' = [message EXCEPT ![m] = stage]

(* S: without a handler it is answered at once; with one the transition    *)
(* runs, or comes to undefined when the message names no server.           *)
Sets(m) ==
    /\ Alive /\ message[m] = "idle"
    /\ \E stage \in IF Wired THEN {"await", "done"} ELSE {"done"} : Served(m, stage)
    /\ UNCHANGED <<bootVars, storeVars, command, stopVars, late>>

(* The transition's result goes back. *)
Handled(m) ==
    /\ Alive /\ message[m] = "await"
    /\ Served(m, "done")
    /\ UNCHANGED <<bootVars, storeVars, command, stopVars, late>>

(* G: answered with an error without a handler; else the promise of the    *)
(* mime handler is taken apart as an array, which throws, and the handler  *)
(* itself rejects when the message names a server: nobody awaits it.       *)
Gets(m) ==
    /\ Alive /\ message[m] = "idle"
    /\ Served(m, "done")
    /\ \/ UNCHANGED up
       \/ Wired /\ up' = "broken"
    /\ UNCHANGED <<started, storeVars, command, stopVars, late>>

-----------------------------------------------------------------------------
(* add_service_connections for a database, with `change`. *)

Ends(c, a) == command' = [command EXCEPT ![c].pc = "done", ![c].answer = a]

(* The command arrives: without a database yet it is answered true; the    *)
(* method it calls for a static store does not exist.                      *)
CommandArrives(c, s, n, initialized) ==
    /\ Alive /\ command[c].pc = "idle"
    /\ command' = [command EXCEPT ![c] =
          [pc |-> IF Wired /\ s # "static_db" THEN "close" ELSE "done",
           slot |-> s, left |-> n,
           answer |-> IF ~Wired THEN "true"
                      ELSE IF s = "static_db" THEN "throws" ELSE None]]
    /\ ready' = IF initialized THEN [ready EXCEPT ![s] = @ \cup {c}] ELSE ready
    /\ UNCHANGED <<bootVars, inst, able, message, stopVars, late>>

(* The next configuration of the list, or the end of the command.          *)
Goes(c) ==
    IF command[c].left = 1 THEN Ends(c, "true")
    ELSE command' = [command EXCEPT ![c].pc = "close", ![c].left = @ - 1]

(* Mutant: what was there before decides whether to initialize. *)
OldIsInitialized(c, s) == inst[s] \in ready[s]

IsInitialized(c, s) == c \in ready[s]

(* change_..._instance after close_connection of the one in the slot: the  *)
(* new one takes its place, and is initialized unless it is.               *)
Replaces(c) ==
    LET s == command[c].slot IN
    /\ Alive /\ command[c].pc = "close"
    /\ inst' = [inst EXCEPT ![s] = c]
    /\ late' = IF \E k \in Signals : signal[k] # None THEN late \cup {s} ELSE late
    /\ IF IsInitialized(c, s)
       THEN Goes(c)
       ELSE command' = [command EXCEPT ![c].pc = "initialize"]
    /\ UNCHANGED <<bootVars, ready, able, message, stopVars>>

(* close_connection rejects, and the command with it. *)
CloseFails(c) ==
    /\ Alive /\ command[c].pc = "close"
    /\ Ends(c, "throws")
    /\ UNCHANGED <<bootVars, storeVars, message, stopVars, late>>

(* initialize settles: well, or with a rejection that ends the command and *)
(* leaves the instance in its slot.                                        *)
Initialized(c) ==
    LET s == command[c].slot IN
    /\ Alive /\ command[c].pc = "initialize"
    /\ \/ ready' = [ready EXCEPT ![s] = @ \cup {c}] /\ Goes(c)
       \/ Ends(c, "throws") /\ UNCHANGED ready
    /\ UNCHANGED <<bootVars, inst, able, message, stopVars, late>>

-----------------------------------------------------------------------------
(* setup_stopping: SIGINT. *)

HasDisconnect(s) == (IF inst[s] = Default THEN s ELSE inst[s]) \in able

(* Mutant: the session store is taken for the key-value store. *)
SkipsOne(n) == {i \in n + 2 .. Len(Order) : HasDisconnect(Order[i])}

After(n) == {i \in n + 1 .. Len(Order) : HasDisconnect(Order[i])}

(* disconnect of the database class goes on behind its n-th store: to the  *)
(* next one that can disconnect, which it awaits, or else to shutdown_all  *)
(* and the end.                                                            *)
DisconnectsFrom(k, n) ==
    \/ \E i \in After(n) :
          /\ \A j \in After(n) : i <= j
          /\ signal' = [signal EXCEPT ![k] = i]
          /\ gone' = [gone EXCEPT ![Order[i]] = @ \cup {inst[Order[i]]}]
          /\ UNCHANGED up
    \/ /\ After(n) = {}
       /\ signal' = [signal EXCEPT ![k] = Len(Order) + 1]
       /\ up' = "stopped"
       /\ UNCHANGED gone

SignalArrives(k) ==
    /\ Alive /\ signal[k] = None
    /\ DisconnectsFrom(k, 0)
    /\ UNCHANGED <<started, storeVars, command, message, late>>

Disconnected(k) ==
    /\ Alive /\ signal[k] # None
    /\ DisconnectsFrom(k, signal[k])
    /\ UNCHANGED <<started, storeVars, command, message, late>>

(* A disconnect rejects: the catch ends the process. *)
DisconnectFails(k) ==
    /\ Alive /\ signal[k] # None
    /\ up' = "broken"
    /\ UNCHANGED <<started, storeVars, command, message, stopVars, late>>

-----------------------------------------------------------------------------
ServiceNext ==
    \/ StoreStarts \/ Wires \/ Listens
    \/ \E m \in Messages : Sets(m) \/ Handled(m) \/ Gets(m)
    \/ \E c \in Commands :
          \/ \E s \in Slots, n \in 1 .. MaxConfs, initialized \in BOOLEAN :
                CommandArrives(c, s, n, initialized)
          \/ Replaces(c) \/ CloseFails(c) \/ Initialized(c)
    \/ \E k \in Signals : SignalArrives(k) \/ Disconnected(k) \/ DisconnectFails(k)

-----------------------------------------------------------------------------
(* Properties. *)

(* Every variable has its type. *)
ServiceTypeOK ==
    /\ up \in {"booting", "wired", "listening"} \cup Ended
    /\ started \in 0 .. Len(Order)
    /\ inst \in [Slots -> Commands \cup {Default}]
    /\ \A s \in Slots : ready[s] \cup gone[s] \subseteq Commands \cup {Default}
    /\ \A c \in Commands : command[c].left \in 0 .. MaxConfs
    /\ able \subseteq Slots \cup Commands
    /\ \A k \in Signals : signal[k] = None \/ signal[k] \in 1 .. Len(Order) + 1
    /\ late \subseteq Slots

(* general_db.js, change_..._instance: once the service is wired and no    *)
(* command works on a slot, however commands overlapped, the instance in   *)
(* the slot is initialized, unless its own initialize failed.              *)
AtWork(s) == \E c \in Commands :
                command[c].slot = s /\ command[c].pc \in {"close", "initialize"}

InstalledIsInitialized ==
    Wired => \A s \in Slots :
        \/ AtWork(s)
        \/ inst[s] \in ready[s]
        \/ inst[s] # Default /\ command[inst[s]].answer = "throws"

(* user_service_class.js, setup_stopping: a process that ended as it       *)
(* should has called the disconnect of what is in every slot and has one,  *)
(* but for slots a command changed since the signal.                       *)
StopDisconnectsAll ==
    up = "stopped" =>
        \A s \in Slots \ late : HasDisconnect(s) => inst[s] \in gone[s]
=============================================================================
