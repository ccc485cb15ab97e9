---------------------------- MODULE ServicesProofs ----------------------------
(***************************************************************************)
(* Proofs about the parts of a service that MCServices puts side by side:  *)
(* its life, the accounts, and the assets.  They hold for every number of  *)
(* commands, signals, users and requests; each part has an inductive       *)
(* invariant of its own, and no step of one part disturbs another.         *)
(***************************************************************************)
EXTENDS MCServices, ForeignAuthProofs, Sequences

(* A step is a step of each part, or leaves the part alone. *)
LEMMA StepsOfParts ==
  ASSUME [Next]_vars
  PROVE  /\ [SV!ServiceNext]_serviceVars
         /\ [AC!AccountNext]_accountVars
         /\ [ForeignNext]_foreignVars
         /\ [MH!MimeNext]_mimeVars
BY DEF Next, vars

-----------------------------------------------------------------------------
(* The life of a service. *)

Instances == Commands \cup {SV!Default}
CommandRecs == [pc : {"idle", "close", "initialize", "done"},
                slot : SV!Slots \cup {None}, left : 0 .. MaxConfs,
                answer : {None, "true", "throws"}]

ServiceShape ==
    /\ up \in {"booting", "wired", "listening", "stopped", "broken"}
    /\ started \in 0 .. 4
    /\ inst \in [SV!Slots -> Instances]
    /\ ready \in [SV!Slots -> SUBSET Instances]
    /\ gone \in [SV!Slots -> SUBSET Instances]
    /\ command \in [Commands -> CommandRecs]
    /\ \A c \in Commands : command[c].pc \in {"close", "initialize"} =>
                              command[c].slot \in SV!Slots /\ command[c].left >= 1
    /\ able \subseteq SV!Slots \cup Commands
    /\ signal \in [Signals -> {None} \cup (1 .. 5)]
    /\ late \subseteq SV!Slots

(* Until it is wired a service has its own stores, and what it has started *)
(* is initialized.                                                         *)
Booted ==
    /\ up = "booting" =>
          /\ \A s \in SV!Slots : inst[s] = SV!Default
          /\ \A i \in 1 .. started : SV!Default \in ready[SV!Order[i]]
          /\ \A c \in Commands : command[c].pc \in {"idle", "done"}
    /\ SV!Wired => \A s \in SV!Slots : SV!Default \in ready[s]

(* The command that put an instance into a slot is at work on it, or has   *)
(* left it initialized, or was told that it could not be.                  *)
Installed ==
    \A s \in SV!Slots, c \in Commands : inst[s] = c =>
        /\ command[c].slot = s /\ command[c].pc # "idle"
        /\ \/ command[c].pc \in {"close", "initialize"}
           \/ c \in ready[s]
           \/ command[c].answer = "throws"

(* A signal has disconnected the stores it has passed, and the one it is at. *)
Passed(s) == s \in late \/ ~SV!HasDisconnect(s) \/ inst[s] \in gone[s]

Stopping ==
    /\ \A k \in Signals : signal[k] # None =>
          /\ SV!Alive => signal[k] < 5
          /\ \A i \in 1 .. 4 : i <= signal[k] => Passed(SV!Order[i])
    /\ up = "stopped" => \E k \in Signals : signal[k] = 5

ServiceInv == ServiceShape /\ Booted /\ Installed /\ Stopping

LEMMA OrderIs ==
  /\ Len(SV!Order) = 4
  /\ \A i \in 1 .. 4 : SV!Order[i] \in SV!Slots
  /\ \A s \in SV!Slots : \E i \in 1 .. 4 : SV!Order[i] = s
  /\ \A i, j \in 1 .. 4 : SV!Order[i] = SV!Order[j] => i = j
BY DEF SV!Order, SV!Slots

LEMMA InitService == SV!ServiceInit => ServiceInv
<1> SUFFICES ASSUME SV!ServiceInit PROVE ServiceInv
  OBVIOUS
<1>1. SV!NoCommand \in CommandRecs /\ SV!NoCommand.pc = "idle"
  <2>1. 0 \in 0 .. MaxConfs
    BY ServicesAssumption DEF SV!ServiceAssumption
  <2> QED BY <2>1 DEF SV!NoCommand, CommandRecs
<1>2. ServiceShape
  BY <1>1, ServicesAssumption
     DEF SV!ServiceInit, SV!ServiceAssumption, ServiceShape, Instances
<1>3. Booted /\ Installed /\ Stopping
  BY <1>1, ServicesAssumption, OrderIs
     DEF SV!ServiceInit, Booted, Installed, Stopping, SV!Wired, SV!Default,
         SV!ServiceAssumption
<1> QED BY <1>2, <1>3 DEF ServiceInv

(* Start-up: stores are initialized one after the other, then all is wired. *)
LEMMA BootKeeps ==
  ASSUME ServiceInv, SV!StoreStarts \/ SV!Wires \/ SV!Listens
  PROVE  ServiceInv'
<1>0. ServiceShape /\ Booted /\ Installed /\ Stopping
  BY DEF ServiceInv
<1>1. CASE SV!StoreStarts
  <2>1. /\ up = "booting" /\ started < 4
        /\ UNCHANGED <<inst, able, command, signal, gone, late>>
    BY <1>1, OrderIs DEF SV!StoreStarts, SV!stopVars
  <2>2. CASE up' = "broken" /\ UNCHANGED <<started, ready>>
    <3>1. ServiceShape'
      BY <1>0, <2>1, <2>2 DEF ServiceShape
    <3>2. Booted' /\ Installed'
      BY <1>0, <2>1, <2>2 DEF Booted, Installed, SV!Wired
    <3>3. Stopping'
      BY <1>0, <2>1, <2>2 DEF Stopping, Passed, SV!HasDisconnect, SV!Alive, SV!Ended
    <3> QED BY <3>1, <3>2, <3>3 DEF ServiceInv
  <2>3. CASE /\ started' = started + 1 /\ up' = up
             /\ ready' = [ready EXCEPT ![SV!Order[started + 1]] =
                             @ \cup {inst[SV!Order[started + 1]]}]
    <3> DEFINE s == SV!Order[started + 1]
    <3>1. started + 1 \in 1 .. 4 /\ s \in SV!Slots /\ inst[s] = SV!Default
      BY <1>0, <2>1, OrderIs DEF ServiceShape, Booted
    <3>2. ServiceShape'
      BY <1>0, <2>1, <2>3, <3>1 DEF ServiceShape, Instances
    <3>3. /\ \A t \in SV!Slots : ready[t] \subseteq ready'[t]
          /\ SV!Default \in ready'[s]
      BY <1>0, <2>3, <3>1 DEF ServiceShape
    <3>4. \A i \in 1 .. started' : i \in 1 .. started \/ i = started + 1
      BY <1>0, <2>3 DEF ServiceShape
    <3>5. \A i \in 1 .. started' : SV!Order[i] \in SV!Slots
      BY <1>0, <2>1, <2>3, OrderIs DEF ServiceShape
    <3>6. Booted' /\ Installed'
      BY <1>0, <2>1, <2>3, <3>3, <3>4, <3>5 DEF Booted, Installed, SV!Wired
    <3>7. Stopping'
      BY <1>0, <2>1, <2>3 DEF Stopping, Passed, SV!HasDisconnect, SV!Alive
    <3> QED BY <3>2, <3>6, <3>7 DEF ServiceInv
  <2> QED BY <1>1, <2>2, <2>3 DEF SV!StoreStarts
<1>2. CASE SV!Wires \/ SV!Listens
  <2>1. /\ up \in {"booting", "wired"} /\ up' \in {"wired", "listening", "broken"}
        /\ up = "booting" => started = 4
        /\ UNCHANGED <<started, inst, ready, able, command, signal, gone, late>>
    BY <1>2, OrderIs DEF SV!Wires, SV!Listens, SV!storeVars, SV!stopVars
  <2>2. ServiceShape'
    BY <1>0, <2>1 DEF ServiceShape
  <2>3. \A s \in SV!Slots : SV!Default \in ready[s]
    BY <1>0, <2>1, OrderIs DEF Booted, SV!Wired
  <2>4. Booted' /\ Installed'
    BY <1>0, <2>1, <2>3 DEF Booted, Installed
  <2>5. Stopping'
    BY <1>0, <2>1 DEF Stopping, Passed, SV!HasDisconnect, SV!Alive, SV!Ended
  <2> QED BY <2>2, <2>4, <2>5 DEF ServiceInv
<1> QED BY <1>1, <1>2

(* Endpoint messages change nothing but whether the process lives. *)
LEMMA MessagesKeep ==
  ASSUME ServiceInv, NEW m \in Messages, SV!Sets(m) \/ SV!Handled(m) \/ SV!Gets(m)
  PROVE  ServiceInv'
<1>1. /\ up' = up \/ (SV!Wired /\ up' = "broken")
      /\ UNCHANGED <<started, inst, ready, able, command, signal, gone, late>>
  BY DEF SV!Sets, SV!Handled, SV!Gets, SV!storeVars, SV!stopVars, SV!bootVars
<1>2. ServiceShape' /\ Booted' /\ Installed'
  BY <1>1 DEF ServiceInv, ServiceShape, Booted, Installed, SV!Wired
<1>3. Stopping'
  BY <1>1 DEF ServiceInv, Stopping, Passed, SV!HasDisconnect, SV!Alive, SV!Ended
<1> QED BY <1>2, <1>3 DEF ServiceInv

(* What a step of a command leaves, when the slots keep their instances. *)
LEMMA CommandMoves ==
  ASSUME ServiceInv, NEW c \in Commands, ServiceShape',
         UNCHANGED <<up, started, inst, able, signal, gone, late>>,
         \A d \in Commands \ {c} : command'[d] = command[d],
         \A s \in SV!Slots : ready[s] \subseteq ready'[s],
         up = "booting" => command'[c].pc \in {"idle", "done"},
         \A s \in SV!Slots : inst[s] = c =>
            /\ command'[c].slot = s /\ command'[c].pc # "idle"
            /\ \/ command'[c].pc \in {"close", "initialize"}
               \/ c \in ready'[s]
               \/ command'[c].answer = "throws"
  PROVE  ServiceInv'
<1>1. Booted' /\ Stopping'
  <2>1. \A i \in 1 .. started : SV!Order[i] \in SV!Slots
    BY OrderIs DEF ServiceInv, ServiceShape
  <2> QED BY <2>1 DEF ServiceInv, Booted, Stopping, Passed, SV!HasDisconnect, SV!Wired, SV!Alive
<1>2. Installed'
  BY DEF ServiceInv, Installed
<1> QED BY <1>1, <1>2 DEF ServiceInv

(* A command is answered, or goes on with its next configuration. *)
LEMMA CommandEnds ==
  ASSUME ServiceInv, NEW c \in Commands, NEW a \in {"true", "throws"}, SV!Ends(c, a)
  PROVE  /\ command' \in [Commands -> CommandRecs]
         /\ command'[c].pc = "done" /\ command'[c].answer = a
         /\ command'[c].slot = command[c].slot
         /\ \A d \in Commands \ {c} : command'[d] = command[d]
BY DEF SV!Ends, ServiceInv, ServiceShape, CommandRecs

LEMMA CommandGoes ==
  ASSUME ServiceInv, NEW c \in Commands, command[c].pc \in {"close", "initialize"},
         SV!Goes(c)
  PROVE  /\ command' \in [Commands -> CommandRecs]
         /\ command'[c].pc \in {"close", "done"}
         /\ command'[c].pc = "close" => command'[c].left >= 1
         /\ command'[c].slot = command[c].slot
         /\ \A d \in Commands \ {c} : command'[d] = command[d]
<1>1. /\ command \in [Commands -> CommandRecs] /\ command[c] \in CommandRecs
      /\ command[c].left >= 1 /\ command[c].left \in 0 .. MaxConfs
  BY DEF ServiceInv, ServiceShape, CommandRecs
<1>2. CASE command[c].left = 1
  BY <1>2, CommandEnds DEF SV!Goes
<1>3. CASE command[c].left # 1
  <2> DEFINE n == command[c].left - 1
  <2>1. n \in 0 .. MaxConfs /\ n >= 1
    BY <1>1, <1>3, ServicesAssumption DEF SV!ServiceAssumption
  <2>2. command' = [command EXCEPT ![c].pc = "close", ![c].left = n]
    BY <1>3 DEF SV!Goes
  <2> HIDE DEF n
  <2> QED BY <1>1, <2>1, <2>2 DEF CommandRecs
<1> QED BY <1>2, <1>3

(* A command arrives, and knows no slot yet. *)
LEMMA ArrivalKeeps ==
  ASSUME ServiceInv, NEW c \in Commands, NEW s \in SV!Slots, NEW n \in 1 .. MaxConfs,
         NEW initialized \in BOOLEAN, SV!CommandArrives(c, s, n, initialized)
  PROVE  ServiceInv'
<1> DEFINE new == [pc |-> IF SV!Wired /\ s # "static_db" THEN "close" ELSE "done",
                   slot |-> s, left |-> n,
                   answer |-> IF ~SV!Wired THEN "true"
                              ELSE IF s = "static_db" THEN "throws" ELSE None]
<1>0. ServiceShape /\ Installed /\ n \in 0 .. MaxConfs /\ n >= 1
  BY ServicesAssumption DEF ServiceInv, SV!ServiceAssumption
<1>1. /\ command[c].pc = "idle" /\ command' = [command EXCEPT ![c] = new]
      /\ ready' = IF initialized THEN [ready EXCEPT ![s] = @ \cup {c}] ELSE ready
      /\ UNCHANGED <<up, started, inst, able, signal, gone, late>>
  BY DEF SV!CommandArrives, SV!bootVars, SV!stopVars
<1>2. new \in CommandRecs /\ new.slot = s /\ new.left = n
  BY <1>0 DEF CommandRecs
<1> HIDE DEF new
<1>3. /\ command' \in [Commands -> CommandRecs] /\ command'[c] = new
      /\ \A d \in Commands \ {c} : command'[d] = command[d]
  BY <1>0, <1>1, <1>2 DEF ServiceShape
<1>4. /\ ready' \in [SV!Slots -> SUBSET Instances]
      /\ \A t \in SV!Slots : ready[t] \subseteq ready'[t]
  BY <1>0, <1>1 DEF ServiceShape, Instances
<1>5. ServiceShape'
  BY <1>0, <1>1, <1>2, <1>3, <1>4 DEF ServiceShape
<1>6. \A t \in SV!Slots : inst[t] # c
  BY <1>0, <1>1 DEF Installed
<1>7. up = "booting" => command'[c].pc = "done"
  BY <1>3 DEF new, SV!Wired
<1> QED BY <1>1, <1>3, <1>4, <1>5, <1>6, <1>7, CommandMoves

(* The one in the slot has closed: the command's instance takes its place. *)
LEMMA ReplacementKeeps ==
  ASSUME ServiceInv, NEW c \in Commands, SV!Replaces(c)
  PROVE  ServiceInv'
<1> DEFINE s == command[c].slot
<1>0. ServiceShape /\ Booted /\ Installed /\ Stopping
  BY DEF ServiceInv
<1>1. /\ command[c].pc = "close" /\ s \in SV!Slots
      /\ inst' = [inst EXCEPT ![s] = c]
      /\ late' = IF \E k \in Signals : signal[k] # None THEN late \cup {s} ELSE late
      /\ UNCHANGED <<up, started, ready, able, signal, gone>>
  BY <1>0 DEF SV!Replaces, SV!bootVars, SV!stopVars, ServiceShape
<1>2. /\ command' \in [Commands -> CommandRecs]
      /\ command'[c].slot = s /\ command'[c].pc # "idle"
      /\ command'[c].pc \in {"close", "initialize"} => command'[c].left >= 1
      /\ command'[c].pc \in {"close", "initialize"} \/ c \in ready[s]
      /\ \A d \in Commands \ {c} : command'[d] = command[d]
  <2>1. CASE SV!IsInitialized(c, s)
    <3>1. SV!Goes(c) /\ c \in ready[s]
      BY <2>1 DEF SV!Replaces, SV!IsInitialized
    <3> QED BY <1>1, <3>1, CommandGoes
  <2>2. CASE ~SV!IsInitialized(c, s)
    <3>1. command' = [command EXCEPT ![c].pc = "initialize"]
      BY <2>2 DEF SV!Replaces
    <3> QED BY <1>0, <1>1, <3>1 DEF ServiceShape, CommandRecs
  <2> QED BY <2>1, <2>2
<1>3. ServiceShape'
  BY <1>0, <1>1, <1>2 DEF ServiceShape, Instances
<1>4. up # "booting" /\ Booted'
  <2>1. up # "booting"
    BY <1>0, <1>1 DEF Booted
  <2> QED BY <1>0, <1>1, <2>1 DEF Booted, SV!Wired
<1>5. Installed'
  <2> SUFFICES ASSUME NEW t \in SV!Slots, NEW d \in Commands, inst'[t] = d
               PROVE  /\ command'[d].slot = t /\ command'[d].pc # "idle"
                      /\ \/ command'[d].pc \in {"close", "initialize"}
                         \/ d \in ready'[t]
                         \/ command'[d].answer = "throws"
    BY DEF Installed
  <2>1. CASE t = s
    <3>1. d = c
      BY <1>0, <1>1, <2>1 DEF ServiceShape
    <3> QED BY <1>1, <1>2, <2>1, <3>1
  <2>2. CASE t # s
    <3>1. inst[t] = d
      BY <1>0, <1>1, <2>2 DEF ServiceShape
    <3>2. d # c
      BY <1>0, <2>2, <3>1 DEF Installed
    <3> QED BY <1>0, <1>1, <1>2, <3>1, <3>2 DEF Installed
  <2> QED BY <2>1, <2>2
<1>6. Stopping'
  <2>1. ASSUME NEW k \in Signals, signal[k] # None, NEW i \in 1 .. 4,
               i <= signal[k]
        PROVE  Passed(SV!Order[i])'
    <3>1. late' = late \cup {s}
      BY <1>1, <2>1
    <3>2. CASE SV!Order[i] = s
      BY <3>1, <3>2 DEF Passed
    <3>3. CASE SV!Order[i] # s
      <4>1. inst'[SV!Order[i]] = inst[SV!Order[i]]
        BY <1>0, <1>1, <3>3, OrderIs DEF ServiceShape
      <4>2. Passed(SV!Order[i])
        BY <1>0, <2>1 DEF Stopping
      <4> QED BY <1>1, <3>1, <4>1, <4>2 DEF Passed, SV!HasDisconnect
    <3> QED BY <3>2, <3>3
  <2> QED BY <1>0, <1>1, <2>1 DEF Stopping, SV!Alive
<1> QED BY <1>3, <1>4, <1>5, <1>6 DEF ServiceInv

(* A close or an initialize that rejects ends the command; an initialize   *)
(* that settles well leaves the instance initialized.                      *)
LEMMA SettlingKeeps ==
  ASSUME ServiceInv, NEW c \in Commands, SV!CloseFails(c) \/ SV!Initialized(c)
  PROVE  ServiceInv'
<1> DEFINE s == command[c].slot
<1>0. ServiceShape /\ Booted /\ Installed
  BY DEF ServiceInv
<1>1. /\ command[c].pc \in {"close", "initialize"} /\ s \in SV!Slots
      /\ UNCHANGED <<up, started, inst, able, signal, gone, late>>
  BY <1>0 DEF SV!CloseFails, SV!Initialized, SV!bootVars, SV!stopVars, SV!storeVars,
              ServiceShape
<1>2. up # "booting" /\ \A t \in SV!Slots : inst[t] = c => t = s
  BY <1>0, <1>1 DEF Booted, Installed
<1>3. CASE SV!Ends(c, "throws") /\ ready' = ready
  <2>1. /\ command' \in [Commands -> CommandRecs]
        /\ command'[c].pc = "done" /\ command'[c].answer = "throws"
        /\ command'[c].slot = s
        /\ \A d \in Commands \ {c} : command'[d] = command[d]
    BY <1>3, CommandEnds
  <2>2. ServiceShape'
    BY <1>0, <1>1, <1>3, <2>1 DEF ServiceShape
  <2> QED BY <1>1, <1>2, <1>3, <2>1, <2>2, CommandMoves
<1>4. CASE SV!Goes(c) /\ ready' = [ready EXCEPT ![s] = @ \cup {c}]
  <2>1. /\ command' \in [Commands -> CommandRecs]
        /\ command'[c].pc \in {"close", "done"}
        /\ command'[c].pc = "close" => command'[c].left >= 1
        /\ command'[c].slot = s
        /\ \A d \in Commands \ {c} : command'[d] = command[d]
    BY <1>1, <1>4, CommandGoes
  <2>2. /\ ready' \in [SV!Slots -> SUBSET Instances]
        /\ \A t \in SV!Slots : ready[t] \subseteq ready'[t]
        /\ c \in ready'[s]
    BY <1>0, <1>1, <1>4 DEF ServiceShape, Instances
  <2>3. ServiceShape'
    BY <1>0, <1>1, <2>1, <2>2 DEF ServiceShape
  <2> QED BY <1>1, <1>2, <2>1, <2>2, <2>3, CommandMoves
<1> QED BY <1>3, <1>4 DEF SV!CloseFails, SV!Initialized, SV!storeVars

(* SIGINT: the stores are disconnected one after the other. *)
LEMMA SignalsKeep ==
  ASSUME ServiceInv, NEW k \in Signals,
         SV!SignalArrives(k) \/ SV!Disconnected(k) \/ SV!DisconnectFails(k)
  PROVE  ServiceInv'
<1>0. ServiceShape /\ Booted /\ Installed /\ Stopping
  BY DEF ServiceInv
<1>1. SV!Alive /\ UNCHANGED <<started, inst, ready, able, command, late>>
  BY DEF SV!SignalArrives, SV!Disconnected, SV!DisconnectFails, SV!bootVars,
         SV!storeVars, SV!stopVars
<1>2. CASE SV!DisconnectFails(k)
  <2>1. up' = "broken" /\ UNCHANGED <<signal, gone>>
    BY <1>2 DEF SV!DisconnectFails, SV!stopVars
  <2>2. ServiceShape' /\ Booted' /\ Installed'
    BY <1>0, <1>1, <2>1 DEF ServiceShape, Booted, Installed, SV!Wired
  <2>3. Stopping'
    BY <1>0, <1>1, <2>1 DEF Stopping, Passed, SV!HasDisconnect, SV!Alive, SV!Ended
  <2> QED BY <2>2, <2>3 DEF ServiceInv
(* The signal has passed store n, and goes on. *)
<1>3. ASSUME NEW n \in 0 .. 4, \A i \in 1 .. 4 : i <= n => Passed(SV!Order[i]),
             SV!DisconnectsFrom(k, n)
      PROVE  ServiceInv'
  <2>1. PICK m \in 1 .. 5 :
          /\ signal' = [signal EXCEPT ![k] = m]
          /\ \A j \in 1 .. 4 : n < j /\ j < m => ~SV!HasDisconnect(SV!Order[j])
          /\ \/ /\ m \in 1 .. 4 /\ UNCHANGED up
                /\ gone' = [gone EXCEPT ![SV!Order[m]] = @ \cup {inst[SV!Order[m]]}]
             \/ m = 5 /\ up' = "stopped" /\ gone' = gone
    <3>1. CASE SV!After(n) = {}
      <4>1. signal' = [signal EXCEPT ![k] = 5] /\ up' = "stopped" /\ gone' = gone
        BY <1>3, <3>1, OrderIs DEF SV!DisconnectsFrom
      <4>2. \A j \in 1 .. 4 : n < j => ~SV!HasDisconnect(SV!Order[j])
        BY <3>1, OrderIs DEF SV!After
      <4> QED BY <4>1, <4>2
    <3>2. CASE SV!After(n) # {}
      <4>1. PICK i \in SV!After(n) :
              /\ \A j \in SV!After(n) : i <= j
              /\ signal' = [signal EXCEPT ![k] = i]
              /\ gone' = [gone EXCEPT ![SV!Order[i]] = @ \cup {inst[SV!Order[i]]}]
              /\ UNCHANGED up
        BY <1>3, <3>2 DEF SV!DisconnectsFrom
      <4>2. i \in 1 .. 4
        BY OrderIs DEF SV!After
      <4>3. ASSUME NEW j \in 1 .. 4, n < j, j < i
            PROVE  ~SV!HasDisconnect(SV!Order[j])
        <5>1. j \notin SV!After(n)
          BY <4>1, <4>2, <4>3
        <5>2. j \in n + 1 .. 4
          BY <4>3
        <5> QED BY <5>1, <5>2, OrderIs DEF SV!After
      <4>4. i \in 1 .. 5
        BY <4>2
      <4> WITNESS i \in 1 .. 5
      <4> QED BY <4>1, <4>2, <4>3
    <3> QED BY <3>1, <3>2
  <2>2. signal'[k] = m /\ m # None /\ \A j \in Signals \ {k} : signal'[j] = signal[j]
    BY <1>0, <2>1, ServicesAssumption DEF ServiceShape, SV!ServiceAssumption
  <2>3. /\ gone' \in [SV!Slots -> SUBSET Instances]
        /\ \A t \in SV!Slots : gone[t] \subseteq gone'[t]
        /\ m \in 1 .. 4 => inst[SV!Order[m]] \in gone'[SV!Order[m]]
    BY <1>0, <2>1, OrderIs DEF ServiceShape
  <2>4. ServiceShape'
    BY <1>0, <1>1, <2>1, <2>3 DEF ServiceShape
  <2>5. Booted' /\ Installed'
    BY <1>0, <1>1, <2>1 DEF Booted, Installed, SV!Wired
  <2>6. \A t \in SV!Slots : Passed(t) => Passed(t)'
    BY <1>1, <2>3 DEF Passed, SV!HasDisconnect
  <2>7. ASSUME NEW j \in Signals, signal'[j] # None
        PROVE  /\ SV!Alive' => signal'[j] < 5
               /\ \A i \in 1 .. 4 : i <= signal'[j] => Passed(SV!Order[i])'
    <3>1. CASE j = k
      <4>1. SV!Alive' => m < 5
        BY <2>1 DEF SV!Alive, SV!Ended
      <4>2. ASSUME NEW i \in 1 .. 4, i <= m
            PROVE  Passed(SV!Order[i])'
        <5>1. CASE i <= n
          BY <1>3, <2>6, <5>1, OrderIs
        <5>2. CASE i = m
          BY <2>3, <1>1, <5>2 DEF Passed
        <5>3. CASE n < i /\ i < m
          BY <1>1, <2>1, <5>3 DEF Passed, SV!HasDisconnect
        <5> QED BY <4>2, <5>1, <5>2, <5>3
      <4> QED BY <2>2, <3>1, <4>1, <4>2
    <3>2. CASE j # k
      <4>1. signal'[j] = signal[j]
        BY <2>2, <3>2
      <4>2. \A i \in 1 .. 4 : i <= signal[j] => Passed(SV!Order[i])
        BY <1>0, <2>7, <4>1 DEF Stopping
      <4>3. signal[j] < 5
        BY <1>0, <1>1, <2>7, <4>1 DEF Stopping
      <4> QED BY <2>6, <4>1, <4>2, <4>3, OrderIs
    <3> QED BY <3>1, <3>2
  <2>8. up' = "stopped" => signal'[k] = 5
    BY <1>1, <2>1, <2>2 DEF SV!Alive, SV!Ended
  <2>9. Stopping'
    BY <2>7, <2>8 DEF Stopping
  <2> QED BY <2>4, <2>5, <2>9 DEF ServiceInv
<1>4. CASE SV!SignalArrives(k)
  <2>1. SV!DisconnectsFrom(k, 0)
    BY <1>4 DEF SV!SignalArrives
  <2>2. \A i \in 1 .. 4 : ~(i <= 0)
    OBVIOUS
  <2> QED BY <1>3, <2>1, <2>2
<1>5. CASE SV!Disconnected(k)
  <2>1. signal[k] # None /\ signal[k] \in 1 .. 4
    BY <1>0, <1>1, <1>5 DEF SV!Disconnected, Stopping, ServiceShape
  <2>2. \A i \in 1 .. 4 : i <= signal[k] => Passed(SV!Order[i])
    BY <1>0, <2>1 DEF Stopping
  <2>3. PICK n \in 0 .. 4 : n = signal[k]
    BY <2>1
  <2>4. SV!DisconnectsFrom(k, n)
    BY <1>5, <2>3 DEF SV!Disconnected
  <2>5. \A i \in 1 .. 4 : i <= n => Passed(SV!Order[i])
    BY <2>2, <2>3
  <2> QED BY <1>3, <2>4, <2>5
<1> QED BY <1>2, <1>4, <1>5

LEMMA ServiceKeeps ==
  ServiceInv /\ [SV!ServiceNext]_serviceVars => ServiceInv'
<1> SUFFICES ASSUME ServiceInv, [SV!ServiceNext]_serviceVars PROVE ServiceInv'
  OBVIOUS
<1>1. CASE UNCHANGED serviceVars
  BY <1>1 DEF serviceVars, ServiceInv, ServiceShape, Booted, Installed, Stopping,
              Passed, SV!HasDisconnect, SV!Wired, SV!Alive
<1>2. CASE SV!ServiceNext
  BY <1>2, BootKeeps, MessagesKeep, ArrivalKeeps, ReplacementKeeps, SettlingKeeps,
     SignalsKeep DEF SV!ServiceNext
<1> QED BY <1>1, <1>2

LEMMA ServiceInvariant == Spec => []ServiceInv
<1>1. Init => ServiceInv
  BY InitService DEF Init
<1>2. ServiceInv /\ [Next]_vars => ServiceInv'
  BY ServiceKeeps, StepsOfParts
<1> QED BY <1>1, <1>2, PTL DEF Spec

(* general_db.js, change_..._instance: once the service is wired and no    *)
(* command works on a slot, however commands overlapped, the instance in   *)
(* the slot is initialized, unless its own initialize failed.              *)
THEOREM InstancesAreInitialized == Spec => []InstalledIsInitialized
<1>1. ServiceInv => InstalledIsInitialized
  <2> SUFFICES ASSUME ServiceInv, SV!Wired, NEW s \in SV!Slots
               PROVE  \/ SV!AtWork(s)
                      \/ inst[s] \in ready[s]
                      \/ inst[s] # SV!Default /\ command[inst[s]].answer = "throws"
    BY DEF InstalledIsInitialized, SV!InstalledIsInitialized
  <2>1. inst[s] \in Commands \/ inst[s] = SV!Default
    BY DEF ServiceInv, ServiceShape, Instances
  <2>2. CASE inst[s] = SV!Default
    BY <2>2 DEF ServiceInv, Booted
  <2>3. CASE inst[s] \in Commands
    <3>1. inst[s] # SV!Default
      BY <2>3, ServicesAssumption DEF SV!ServiceAssumption, SV!Default
    <3> QED BY <2>3, <3>1 DEF ServiceInv, Installed, SV!AtWork
  <2> QED BY <2>1, <2>2, <2>3
<1> QED BY <1>1, ServiceInvariant, PTL

(* user_service_class.js, setup_stopping: a process that ended as it       *)
(* should has called the disconnect of what is in every slot and has one,  *)
(* but for slots a command changed since the signal, however many signals  *)
(* came and whichever stores have a disconnect.                            *)
THEOREM StopIsComplete == Spec => []StopDisconnectsAll
<1>1. ServiceInv => StopDisconnectsAll
  <2> SUFFICES ASSUME ServiceInv, up = "stopped", NEW s \in SV!Slots \ late,
                      SV!HasDisconnect(s)
               PROVE  inst[s] \in gone[s]
    BY DEF StopDisconnectsAll, SV!StopDisconnectsAll
  <2>1. PICK k \in Signals : signal[k] = 5
    BY DEF ServiceInv, Stopping
  <2>2. PICK i \in 1 .. 4 : SV!Order[i] = s
    BY OrderIs
  <2>3. signal[k] # None /\ i <= signal[k]
    BY <2>1, ServicesAssumption DEF SV!ServiceAssumption
  <2> QED BY <2>2, <2>3 DEF ServiceInv, Stopping, Passed
<1> QED BY <1>1, ServiceInvariant, PTL

-----------------------------------------------------------------------------
(* The accounts. *)

UserRecords == [password : Passwords \cup {None}, updates : Reqs \cup {None}]

(* What tracks forgotten passwords: the counts, the pages, the numbers. *)
TrackShape ==
    /\ recent \in [Users -> 0 .. MaxCount]
    /\ page \in [Users -> AC!Numbers \cup {None}]
    /\ put \in [Reqs -> AC!Numbers \cup {None}]
    /\ numbers \in [Users -> SUBSET AC!Numbers]
    /\ planned \in [Users -> SUBSET AC!Numbers]
    /\ shown \in [Users -> SUBSET AC!Numbers]
    /\ spoilt \in [Users -> SUBSET AC!Numbers]

tracks == <<recent, page, put, numbers, planned, shown, spoilt>>

AccountShape ==
    /\ users \in [Users -> AC!Records \cup {None}]
    /\ record \in [AC!Records -> UserRecords \cup {None}]
    /\ updates \in [Reqs -> Passwords \cup {None}]
    /\ act \in [Reqs -> AC!Activation]

(* An activation that goes on has the record it fetched; one that waits    *)
(* for the check has the object with the wanted password.                  *)
ActGood(a) ==
    /\ a.pc # "idle" => a.user \in Users /\ a.pass \in Passwords
    /\ a.pc \in {"hash", "check"} /\ a.op # "register" =>
          a.record \in AC!Records /\ record[a.record] # None
    /\ a.pc = "check" => a.op = "reset" /\ a.updates \in Reqs
    /\ a.op = "reset" => a.number \in AC!Numbers

(* Users lead to records. *)
Linked == \A u \in Users : users[u] # None => record[users[u]] # None

(* A page on its way has a number like that of one that stands. *)
Underway ==
    \A r \in Reqs : put[r] # None =>
        /\ act[r].pc # "idle"
        /\ put[r] \in numbers[act[r].user] \cup spoilt[act[r].user]

AccountInv ==
    /\ AccountShape /\ TrackShape
    /\ Linked /\ (\A r \in Reqs : ActGood(act[r]))
    /\ Underway /\ PageNumberIsLive

LEMMA InitAccounts == AC!AccountInit => AccountInv
<1> SUFFICES ASSUME AC!AccountInit PROVE AccountInv
  OBVIOUS
<1>1. AC!Idle \in AC!Activation /\ AC!Idle.pc = "idle" /\ AC!Idle.op = "none"
  BY DEF AC!Idle, AC!Activation
<1>2. \A u \in Users : users[u] \in {u, None}
  BY DEF AC!AccountInit
<1>3. PICK p \in Passwords :
        record = [i \in AC!Records |-> IF i \in Users /\ users[i] = i
                                      THEN [password |-> p, updates |-> None] ELSE None]
  BY DEF AC!AccountInit
<1> DEFINE new == [password |-> p, updates |-> None]
<1>4. new \in UserRecords /\ new # None
  <2>1. new \in UserRecords
    BY DEF UserRecords
  <2> QED BY <2>1, ServicesAssumption DEF UserRecords, AC!AccountAssumption
<1> HIDE DEF new
<1>5. /\ record \in [AC!Records -> UserRecords \cup {None}]
      /\ \A u \in Users : users[u] = u => record[u] # None
  BY <1>3, <1>4 DEF AC!Records, new
<1>6. users \in [Users -> AC!Records \cup {None}]
  BY <1>2 DEF AC!AccountInit, AC!Records
<1>7. AccountShape /\ TrackShape
  BY <1>1, <1>5, <1>6, ServicesAssumption
     DEF AC!AccountInit, AccountShape, TrackShape, AC!AccountAssumption
<1>8. Linked
  BY <1>2, <1>5 DEF Linked
<1>9. (\A r \in Reqs : ActGood(act[r])) /\ Underway /\ PageNumberIsLive
  BY <1>1 DEF AC!AccountInit, ActGood, Underway, PageNumberIsLive, AC!PageNumberIsLive
<1> QED BY <1>7, <1>8, <1>9 DEF AccountInv

(* A step of request r, given what it leaves in the stores. *)
LEMMA RequestMoves ==
  ASSUME AccountInv, NEW r \in Reqs, NEW a \in AC!Activation,
         act' = [act EXCEPT ![r] = a], ActGood(a)',
         users' \in [Users -> AC!Records \cup {None}],
         record' \in [AC!Records -> UserRecords \cup {None}],
         updates' \in [Reqs -> Passwords \cup {None}],
         TrackShape', Linked', Underway', PageNumberIsLive',
         \A i \in AC!Records : record[i] # None => record'[i] # None
  PROVE  AccountInv'
<1>1. AccountShape'
  BY DEF AccountInv, AccountShape
<1>2. ASSUME NEW q \in Reqs PROVE ActGood(act[q])'
  <2>1. CASE q = r
    BY <2>1 DEF AccountInv, AccountShape
  <2>2. CASE q # r
    <3>1. act'[q] = act[q] /\ ActGood(act[q])
      BY <2>2 DEF AccountInv, AccountShape
    <3> QED BY <3>1 DEF ActGood
  <2> QED BY <2>1, <2>2
<1> QED BY <1>1, <1>2 DEF AccountInv

(* A step of r that leaves the tracks alone. *)
LEMMA TracksStay ==
  ASSUME AccountInv, NEW r \in Reqs, NEW a \in AC!Activation,
         act' = [act EXCEPT ![r] = a], a.pc # "idle",
         act[r].pc # "idle" => a.user = act[r].user,
         UNCHANGED tracks
  PROVE  TrackShape' /\ Underway' /\ PageNumberIsLive'
<1>1. TrackShape' /\ PageNumberIsLive'
  BY DEF AccountInv, tracks, TrackShape, PageNumberIsLive, AC!PageNumberIsLive
<1>2. act'[r] = a /\ \A q \in Reqs : q # r => act'[q] = act[q]
  BY DEF AccountInv, AccountShape
<1>3. Underway'
  BY <1>2 DEF AccountInv, Underway, tracks
<1> QED BY <1>1, <1>3

(* A step that leaves the stores alone. *)
LEMMA QuietMoves ==
  ASSUME AccountInv, NEW r \in Reqs, NEW a \in AC!Activation,
         act' = [act EXCEPT ![r] = a], ActGood(a), a.pc # "idle",
         act[r].pc # "idle" => a.user = act[r].user,
         UNCHANGED <<users, record, updates, tracks>>
  PROVE  AccountInv'
<1>1. ActGood(a)' /\ Linked'
  BY DEF AccountInv, ActGood, Linked
<1>2. TrackShape' /\ Underway' /\ PageNumberIsLive'
  BY TracksStay
<1> QED BY <1>1, <1>2, RequestMoves DEF AccountInv, AccountShape

(* The answers: nothing is asked of an activation that is done. *)
LEMMA DoneIsGood ==
  ASSUME AccountInv, NEW r \in Reqs, act[r].pc # "idle", NEW ans \in {"yes", "no"},
         NEW a, a = [act[r] EXCEPT !.pc = "done", !.answer = ans]
  PROVE  /\ a \in AC!Activation /\ ActGood(a) /\ ActGood(a)'
         /\ a.pc = "done" /\ a.user = act[r].user
<1>1. act[r] \in AC!Activation /\ ActGood(act[r])
  BY DEF AccountInv, AccountShape
<1>2. /\ a \in AC!Activation /\ a.pc = "done"
      /\ a.user = act[r].user /\ a.pass = act[r].pass
      /\ a.op = act[r].op /\ a.number = act[r].number
  BY <1>1 DEF AC!Activation
<1>3. a.user \in Users /\ a.pass \in Passwords
  BY <1>1, <1>2 DEF ActGood
<1> QED BY <1>1, <1>2, <1>3 DEF ActGood

LEMMA AskingKeeps ==
  ASSUME AccountInv, NEW r \in Reqs, NEW u \in Users, NEW p \in Passwords,
         \/ \E op \in {"register", "forgot"} : AC!UserAsks(r, op, u, p)
         \/ \E n \in AC!Numbers : AC!FormPosted(r, u, n, p)
  PROVE  AccountInv'
<1>1. AC!Idle \in AC!Activation
  BY DEF AC!Idle, AC!Activation
<1>2. PICK a \in AC!Activation :
        /\ act' = [act EXCEPT ![r] = a] /\ a.pc \in {"fetch", "done"}
        /\ a.user = u /\ a.pass = p
        /\ a.op = "reset" => a.number \in AC!Numbers
  <2>1. CASE \E op \in {"register", "forgot"} : AC!UserAsks(r, op, u, p)
    <3>1. PICK op \in {"register", "forgot"} : AC!UserAsks(r, op, u, p)
      BY <2>1
    <3> DEFINE a == [[AC!Idle EXCEPT !.op = op, !.user = u, !.pass = p] EXCEPT !.pc = "fetch"]
    <3>2. /\ a \in AC!Activation /\ a.pc = "fetch" /\ a.user = u /\ a.pass = p
          /\ a.op # "reset"
      BY <1>1 DEF AC!Activation
    <3>3. act' = [act EXCEPT ![r] = a]
      BY <3>1 DEF AC!UserAsks, AC!Goes
    <3> HIDE DEF a
    <3> QED BY <3>2, <3>3
  <2>2. CASE \E n \in AC!Numbers : AC!FormPosted(r, u, n, p)
    <3>1. PICK n \in AC!Numbers : AC!FormPosted(r, u, n, p)
      BY <2>2
    <3> DEFINE b == [AC!Idle EXCEPT !.op = "reset", !.user = u, !.pass = p, !.number = n]
               f == [b EXCEPT !.pc = "fetch"]
               d == [b EXCEPT !.pc = "done", !.answer = "no"]
    <3>2. /\ f \in AC!Activation /\ f.pc = "fetch" /\ f.user = u /\ f.pass = p
          /\ d \in AC!Activation /\ d.pc = "done" /\ d.user = u /\ d.pass = p
          /\ f.number = n /\ d.number = n
      BY <1>1 DEF AC!Activation
    <3>3. act' = [act EXCEPT ![r] = f] \/ act' = [act EXCEPT ![r] = d]
      BY <3>1 DEF AC!FormPosted, AC!Goes
    <3> HIDE DEF f, d
    <3> QED BY <3>2, <3>3
  <2> QED BY <2>1, <2>2
<1>3. ActGood(a)
  BY <1>2 DEF ActGood
<1>4. UNCHANGED <<users, record, updates, tracks>>
  BY DEF AC!UserAsks, AC!FormPosted, AC!stored, AC!tracking, AC!pages, tracks
<1>5. act[r].pc = "idle"
  BY DEF AC!UserAsks, AC!FormPosted
<1> QED BY <1>2, <1>3, <1>4, <1>5, QuietMoves

(* An answer that leaves the stores alone. *)
LEMMA RefusalKeeps ==
  ASSUME AccountInv, NEW r \in Reqs, act[r].pc # "idle", AC!Answers(r, "no"),
         UNCHANGED <<users, record, updates, tracks>>
  PROVE  AccountInv'
<1>1. PICK a : a = [act[r] EXCEPT !.pc = "done", !.answer = "no"]
  OBVIOUS
<1>2. /\ a \in AC!Activation /\ ActGood(a)
      /\ a.pc = "done" /\ a.user = act[r].user
  BY <1>1, DoneIsGood
<1>3. act' = [act EXCEPT ![r] = a]
  BY <1>1 DEF AC!Answers
<1> QED BY <1>2, <1>3, QuietMoves

(* What fetch_user answered; for `forgot` with a mail. *)
LEMMA FetchedKeeps ==
  ASSUME AccountInv, NEW r \in Reqs, AC!AccountFetched(r)
  PROVE  AccountInv'
<1>0. /\ AccountShape /\ TrackShape /\ Underway /\ Linked /\ ActGood(act[r]) /\ PageNumberIsLive
      /\ act[r].pc = "fetch" /\ UNCHANGED <<users, record, updates>>
      /\ act[r] \in AC!Activation /\ act[r].user \in Users
  BY DEF AccountInv, AccountShape, AC!AccountFetched, AC!stored, ActGood
<1>1. PICK b : b = [act[r] EXCEPT !.record = users[act[r].user]]
  OBVIOUS
<1>2. /\ b \in AC!Activation /\ b.pc = "fetch" /\ b.record = users[act[r].user]
      /\ b.user = act[r].user /\ b.pass = act[r].pass /\ b.op = act[r].op
      /\ b.number = act[r].number
  BY <1>0, <1>1 DEF AC!Activation, AccountShape
<1>3. CASE ~AC!GoesOn(b) /\ AC!Answers(r, "no") /\ UNCHANGED tracks
  BY <1>0, <1>3, RefusalKeeps
<1>4. CASE AC!GoesOn(b) /\ AC!Goes(r, b, "hash")
  <2>1. PICK a : a = [b EXCEPT !.pc = "hash"]
    OBVIOUS
  <2>2. /\ a \in AC!Activation /\ a.pc = "hash" /\ a.record = b.record
        /\ a.user = b.user /\ a.pass = b.pass /\ a.op = b.op
        /\ a.number = b.number
    BY <1>2, <2>1 DEF AC!Activation
  <2>3. act' = [act EXCEPT ![r] = a]
    BY <1>4, <2>1 DEF AC!Goes
  <2>4. a.op # "register" => a.record \in AC!Records /\ record[a.record] # None
    <3>1. a.op # "register" => a.record # None
      BY <1>4, <2>2 DEF AC!GoesOn
    <3> QED BY <1>0, <1>2, <2>2, <3>1 DEF Linked, AccountShape
  <2>5. ActGood(a)
    BY <1>0, <1>2, <2>2, <2>4 DEF ActGood
  <2>6. CASE UNCHANGED tracks
    BY <1>2, <1>0, <2>2, <2>3, <2>5, <2>6, QuietMoves
  <2>7. CASE recent[b.user] < MaxCount /\ AC!Mails(r, b.user, recent[b.user] + 1)
    <3> DEFINE n == recent[b.user] + 1
               u == b.user
    <3>1. u \in Users /\ n \in 1 .. MaxCount /\ n \in 0 .. MaxCount /\ n # None
      BY <1>0, <1>2, <2>7, ServicesAssumption DEF TrackShape, AC!AccountAssumption
    <3>2. /\ recent' = [recent EXCEPT ![u] = n]
          /\ put' = [put EXCEPT ![r] = n]
          /\ planned' = [planned EXCEPT ![u] = @ \cup {n}]
          /\ numbers' = [numbers EXCEPT ![u] = @ \cup {n}]
          /\ spoilt' = [spoilt EXCEPT ![u] = @ \ {n}]
          /\ UNCHANGED <<page, shown>>
      BY <2>7 DEF AC!Mails
    <3>3. u = act[r].user
      BY <1>2
    <3> HIDE DEF n, u
    <3>4. TrackShape'
      BY <1>0, <3>1, <3>2 DEF TrackShape, AC!Numbers
    <3>5. \A o \in Users : numbers[o] \cup spoilt[o] \subseteq numbers'[o] \cup spoilt'[o]
      BY <1>0, <3>2 DEF TrackShape
    <3>6. n \in numbers'[u]
      BY <1>0, <3>1, <3>2 DEF TrackShape
    <3>7. PageNumberIsLive'
      BY <1>0, <3>2, <3>5 DEF PageNumberIsLive, AC!PageNumberIsLive
    <3>8. Underway'
      <4> SUFFICES ASSUME NEW o \in Reqs, put'[o] # None
                   PROVE  /\ act'[o].pc # "idle"
                          /\ put'[o] \in numbers'[act'[o].user] \cup spoilt'[act'[o].user]
        BY DEF Underway
      <4>1. CASE o = r
        <5>1. act'[r] = a /\ put'[r] = n
          BY <1>0, <2>3, <3>2 DEF AccountShape, TrackShape
        <5> QED BY <1>2, <2>2, <3>3, <3>6, <4>1, <5>1
      <4>2. CASE o # r
        <5>1. act'[o] = act[o] /\ put'[o] = put[o]
          BY <1>0, <2>3, <3>2, <4>2 DEF AccountShape, TrackShape
        <5>2. act[o].pc # "idle" /\ put[o] \in numbers[act[o].user] \cup spoilt[act[o].user]
          BY <1>0, <5>1 DEF Underway
        <5>3. act[o].user \in Users
          BY <5>2 DEF AccountInv, ActGood
        <5> QED BY <3>5, <5>1, <5>2, <5>3
      <4> QED BY <4>1, <4>2
    <3>9. ActGood(a)' /\ Linked'
      BY <1>0, <2>5 DEF ActGood, Linked
    <3> QED BY <1>0, <2>2, <2>3, <3>4, <3>7, <3>8, <3>9, RequestMoves DEF AccountShape
  <2> QED BY <1>2, <1>4, <2>6, <2>7, <1>1 DEF AC!AccountFetched, AC!tracking, AC!pages, tracks
<1> QED BY <1>1, <1>3, <1>4 DEF AC!AccountFetched, AC!tracking, AC!pages, tracks

(* A registration stores its record; a forgotten password is stored to     *)
(* wait in the record that was fetched.                                    *)
LEMMA StoringKeeps ==
  ASSUME AccountInv, NEW r \in Reqs, AC!Registers(r) \/ AC!KeepsWanted(r)
  PROVE  AccountInv'
<1>0. /\ AccountShape /\ Linked /\ ActGood(act[r]) /\ PageNumberIsLive
      /\ act[r].pc = "hash" /\ AC!Answers(r, "yes")
      /\ UNCHANGED tracks
      /\ act[r] \in AC!Activation /\ act[r].user \in Users /\ act[r].pass \in Passwords
  BY DEF AccountInv, AccountShape, AC!Registers, AC!KeepsWanted, AC!tracking, AC!pages,
         tracks, ActGood
<1>1. PICK a : a = [act[r] EXCEPT !.pc = "done", !.answer = "yes"]
  OBVIOUS
<1>2. /\ a \in AC!Activation /\ ActGood(a)' /\ act' = [act EXCEPT ![r] = a]
      /\ a.pc # "idle" /\ a.user = act[r].user
  BY <1>0, <1>1, DoneIsGood DEF AC!Answers
<1>3. TrackShape' /\ Underway' /\ PageNumberIsLive'
  BY <1>0, <1>2, TracksStay
<1>4. CASE AC!Registers(r)
  <2> DEFINE new == [password |-> act[r].pass, updates |-> None]
  <2>1. /\ record' = [record EXCEPT ![r] = new]
        /\ users' = [users EXCEPT ![act[r].user] = r] /\ updates' = updates
    BY <1>4 DEF AC!Registers
  <2>2. new \in UserRecords /\ new # None
    <3>1. new \in UserRecords
      BY <1>0 DEF UserRecords
    <3> QED BY <3>1, ServicesAssumption DEF UserRecords, AC!AccountAssumption
  <2> HIDE DEF new
  <2>3. /\ users' \in [Users -> AC!Records \cup {None}]
        /\ record' \in [AC!Records -> UserRecords \cup {None}]
        /\ \A i \in AC!Records : record[i] # None => record'[i] # None
        /\ record'[r] # None
    BY <1>0, <2>1, <2>2 DEF AccountShape, AC!Records
  <2>4. Linked'
    BY <1>0, <2>1, <2>3 DEF AccountShape, Linked
  <2> QED BY <1>0, <1>2, <1>3, <2>1, <2>3, <2>4, RequestMoves DEF AccountShape
<1>5. CASE AC!KeepsWanted(r)
  <2> DEFINE rec == act[r].record
             u == act[r].user
             p == act[r].pass
  <2>1. rec \in AC!Records /\ record[rec] # None /\ record[rec] \in UserRecords
    BY <1>0, <1>5 DEF ActGood, AC!KeepsWanted, AccountShape
  <2>2. /\ updates' = [updates EXCEPT ![r] = p]
        /\ record' = [record EXCEPT ![rec].updates = r]
        /\ users' = [users EXCEPT ![u] = rec]
        /\ u \in Users /\ p \in Passwords
    BY <1>0, <1>5 DEF AC!KeepsWanted
  <2> HIDE DEF rec, u, p
  <2> DEFINE new == [record[rec] EXCEPT !.updates = r]
  <2>3. new \in UserRecords /\ record' = [record EXCEPT ![rec] = new]
    BY <2>1, <2>2 DEF UserRecords
  <2>4. new # None
    BY <2>3, ServicesAssumption DEF UserRecords, AC!AccountAssumption
  <2> HIDE DEF new
  <2>5. /\ users' \in [Users -> AC!Records \cup {None}]
        /\ record' \in [AC!Records -> UserRecords \cup {None}]
        /\ updates' \in [Reqs -> Passwords \cup {None}]
        /\ \A i \in AC!Records : record[i] # None => record'[i] # None
        /\ record'[rec] # None
    BY <1>0, <2>1, <2>2, <2>3, <2>4 DEF AccountShape
  <2>6. Linked'
    BY <1>0, <2>1, <2>2, <2>5 DEF AccountShape, Linked
  <2> QED BY <1>0, <1>2, <1>3, <2>5, <2>6, RequestMoves DEF AccountShape
<1> QED BY <1>4, <1>5

(* update_user_password comes to its check. *)
LEMMA CheckingKeeps ==
  ASSUME AccountInv, NEW r \in Reqs, AC!CallsCheck(r) \/ AC!CheckRefuses(r)
  PROVE  AccountInv'
<1>0. /\ AccountShape /\ ActGood(act[r]) /\ act[r].pc \in {"hash", "check"}
      /\ UNCHANGED <<users, record, updates, tracks>>
      /\ act[r] \in AC!Activation
  BY DEF AccountInv, AccountShape, AC!CallsCheck, AC!CheckRefuses, AC!stored, AC!tracking,
         AC!pages, tracks
<1>1. CASE AC!Answers(r, "no")
  BY <1>0, <1>1, RefusalKeeps
<1>2. CASE /\ AC!CallsCheck(r) /\ record[act[r].record].updates # None
           /\ AC!Goes(r, [act[r] EXCEPT !.updates = record[act[r].record].updates], "check")
  <2>1. PICK a : a = [[act[r] EXCEPT !.updates = record[act[r].record].updates]
                         EXCEPT !.pc = "check"]
    OBVIOUS
  <2>2. /\ act[r].op = "reset" /\ act[r].pc = "hash"
        /\ act[r].record \in AC!Records /\ record[act[r].record] # None
        /\ act[r].user \in Users /\ act[r].pass \in Passwords
        /\ act[r].number \in AC!Numbers
    BY <1>0, <1>2 DEF AC!CallsCheck, ActGood
  <2>3. record[act[r].record].updates \in Reqs
    BY <1>0, <1>2, <2>2 DEF AccountShape, UserRecords
  <2>4. /\ a \in AC!Activation /\ a.pc = "check" /\ a.op = "reset"
        /\ a.user = act[r].user /\ a.pass = act[r].pass /\ a.record = act[r].record
        /\ a.updates \in Reqs /\ a.number = act[r].number
    BY <1>0, <2>1, <2>2, <2>3 DEF AC!Activation
  <2>5. ActGood(a)
    BY <2>2, <2>4 DEF ActGood
  <2>6. act' = [act EXCEPT ![r] = a]
    BY <1>2, <2>1 DEF AC!Goes
  <2> QED BY <1>0, <2>4, <2>5, <2>6, QuietMoves
<1> QED BY <1>1, <1>2 DEF AC!CallsCheck, AC!CheckRefuses

(* The password is taken over; cleanup forgets the page and its number. *)
LEMMA TakingKeeps ==
  ASSUME AccountInv, NEW r \in Reqs, AC!TakesPassword(r)
  PROVE  AccountInv'
<1> DEFINE rec == act[r].record
           u == act[r].user
           p == updates[act[r].updates]
           x == record[rec].updates
<1>0. /\ AccountShape /\ TrackShape /\ Underway /\ Linked /\ PageNumberIsLive /\ act[r].pc = "check"
      /\ rec \in AC!Records /\ record[rec] # None /\ record[rec] \in UserRecords
      /\ u \in Users /\ p \in Passwords \cup {None} /\ act[r].number \in AC!Numbers
  BY DEF AccountInv, AccountShape, AC!TakesPassword, ActGood
<1>1. CASE /\ record' = [record EXCEPT ![rec].password = p]
           /\ AC!Answers(r, "no")
           /\ UNCHANGED <<users, updates, tracks>>
  <2>1. PICK a : a = [act[r] EXCEPT !.pc = "done", !.answer = "no"]
    OBVIOUS
  <2>2. /\ a \in AC!Activation /\ ActGood(a)' /\ act' = [act EXCEPT ![r] = a]
        /\ a.pc # "idle" /\ a.user = act[r].user
    BY <1>0, <1>1, <2>1, DoneIsGood DEF AC!Answers
  <2> HIDE DEF rec, u, p
  <2> DEFINE new == [record[rec] EXCEPT !.password = p]
  <2>3. new \in UserRecords /\ record' = [record EXCEPT ![rec] = new]
    BY <1>0, <1>1 DEF UserRecords
  <2>4. new # None
    BY <2>3, ServicesAssumption DEF UserRecords, AC!AccountAssumption
  <2> HIDE DEF new
  <2>5. /\ record' \in [AC!Records -> UserRecords \cup {None}]
        /\ \A i \in AC!Records : record[i] # None => record'[i] # None
    BY <1>0, <2>3, <2>4 DEF AccountShape
  <2>6. Linked'
    BY <1>0, <1>1, <2>5 DEF AccountShape, Linked
  <2>7. TrackShape' /\ Underway' /\ PageNumberIsLive'
    BY <1>1, <2>2, TracksStay
  <2> QED BY <1>0, <1>1, <2>2, <2>5, <2>6, <2>7, RequestMoves DEF AccountShape
<1>2. CASE /\ x # None
           /\ record' = [[record EXCEPT ![rec].password = p] EXCEPT ![rec].updates = None]
           /\ updates' = [updates EXCEPT ![x] = None]
           /\ users' = [users EXCEPT ![u] = rec]
           /\ AC!Cleanup(u, act[r].number)
           /\ AC!Answers(r, "yes")
  <2>1. PICK a : a = [act[r] EXCEPT !.pc = "done", !.answer = "yes"]
    OBVIOUS
  <2>2. /\ a \in AC!Activation /\ ActGood(a)' /\ act' = [act EXCEPT ![r] = a]
        /\ a.pc # "idle" /\ a.user = act[r].user
    BY <1>0, <1>2, <2>1, DoneIsGood DEF AC!Answers
  <2>3. PICK n \in AC!Numbers : n = act[r].number
    BY <1>0
  <2>4. /\ recent' = [recent EXCEPT ![u] = 0]
        /\ page' = [page EXCEPT ![u] = None]
        /\ numbers' = [numbers EXCEPT ![u] = @ \ {n}]
        /\ planned' = [planned EXCEPT ![u] = @ \cup {n}]
        /\ spoilt' = IF AC!OnItsWay(u, n)
                     THEN [spoilt EXCEPT ![u] = @ \cup {n}] ELSE spoilt
        /\ UNCHANGED <<put, shown>>
    BY <1>2, <2>3 DEF AC!Cleanup
  <2>5. x \in Reqs
    BY <1>0, <1>2 DEF UserRecords
  <2> HIDE DEF rec, u, p, x
  <2> DEFINE new == [record[rec] EXCEPT !.password = p, !.updates = None]
  <2>6. new \in UserRecords /\ record' = [record EXCEPT ![rec] = new]
    BY <1>0, <1>2 DEF UserRecords, AccountShape
  <2>7. new # None
    BY <2>6, ServicesAssumption DEF UserRecords, AC!AccountAssumption
  <2> HIDE DEF new
  <2>8. /\ users' \in [Users -> AC!Records \cup {None}]
        /\ record' \in [AC!Records -> UserRecords \cup {None}]
        /\ updates' \in [Reqs -> Passwords \cup {None}]
        /\ \A i \in AC!Records : record[i] # None => record'[i] # None
        /\ record'[rec] # None
    BY <1>0, <1>2, <2>5, <2>6, <2>7 DEF AccountShape
  <2>9. TrackShape'
    BY <1>0, <2>4, ServicesAssumption DEF TrackShape, AC!AccountAssumption
  <2>10. Linked'
    BY <1>0, <1>2, <2>4, <2>8 DEF AccountShape, Linked
  <2>11. /\ page'[u] = None
         /\ \A o \in Users : o # u => page'[o] = page[o] /\ numbers'[o] = numbers[o]
                                                    /\ spoilt'[o] = spoilt[o]
         /\ numbers'[u] = numbers[u] \ {n} /\ spoilt[u] \subseteq spoilt'[u]
         /\ AC!OnItsWay(u, n) => n \in spoilt'[u]
    BY <1>0, <2>4 DEF TrackShape
  <2>12. PageNumberIsLive'
    BY <1>0, <2>11 DEF PageNumberIsLive, AC!PageNumberIsLive
  <2>13. Underway'
    <3> SUFFICES ASSUME NEW o \in Reqs, put[o] # None
                 PROVE  /\ act'[o].pc # "idle"
                        /\ put[o] \in numbers'[act'[o].user] \cup spoilt'[act'[o].user]
      BY <2>4 DEF Underway
    <3>1. /\ act[o].pc # "idle" /\ act[o].user \in Users
          /\ put[o] \in numbers[act[o].user] \cup spoilt[act[o].user]
      BY DEF AccountInv, ActGood, Underway
    <3>2. act'[o].pc # "idle" /\ act'[o].user = act[o].user
      BY <1>0, <2>2, <3>1 DEF AccountShape
    <3>3. act[o].user = u /\ put[o] = n => n \in spoilt'[u]
      BY <2>11 DEF AC!OnItsWay
    <3> QED BY <2>11, <3>1, <3>2, <3>3
  <2> QED BY <2>2, <2>8, <2>9, <2>10, <2>12, <2>13, RequestMoves
<1> QED BY <1>1, <1>2 DEF AC!TakesPassword, AC!tracking, AC!pages, tracks

(* A page comes to the static store, or does not. *)
LEMMA PutKeeps ==
  ASSUME AccountInv, NEW r \in Reqs, AC!PagePut(r)
  PROVE  AccountInv'
<1> DEFINE u == act[r].user
           n == put[r]
<1>1. /\ n # None /\ put' = [put EXCEPT ![r] = None]
      /\ UNCHANGED <<users, record, updates, act, recent, numbers, planned, spoilt>>
      /\ \/ UNCHANGED <<page, shown>>
         \/ /\ page' = [page EXCEPT ![u] = n]
            /\ shown' = [shown EXCEPT ![u] = @ \cup {n}]
  BY DEF AC!PagePut, AC!stored
<1>2. u \in Users /\ n \in AC!Numbers /\ n \in numbers[u] \cup spoilt[u]
  BY <1>1 DEF AccountInv, Underway, ActGood, TrackShape
<1> HIDE DEF u, n
<1>3. AccountShape' /\ Linked' /\ \A q \in Reqs : ActGood(act[q])'
  BY <1>1 DEF AccountInv, AccountShape, Linked, ActGood
<1>4. TrackShape'
  BY <1>1, <1>2 DEF AccountInv, TrackShape
<1>5. \A q \in Reqs : put'[q] # None => put'[q] = put[q]
  BY <1>1 DEF AccountInv, TrackShape
<1>6. Underway'
  BY <1>1, <1>5 DEF AccountInv, Underway
<1>7. \A o \in Users : page'[o] = page[o] \/ (o = u /\ page'[o] = n)
  BY <1>1, <1>2 DEF AccountInv, TrackShape
<1>8. PageNumberIsLive'
  BY <1>1, <1>2, <1>7 DEF AccountInv, PageNumberIsLive, AC!PageNumberIsLive
<1> QED BY <1>3, <1>4, <1>6, <1>8 DEF AccountInv

(* A planned removal takes a number, or finds nothing to take. *)
LEMMA RemovalKeeps ==
  ASSUME AccountInv, NEW u \in Users, NEW n \in AC!Numbers, AC!NumberRemoved(u, n)
  PROVE  AccountInv'
<1>1. /\ planned' = [planned EXCEPT ![u] = @ \ {n}]
      /\ UNCHANGED <<users, record, updates, act, recent, page, put, shown>>
      /\ \/ UNCHANGED <<numbers, spoilt>>
         \/ /\ numbers' = [numbers EXCEPT ![u] = @ \ {n}]
            /\ spoilt' = [spoilt EXCEPT ![u] = @ \cup {n}]
  BY DEF AC!NumberRemoved, AC!stored, AC!pages
<1>2. AccountShape' /\ Linked' /\ \A q \in Reqs : ActGood(act[q])'
  BY <1>1 DEF AccountInv, AccountShape, Linked, ActGood
<1>3. TrackShape'
  BY <1>1 DEF AccountInv, TrackShape
<1>4. \A o \in Users : numbers[o] \cup spoilt[o] \subseteq numbers'[o] \cup spoilt'[o]
  BY <1>1 DEF AccountInv, TrackShape
<1>5. PageNumberIsLive'
  BY <1>1, <1>4 DEF AccountInv, PageNumberIsLive, AC!PageNumberIsLive
<1>6. \A q \in Reqs : put[q] # None => act[q].user \in Users
  BY DEF AccountInv, Underway, ActGood
<1>7. Underway'
  BY <1>1, <1>4, <1>6 DEF AccountInv, Underway
<1> QED BY <1>2, <1>3, <1>5, <1>7 DEF AccountInv

LEMMA AccountsKeep ==
  AccountInv /\ [AC!AccountNext]_accountVars => AccountInv'
<1> SUFFICES ASSUME AccountInv, [AC!AccountNext]_accountVars PROVE AccountInv'
  OBVIOUS
<1>1. CASE UNCHANGED <<users, record, updates, tracks, act>>
  BY <1>1 DEF AccountInv, AccountShape, TrackShape, tracks, Linked, ActGood, Underway,
              PageNumberIsLive, AC!PageNumberIsLive
<1>2. CASE AC!MailArrives \/ UNCHANGED accountVars
  BY <1>1, <1>2 DEF AC!MailArrives, AC!stored, AC!tracking, AC!pages, tracks, accountVars
<1>3. CASE \E r \in Reqs, u \in Users, p \in Passwords :
              \/ \E op \in {"register", "forgot"} : AC!UserAsks(r, op, u, p)
              \/ \E n \in AC!Numbers : AC!FormPosted(r, u, n, p)
  BY <1>3, AskingKeeps
<1>4. CASE \E r \in Reqs :
              \/ AC!AccountFetched(r) \/ AC!Registers(r) \/ AC!KeepsWanted(r)
              \/ AC!CallsCheck(r) \/ AC!TakesPassword(r) \/ AC!CheckRefuses(r)
  BY <1>4, FetchedKeeps, StoringKeeps, CheckingKeeps, TakingKeeps
<1>5. CASE \/ \E r \in Reqs : AC!PagePut(r)
           \/ \E u \in Users, n \in AC!Numbers : AC!NumberRemoved(u, n)
  BY <1>5, PutKeeps, RemovalKeeps
<1> QED BY <1>2, <1>3, <1>4, <1>5 DEF AC!AccountNext

LEMMA AccountInvariant == Spec => []AccountInv
<1>1. Init => AccountInv
  BY InitAccounts DEF Init
<1>2. AccountInv /\ [Next]_vars => AccountInv'
  BY AccountsKeep, StepsOfParts
<1> QED BY <1>1, <1>2, PTL DEF Spec

(* captcha_business.js: however mails, resets and the putting of pages     *)
(* interleave, the page a mail links to carries a number that still leads  *)
(* to the user; but for a number that since it was last mailed was cleaned *)
(* up while a page with it was on its way, or that the removal planned for *)
(* it before it was set has taken.                                         *)
THEOREM PagesLeadToUsers == Spec => []PageNumberIsLive
<1>1. AccountInv => PageNumberIsLive
  BY DEF AccountInv
<1> QED BY <1>1, AccountInvariant, PTL

-----------------------------------------------------------------------------
(* The assets. *)

(* An offer is what a request that is done has made; what is cached under  *)
(* a token is what its own request offered; who has not asked has fetched  *)
(* nothing.                                                                *)
AssetGood(r) ==
    /\ cache[r] # None => cache[r] = r /\ asked[r].answer = "offer"
    /\ asked[r].answer = "offer" => asked[r].pc = "done"
    /\ asked[r].pc = "idle" => asked[r].entry = None

MimeInv == MH!MimeTypeOK /\ \A r \in Req : AssetGood(r)

LEMMA InitAssets == MH!MimeInit => MimeInv
BY ServicesAssumption
   DEF MH!MimeAssumption, MH!MimeInit, MimeInv, MH!MimeTypeOK, MH!Asked, MH!NotAsked, AssetGood

(* A handler moves on without an offer: nothing changes for anybody else. *)
LEMMA AssetMoves ==
  ASSUME MimeInv, NEW r \in Req, NEW a \in MH!Asked,
         asked' = [asked EXCEPT ![r] = a],
         a.pc # "idle", a.answer # "offer", a.entry = asked[r].entry,
         asked[r].pc # "done",
         UNCHANGED <<preloaded, cache>>
  PROVE  MimeInv' /\ UNCHANGED <<[p \in Req |-> MH!AssetOffer(p)],
                                 [s \in Req |-> MH!AssetWork(s)]>>
<1>1. /\ asked'[r] = a /\ asked' \in [Req -> MH!Asked]
      /\ \A s \in Req \ {r} : asked'[s] = asked[s]
  BY DEF MimeInv, MH!MimeTypeOK
<1>2. asked[r].answer # "offer" /\ cache[r] = None
  BY DEF MimeInv, AssetGood
<1>3. MimeInv'
  <2>1. \A s \in Req : AssetGood(s)'
    BY <1>1, <1>2 DEF MimeInv, AssetGood
  <2> QED BY <1>1, <2>1 DEF MimeInv, MH!MimeTypeOK
<1>4. \A s \in Req : MH!AssetOffer(s)' = MH!AssetOffer(s)
  BY <1>1, <1>2 DEF MH!AssetOffer
<1>5. \A s \in Req : MH!AssetWork(s)' = MH!AssetWork(s)
  BY <1>1 DEF MH!AssetWork
<1> QED BY <1>3, <1>4, <1>5

(* The handlers up to the fetch, and those that send at once, offer nothing. *)
LEMMA QuietAssetHandlers ==
  ASSUME MimeInv, NEW r \in Req,
         \/ \E kind \in {"static", "guarded static", "guarded dynamic"}, a \in Assets :
               MH!AssetRequest(r, kind, a)
         \/ MH!StaticGuarded(r) \/ MH!KindOfGuarded(r)
         \/ MH!AssetProcessed(r) \/ MH!SendsAsset(r)
  PROVE  MimeInv' /\ UNCHANGED <<[p \in Req |-> MH!AssetOffer(p)],
                                 [s \in Req |-> MH!AssetWork(s)]>>
<1>0. asked[r] \in MH!Asked /\ AssetGood(r)
  BY DEF MimeInv, MH!MimeTypeOK
<1>1. CASE \E kind \in {"static", "guarded static", "guarded dynamic"}, a \in Assets :
              MH!AssetRequest(r, kind, a)
  <2>1. PICK kind \in {"static", "guarded static", "guarded dynamic"}, a \in Assets :
              MH!AssetRequest(r, kind, a)
    BY <1>1
  <2>2. PICK b : b = [[MH!NotAsked EXCEPT !.kind = kind, !.asset = a] EXCEPT !.pc = "guard"]
    OBVIOUS
  <2>3. /\ asked[r].pc = "idle" /\ asked[r].entry = None
        /\ asked' = [asked EXCEPT ![r] = b] /\ UNCHANGED <<preloaded, cache>>
    BY <1>0, <2>1, <2>2 DEF MH!AssetRequest, MH!MimeGoes, AssetGood
  <2>4. /\ b \in MH!Asked
        /\ b.pc = "guard" /\ b.answer = "none" /\ b.entry = None
    BY <2>2 DEF MH!NotAsked, MH!Asked
  <2> QED BY <2>3, <2>4, AssetMoves
<1>2. CASE /\ asked[r].pc \in {"guard", "process", "fetch"}
           /\ UNCHANGED <<preloaded, cache>>
           /\ \/ \E ans \in {"asset", "text", "unavailable", "error"} :
                    MH!MimeAnswers(r, asked[r], ans)
              \/ MH!MimeGoes(r, asked[r], "process")
              \/ \E t \in {r, None} : MH!MimeGoes(r, [asked[r] EXCEPT !.token = t], "fetch")
  <2>1. CASE \E ans \in {"asset", "text", "unavailable", "error"} :
                MH!MimeAnswers(r, asked[r], ans)
    <3>1. PICK ans \in {"asset", "text", "unavailable", "error"} :
             MH!MimeAnswers(r, asked[r], ans)
      BY <2>1
    <3>2. PICK b : b = [asked[r] EXCEPT !.pc = "done", !.answer = ans]
      OBVIOUS
    <3>3. /\ b \in MH!Asked /\ b.entry = asked[r].entry
          /\ b.pc = "done" /\ b.answer # "offer"
      BY <1>0, <3>2 DEF MH!Asked
    <3>4. asked' = [asked EXCEPT ![r] = b]
      BY <3>1, <3>2 DEF MH!MimeAnswers
    <3> QED BY <1>2, <3>3, <3>4, AssetMoves
  <2>2. CASE MH!MimeGoes(r, asked[r], "process")
    <3>1. PICK b : b = [asked[r] EXCEPT !.pc = "process"]
      OBVIOUS
    <3>2. /\ b \in MH!Asked /\ b.entry = asked[r].entry
          /\ b.pc = "process" /\ b.answer # "offer"
      BY <1>0, <1>2, <3>1 DEF MH!Asked, AssetGood
    <3>3. asked' = [asked EXCEPT ![r] = b]
      BY <2>2, <3>1 DEF MH!MimeGoes
    <3> QED BY <1>2, <3>2, <3>3, AssetMoves
  <2>3. CASE \E t \in {r, None} :
                MH!MimeGoes(r, [asked[r] EXCEPT !.token = t], "fetch")
    <3>1. PICK t \in {r, None} : MH!MimeGoes(r, [asked[r] EXCEPT !.token = t], "fetch")
      BY <2>3
    <3>2. PICK b : b = [[asked[r] EXCEPT !.token = t] EXCEPT !.pc = "fetch"]
      OBVIOUS
    <3>3. /\ b \in MH!Asked /\ b.entry = asked[r].entry
          /\ b.pc = "fetch" /\ b.answer # "offer"
      BY <1>0, <1>2, <3>2 DEF MH!Asked, AssetGood
    <3>4. asked' = [asked EXCEPT ![r] = b]
      BY <3>1, <3>2 DEF MH!MimeGoes
    <3> QED BY <1>2, <3>3, <3>4, AssetMoves
  <2> QED BY <1>2, <2>1, <2>2, <2>3
<1>3. CASE MH!StaticGuarded(r)
  BY <1>2, <1>3 DEF MH!StaticGuarded
<1>4. CASE MH!KindOfGuarded(r) \/ MH!AssetProcessed(r)
  BY <1>2, <1>4 DEF MH!KindOfGuarded, MH!AssetProcessed
<1>5. CASE MH!SendsAsset(r)
  <2>1. \A got : MH!SentAs(got) \in {"asset", "unavailable", "error"}
    BY DEF MH!SentAs
  <2> QED BY <1>2, <1>5, <2>1 DEF MH!SendsAsset
<1> QED BY <1>1, <1>3, <1>4, <1>5

(* Where the fetcher does not throw, its answer is an offer. *)
LEMMA KeptIsOffered ==
  ASSUME MimeInv, NEW r \in Req, MH!KeepsAsset(r)
  PROVE  /\ MimeInv'
         /\ MH!Contract!ContractNext \/ UNCHANGED MH!Contract!contractVars
<1> DEFINE O == [p \in Req |-> MH!AssetOffer(p)]
           W == [s \in Req |-> MH!AssetWork(s)]
<1>0. asked[r] \in MH!Asked /\ AssetGood(r) /\ asked[r].pc = "fetch"
  BY DEF MimeInv, MH!MimeTypeOK, MH!KeepsAsset
<1>1. CASE MH!MimeAnswers(r, asked[r], "unavailable") /\ UNCHANGED <<preloaded, cache>>
  <2>1. PICK b : b = [asked[r] EXCEPT !.pc = "done", !.answer = "unavailable"]
    OBVIOUS
  <2>2. /\ b \in MH!Asked /\ b.entry = asked[r].entry
        /\ b.pc = "done" /\ b.answer # "offer"
    BY <1>0, <2>1 DEF MH!Asked
  <2>3. asked' = [asked EXCEPT ![r] = b]
    BY <1>1, <2>1 DEF MH!MimeAnswers
  <2> QED BY <1>0, <1>1, <2>2, <2>3, AssetMoves DEF MH!Contract!contractVars
<1>2. CASE /\ MH!MimeAnswers(r, asked[r], "offer")
           /\ cache' = [cache EXCEPT ![r] = r] /\ preloaded' = preloaded
  <2>1. PICK b : b = [asked[r] EXCEPT !.pc = "done", !.answer = "offer"]
    OBVIOUS
  <2>2. /\ b \in MH!Asked /\ b.entry = asked[r].entry
        /\ b.pc = "done" /\ b.answer = "offer"
    BY <1>0, <2>1 DEF MH!Asked
  <2>3. asked' = [asked EXCEPT ![r] = b]
    BY <1>2, <2>1 DEF MH!MimeAnswers
  <2>4. /\ asked' \in [Req -> MH!Asked] /\ asked'[r] = b
        /\ \A s \in Req \ {r} : asked'[s] = asked[s]
        /\ cache' \in [Req -> Req \cup {None}] /\ cache'[r] = r
        /\ \A s \in Req \ {r} : cache'[s] = cache[s]
    BY <1>2, <2>2, <2>3 DEF MimeInv, MH!MimeTypeOK
  <2>5. MimeInv'
    <3>1. \A s \in Req : AssetGood(s)'
      BY <2>2, <2>4 DEF MimeInv, AssetGood
    <3> QED BY <1>2, <2>4, <3>1 DEF MimeInv, MH!MimeTypeOK
  <2>6. MH!AssetOffer(r) = "none" /\ MH!AssetOffer(r)' = "open"
    BY <1>0, <2>2, <2>4 DEF AssetGood, MH!AssetOffer
  <2>7. \A p \in Req \ {r} : MH!AssetOffer(p)' = MH!AssetOffer(p)
    <3> TAKE p \in Req \ {r}
    <3>1. \A t \in Req : cache'[t] = p <=> cache[t] = p
      BY <1>0, <2>4, ServicesAssumption DEF AssetGood, MH!MimeAssumption
    <3> QED BY <2>4, <3>1 DEF MH!AssetOffer
  <2>8. O' = [O EXCEPT ![r] = "open"]
    BY <2>6, <2>7
  <2>9. W' = W
    <3>1. \A s \in Req : MH!AssetWork(s)' = MH!AssetWork(s)
      BY <2>2, <2>4 DEF MH!AssetWork
    <3> QED BY <3>1
  <2> QED BY <2>5, <2>6, <2>8, <2>9 DEF MH!Contract!ContractNext, MH!Contract!MakeOffer
<1> QED BY <1>1, <1>2 DEF MH!KeepsAsset, MH!Kept

(* A secondary request takes what is cached, and with it the offer.        *)
LEMMA TakingClosesOffer ==
  ASSUME MimeInv, NEW r \in Req, NEW t \in Req \cup {None}, MH!AssetSecondary(r, t)
  PROVE  /\ MimeInv'
         /\ MH!Contract!ContractNext \/ UNCHANGED MH!Contract!contractVars
<1> DEFINE O == [p \in Req |-> MH!AssetOffer(p)]
           W == [s \in Req |-> MH!AssetWork(s)]
           e == IF t = None THEN None ELSE cache[t]
           c == [MH!NotAsked EXCEPT !.kind = "secondary", !.token = t, !.entry = e]
<1>0. /\ asked[r] \in MH!Asked /\ AssetGood(r) /\ asked[r].pc = "idle"
      /\ asked[r].entry = None /\ cache[r] = None /\ asked[r].answer # "offer"
      /\ preloaded' = preloaded
  BY DEF MimeInv, MH!MimeTypeOK, MH!AssetSecondary, AssetGood
<1>1. PICK ans \in {"unavailable", "error"} : MH!MimeAnswers(r, c, ans)
  BY DEF MH!AssetSecondary
<1>2. PICK b : b = [c EXCEPT !.pc = "done", !.answer = ans]
  OBVIOUS
<1>3. e \in Req \cup {None}
  BY DEF MimeInv, MH!MimeTypeOK
<1>4. /\ b \in MH!Asked /\ b.entry = e
      /\ b.pc = "done" /\ b.answer # "offer"
  BY <1>2, <1>3 DEF MH!Asked, MH!NotAsked
<1>5. asked' = [asked EXCEPT ![r] = b]
  BY <1>1, <1>2 DEF MH!MimeAnswers
<1> HIDE DEF c
<1>6. /\ asked' \in [Req -> MH!Asked] /\ asked'[r] = b
      /\ \A s \in Req \ {r} : asked'[s] = asked[s]
  BY <1>4, <1>5 DEF MimeInv, MH!MimeTypeOK
<1>7. CASE e = None
  <2>1. cache' = cache
    <3>1. CASE t = None
      BY <3>1 DEF MH!AssetSecondary
    <3>2. CASE t # None
      <4>1. cache' = [cache EXCEPT ![t] = None] /\ cache[t] = None /\ t \in Req
        BY <1>7, <3>2 DEF MH!AssetSecondary, MH!FetchLocalAsset
      <4> QED BY <4>1 DEF MimeInv, MH!MimeTypeOK
    <3> QED BY <3>1, <3>2
  <2> QED BY <1>0, <1>4, <1>5, <1>7, <2>1, AssetMoves DEF MH!Contract!contractVars
<1>8. CASE e # None
  <2>1. /\ t \in Req /\ e = t /\ cache[t] = t /\ asked[t].answer = "offer" /\ t # r
    BY <1>0, <1>8 DEF MimeInv, AssetGood
  <2>2. cache' = [cache EXCEPT ![t] = None]
    BY <1>8 DEF MH!AssetSecondary, MH!FetchLocalAsset
  <2>3. /\ cache' \in [Req -> Req \cup {None}] /\ cache'[t] = None
        /\ \A s \in Req \ {t} : cache'[s] = cache[s]
    BY <2>1, <2>2 DEF MimeInv, MH!MimeTypeOK
  <2>4. MimeInv'
    <3>1. \A s \in Req : AssetGood(s)'
      BY <1>0, <1>4, <1>6, <2>1, <2>3 DEF MimeInv, AssetGood
    <3> QED BY <1>0, <1>6, <2>3, <3>1 DEF MimeInv, MH!MimeTypeOK
  <2>5. MH!AssetOffer(t) = "open"
    BY <2>1 DEF MH!AssetOffer
  <2>6. MH!AssetOffer(t)' = "closed"
    <3>1. asked'[t].answer = "offer"
      BY <1>6, <2>1
    <3>2. \A s \in Req : cache'[s] # t
      BY <2>1, <2>3, ServicesAssumption DEF MimeInv, AssetGood, MH!MimeAssumption
    <3> QED BY <3>1, <3>2 DEF MH!AssetOffer
  <2>7. \A p \in Req \ {t} : MH!AssetOffer(p)' = MH!AssetOffer(p)
    <3> TAKE p \in Req \ {t}
    <3>1. \A s \in Req : cache'[s] = p <=> cache[s] = p
      BY <2>1, <2>3, ServicesAssumption DEF MH!MimeAssumption
    <3>2. asked'[p].answer = "offer" <=> asked[p].answer = "offer"
      BY <1>0, <1>4, <1>6
    <3> QED BY <3>1, <3>2 DEF MH!AssetOffer
  <2>8. O' = [O EXCEPT ![t] = "closed"]
    BY <2>1, <2>6, <2>7
  <2>9. MH!AssetWork(r) = None /\ MH!AssetWork(r)' = [offer |-> t, last |-> TRUE]
    BY <1>0, <1>4, <1>6, <1>8, <2>1 DEF MH!AssetWork
  <2>10. \A s \in Req \ {r} : MH!AssetWork(s)' = MH!AssetWork(s)
    BY <1>6 DEF MH!AssetWork
  <2>11. W' = [W EXCEPT ![r] = [offer |-> t, last |-> TRUE]]
    BY <2>9, <2>10
  <2>12. MH!Contract!CloseOffer(r, t)
    BY <2>1, <2>5, <2>8, <2>9, <2>11 DEF MH!Contract!CloseOffer
  <2> QED BY <2>1, <2>4, <2>12 DEF MH!Contract!ContractNext
<1> QED BY <1>7, <1>8

LEMMA AssetsStep ==
  MimeInv /\ [MH!MimeNext]_mimeVars =>
     MimeInv' /\ [MH!Contract!ContractNext]_(MH!Contract!contractVars)
<1> SUFFICES ASSUME MimeInv, [MH!MimeNext]_mimeVars
             PROVE  /\ MimeInv'
                    /\ MH!Contract!ContractNext \/ UNCHANGED MH!Contract!contractVars
  OBVIOUS
<1>1. CASE UNCHANGED mimeVars
  BY <1>1 DEF mimeVars, MimeInv, MH!MimeTypeOK, AssetGood, MH!Contract!contractVars,
              MH!AssetOffer, MH!AssetWork
<1>2. CASE MH!MimeNext
  <2>1. PICK r \in Req :
           \/ \E kind \in {"static", "guarded static", "guarded dynamic"}, a \in Assets :
                 MH!AssetRequest(r, kind, a)
           \/ \E t \in Req \cup {None} : MH!AssetSecondary(r, t)
           \/ MH!StaticGuarded(r) \/ MH!KindOfGuarded(r) \/ MH!AssetProcessed(r)
           \/ MH!KeepsAsset(r) \/ MH!SendsAsset(r)
    BY <1>2 DEF MH!MimeNext
  <2>2. CASE \E t \in Req \cup {None} : MH!AssetSecondary(r, t)
    BY <2>2, TakingClosesOffer
  <2>3. CASE MH!KeepsAsset(r)
    BY <2>3, KeptIsOffered
  <2>4. CASE ~MH!KeepsAsset(r) /\ ~\E t \in Req \cup {None} : MH!AssetSecondary(r, t)
    BY <2>1, <2>4, QuietAssetHandlers DEF MH!Contract!contractVars
  <2> QED BY <2>2, <2>3, <2>4
<1> QED BY <1>1, <1>2

LEMMA AssetInvariant == Spec => []MimeInv
<1>1. Init => MimeInv
  BY InitAssets DEF Init
<1>2. MimeInv /\ [Next]_vars => MimeInv'
  BY AssetsStep, StepsOfParts
<1> QED BY <1>1, <1>2, PTL DEF Spec

(* mime_processing.js implements TransitionContract over the token cache:  *)
(* what a primary request was offered stands until one secondary request   *)
(* takes it, and no secondary request works on what nobody was offered.    *)
THEOREM AssetsImplementContract == Spec => AssetsKeepContract
<1>1. Init => MH!Contract!ContractInit
  BY DEF Init, MH!MimeInit, MH!NotAsked, MH!Contract!ContractInit,
         MH!AssetOffer, MH!AssetWork
<1>2. MimeInv /\ [Next]_vars => [MH!Contract!ContractNext]_(MH!Contract!contractVars)
  BY AssetsStep, StepsOfParts
<1> QED BY <1>1, <1>2, AssetInvariant, PTL
        DEF Spec, AssetsKeepContract, MH!AssetsKeepContract, MH!Contract!ContractSpec

-----------------------------------------------------------------------------
(* The types. *)

(* Every variable of every part has its type, however the parts run.       *)
THEOREM TypeCorrect == Spec => []TypeOK
<1>1. ServiceInv => SV!ServiceTypeOK
  <2> SUFFICES ASSUME ServiceInv PROVE SV!ServiceTypeOK
    OBVIOUS
  <2>1. ServiceShape
    BY DEF ServiceInv
  <2>2. \A s \in SV!Slots : ready[s] \cup gone[s] \subseteq Commands \cup {SV!Default}
    BY <2>1 DEF ServiceShape, Instances
  <2>3. \A c \in Commands : command[c].left \in 0 .. MaxConfs
    BY <2>1 DEF ServiceShape, CommandRecs
  <2>4. up \in {"booting", "wired", "listening"} \cup SV!Ended
    BY <2>1 DEF ServiceShape, SV!Ended
  <2>5. \A k \in Signals : signal[k] = None \/ signal[k] \in 1 .. Len(SV!Order) + 1
    BY <2>1, OrderIs DEF ServiceShape
  <2> QED BY <2>1, <2>2, <2>3, <2>4, <2>5, OrderIs
             DEF ServiceShape, Instances, SV!ServiceTypeOK
<1>2. AccountInv => AC!AccountTypeOK
  BY DEF AccountInv, AccountShape, TrackShape, Linked, AC!AccountTypeOK
<1>3. Init => TypeInv
  BY InitTyped DEF Init
<1>4. TypeInv /\ [Next]_vars => TypeInv'
  BY TypeInvStep, StepsOfParts
<1>5. TypeInv => ForeignTypeOK
  BY DEF TypeInv
<1>6. MimeInv => MH!MimeTypeOK
  BY DEF MimeInv
<1>7. ServiceInv /\ AccountInv /\ TypeInv /\ MimeInv => TypeOK
  BY <1>1, <1>2, <1>5, <1>6 DEF TypeOK
<1> QED BY <1>3, <1>4, <1>7, ServiceInvariant, AccountInvariant, AssetInvariant, PTL
        DEF Spec
=============================================================================
