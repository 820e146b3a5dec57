------------------------------ MODULE KeysProofs ------------------------------
(***************************************************************************)
(* The hand-over of keys in KeyRotation, for any number of keys, crashes,  *)
(* lost connections and commands.                                          *)
(***************************************************************************)
EXTENDS KeyRotation, TLAPS

Messages == [cmd : Commands \cup {"KEY_ROTATED"}, key : Nat]

KeyTypes ==
    /\ phase \in Phases
    /\ cfgKey \in Nat /\ file \in Nat \cup {Torn} /\ dbKey \in Nat /\ toSend \in Nat
    /\ inbox \in Seq(Messages)
    /\ loops # {} => phase = "session"

(* No session, nothing on its way.                                         *)
Quiet == phase \notin {"setup", "session"} => inbox = << >> /\ sock # "open"

IsKey(m) == m.cmd = "KEY_ROTATED"

(* Keys reach the agent in the order of their issue.                       *)
KeyOrder ==
    /\ cfgKey <= dbKey /\ file <= dbKey
    /\ toSend # NoKey => cfgKey < toSend /\ file < toSend /\ toSend <= dbKey
    /\ \A i \in DOMAIN inbox : IsKey(inbox[i]) =>
         /\ cfgKey < inbox[i].key /\ file < inbox[i].key /\ inbox[i].key <= dbKey
         /\ toSend # NoKey => inbox[i].key < toSend
    /\ \A i, j \in DOMAIN inbox :
         IsKey(inbox[i]) /\ IsKey(inbox[j]) /\ i < j => inbox[i].key < inbox[j].key

FileInStep == faults = {} /\ phase # "boot" => file = cfgKey

KeyInv == KeyTypes /\ Quiet /\ KeyOrder /\ FileInStep /\ HandOver

(* The order of the keys is lost once a configuration has brought one.     *)
KeysInv == KeyTypes /\ Quiet /\ ("config" \in faults \/ KeyInv)
-----------------------------------------------------------------------------
LEMMA RotatedFacts ==
    ASSUME NEW k \in Nat
    PROVE  Rotated(k) \in Messages /\ IsKey(Rotated(k)) /\ Rotated(k).key = k
BY DEF Rotated, Messages, IsKey

LEMMA CommandFacts ==
    ASSUME NEW c \in Commands
    PROVE  Command(c) \in Messages /\ ~IsKey(Command(c))
BY DEF Command, Messages, IsKey, Commands, NoKey

LEMMA ConfiguredFacts ==
    ASSUME NEW k \in Nat PROVE Configured(k) \in Messages /\ ~IsKey(Configured(k))
BY DEF Configured, Messages, IsKey, Commands

LEMMA KeyMessage == ASSUME NEW m \in Messages, IsKey(m) PROVE m = Rotated(m.key)
BY DEF Messages, IsKey, Rotated

(* An inbox shortened to a prefix, or by its head, keeps its order.        *)
LEMMA Shortened ==
    ASSUME KeyTypes, NEW n \in 0 .. Len(inbox)
    PROVE  /\ SubSeq(inbox, 1, n) \in Seq(Messages) /\ Len(SubSeq(inbox, 1, n)) = n
           /\ \A i \in 1 .. n : SubSeq(inbox, 1, n)[i] = inbox[i]
           /\ SubSeq(inbox, n + 1, Len(inbox)) \in Seq(Messages)
           /\ Len(SubSeq(inbox, n + 1, Len(inbox))) = Len(inbox) - n
           /\ \A i \in n + 1 .. Len(inbox) : SubSeq(inbox, n + 1, Len(inbox))[i - n] = inbox[i]
BY SMTT(30) DEF KeyTypes

LEMMA InitKeys == Init => KeysInv
<1> SUFFICES ASSUME Init PROVE KeysInv
    OBVIOUS
<1>1. /\ inbox = << >> /\ phase = "boot" /\ file \in {0, 1} /\ cfgKey = 0 /\ dbKey = 1 /\ toSend = 0
      /\ faults = {} => file = dbKey
    BY KeyRotationAssumption DEF Init, NoKey
<1>2. KeyTypes
    BY <1>1 DEF Init, KeyTypes, Phases
<1>3. Quiet
    BY <1>1 DEF Init, Quiet
<1>4. KeyOrder
    BY <1>1 DEF KeyOrder, NoKey
<1> QED BY <1>1, <1>2, <1>3, <1>4 DEF KeysInv, KeyInv, FileInStep, HandOver, InConfig

(* Steps that touch neither keys nor messages.                             *)
LEMMA KeysAlone ==
    ASSUME KeyInv, UNCHANGED <<cfgKey, file, inbox, dbKey, toSend>>, faults' = {} => faults = {},
           phase' \in Phases, phase' = "boot" <=> phase = "boot",
           phase' \notin {"setup", "session"} => inbox = << >> /\ sock' # "open",
           loops' # {} => phase' = "session"
    PROVE  KeyInv'
BY DEF KeyInv, KeyTypes, Quiet, KeyOrder, FileInStep, HandOver, InConfig, InFlight

(* A command that is no key leaves the inbox.                              *)
LEMMA Handled ==
    ASSUME KeyInv, inbox # << >>, ~IsKey(Head(inbox)), inbox' = Tail(inbox),
           UNCHANGED <<cfgKey, dbKey, toSend, phase, sock, loops>>,
           file' = file \/ file' = cfgKey, faults' = {} => faults = {},
           phase = "session"
    PROVE  KeyInv'
<1>1. /\ inbox \in Seq(Messages) /\ Len(inbox) \in Nat \ {0}
      /\ inbox' \in Seq(Messages) /\ Len(inbox') = Len(inbox) - 1
      /\ \A i \in 1 .. Len(inbox) - 1 : inbox'[i] = inbox[i + 1]
      /\ Head(inbox) = inbox[1]
    BY DEF KeyInv, KeyTypes
<1>2. KeyTypes' /\ Quiet'
    BY <1>1 DEF KeyInv, KeyTypes, Quiet
<1>3. KeyOrder'
    <2>1. /\ DOMAIN inbox' = 1 .. Len(inbox) - 1
          /\ \A i \in DOMAIN inbox' : inbox'[i] = inbox[i + 1] /\ i + 1 \in DOMAIN inbox
        BY <1>1
    <2>2. \A i, j \in DOMAIN inbox' : i < j => i + 1 < j + 1
        BY <2>1, <1>1
    <2>3. ASSUME NEW i \in DOMAIN inbox', IsKey(inbox'[i])
          PROVE  /\ cfgKey < inbox'[i].key /\ file' < inbox'[i].key /\ inbox'[i].key <= dbKey
                 /\ toSend # NoKey => inbox'[i].key < toSend
        BY <2>1, <2>3 DEF KeyInv, KeyOrder
    <2>4. ASSUME NEW i \in DOMAIN inbox', NEW j \in DOMAIN inbox',
                 IsKey(inbox'[i]), IsKey(inbox'[j]), i < j
          PROVE  inbox'[i].key < inbox'[j].key
        BY <2>1, <2>2, <2>4 DEF KeyInv, KeyOrder
    <2>5. file' <= dbKey /\ (toSend # NoKey => file' < toSend)
        BY DEF KeyInv, KeyOrder
    <2> QED BY <2>3, <2>4, <2>5 DEF KeyInv, KeyOrder
<1>4. FileInStep'
    BY DEF KeyInv, FileInStep
<1>5. HandOver'
    <2> SUFFICES ASSUME faults' = {} PROVE (InConfig \/ InFlight)'
        BY DEF HandOver
    <2>1. file = cfgKey
        BY DEF KeyInv, FileInStep
    <2>2. CASE InConfig \/ toSend = dbKey
        BY <2>1, <2>2 DEF InConfig, InFlight
    <2>3. CASE \E i \in DOMAIN inbox : inbox[i] = Rotated(dbKey)
        <3>1. PICK i \in DOMAIN inbox : inbox[i] = Rotated(dbKey)
            BY <2>3
        <3>2. i \in 1 .. Len(inbox) /\ i # 1
            BY <1>1, <3>1, RotatedFacts DEF KeyInv, KeyTypes
        <3>3. i - 1 \in DOMAIN inbox' /\ inbox'[i - 1] = Rotated(dbKey)
            BY <1>1, <3>1, <3>2
        <3> QED BY <3>3 DEF InFlight
    <2> QED BY <2>2, <2>3 DEF KeyInv, HandOver, InFlight
<1> QED BY <1>2, <1>3, <1>4, <1>5 DEF KeyInv

LEMMA RotatedStep == ASSUME KeyInv, HandleKeyRotated, UNCHANGED serverVars PROVE KeyInv'
<1> DEFINE k == Head(inbox).key
<1>1. /\ inbox \in Seq(Messages) /\ Len(inbox) \in Nat \ {0}
      /\ inbox' \in Seq(Messages) /\ Len(inbox') = Len(inbox) - 1
      /\ \A i \in 1 .. Len(inbox) - 1 : inbox'[i] = inbox[i + 1]
      /\ Head(inbox) = inbox[1] /\ inbox' = Tail(inbox)
    BY DEF HandleKeyRotated, Handling, KeyInv, KeyTypes
<1>2. /\ k \in Nat /\ IsKey(inbox[1]) /\ cfgKey' = k /\ file' \in {file, k} /\ phase = "session"
      /\ UNCHANGED <<dbKey, toSend, phase, sock, loops>>
    <2>1. inbox[1] \in Messages
        BY <1>1
    <2>2. k \in Nat
        BY <1>1, <2>1 DEF Messages
    <2>3. IsKey(inbox[1]) /\ phase = "session"
        BY <1>1 DEF HandleKeyRotated, Handling, IsKey, KeyInv, KeyTypes
    <2>4. cfgKey' = k /\ file' \in {file, k} /\ UNCHANGED <<dbKey, toSend, phase, sock, loops>>
        BY DEF HandleKeyRotated, Persist, serverVars, process
    <2> QED BY <2>2, <2>3, <2>4
<1>3. KeyTypes' /\ Quiet'
    BY <1>1, <1>2 DEF KeyInv, KeyTypes, Quiet
<1>4. KeyOrder'
    <2> DEFINE n == Len(inbox)
    <2>1. /\ cfgKey < k /\ file < k /\ k <= dbKey /\ (toSend # NoKey => k < toSend)
          /\ toSend # NoKey => toSend <= dbKey
          /\ \A i \in 2 .. n : IsKey(inbox[i]) =>
               /\ k < inbox[i].key /\ inbox[i].key <= dbKey
               /\ toSend # NoKey => inbox[i].key < toSend
          /\ \A i, j \in 2 .. n :
               IsKey(inbox[i]) /\ IsKey(inbox[j]) /\ i < j => inbox[i].key < inbox[j].key
        BY <1>1, <1>2, SMTT(30) DEF KeyInv, KeyOrder, KeyTypes
    <2>2. DOMAIN inbox' = 1 .. n - 1 /\ n \in Nat \ {0}
        BY <1>1
    <2>3. ASSUME NEW i \in DOMAIN inbox'
          PROVE  i + 1 \in 2 .. n /\ inbox'[i] = inbox[i + 1] /\ inbox[i + 1] \in Messages
        BY <1>1, <2>2
    <2>4. \A i \in DOMAIN inbox' : inbox'[i].key \in Nat
        BY <2>3 DEF Messages
    <2>5. file \in Nat \cup {-1} /\ k \in Nat /\ dbKey \in Nat /\ toSend \in Nat
        BY <1>2 DEF KeyInv, KeyTypes, Torn
    <2>6. ASSUME NEW i \in DOMAIN inbox', IsKey(inbox'[i])
          PROVE  /\ k < inbox'[i].key /\ file' < inbox'[i].key /\ inbox'[i].key <= dbKey
                 /\ toSend # NoKey => inbox'[i].key < toSend
        BY <1>2, <2>1, <2>3, <2>4, <2>5, <2>6
    <2>7. ASSUME NEW i \in DOMAIN inbox', NEW j \in DOMAIN inbox',
                 IsKey(inbox'[i]), IsKey(inbox'[j]), i < j
          PROVE  inbox'[i].key < inbox'[j].key
        <3>1. i + 1 < j + 1
            BY <2>2, <2>7
        <3>2. /\ i + 1 \in 2 .. n /\ inbox'[i] = inbox[i + 1]
              /\ j + 1 \in 2 .. n /\ inbox'[j] = inbox[j + 1]
            BY <2>3
        <3> HIDE DEF n
        <3> QED BY <2>1, <2>7, <3>1, <3>2
    <2> QED BY <1>2, <2>1, <2>5, <2>6, <2>7 DEF KeyOrder
<1>5. faults' = {} => file' = k /\ faults = {}
    BY DEF HandleKeyRotated, Persist
<1>6. FileInStep'
    BY <1>2, <1>5 DEF FileInStep
<1>7. HandOver'
    <2> SUFFICES ASSUME faults' = {} PROVE (InConfig \/ InFlight)'
        BY DEF HandOver
    <2>1. k > cfgKey /\ k <= dbKey /\ cfgKey \in Nat /\ dbKey \in Nat
        BY <1>1, <1>2 DEF KeyInv, KeyOrder, KeyTypes
    <2>2. InFlight
        BY <1>2, <1>5, <2>1 DEF KeyInv, HandOver, InConfig
    <2>3. CASE toSend = dbKey
        BY <1>2, <2>3 DEF InFlight
    <2>4. CASE \E i \in DOMAIN inbox : inbox[i] = Rotated(dbKey)
        <3>1. PICK i \in 1 .. Len(inbox) : inbox[i] = Rotated(dbKey)
            BY <2>4 DEF KeyInv, KeyTypes
        <3>2. CASE i = 1
            BY <1>1, <1>2, <1>5, <2>1, <3>1, <3>2, RotatedFacts DEF InConfig
        <3>3. CASE i # 1
            <4>1. i - 1 \in DOMAIN inbox' /\ inbox'[i - 1] = Rotated(dbKey)
                BY <1>1, <3>1, <3>3
            <4> QED BY <1>2, <4>1 DEF InFlight
        <3> QED BY <3>2, <3>3
    <2> QED BY <2>2, <2>3, <2>4 DEF InFlight
<1> QED BY <1>3, <1>4, <1>6, <1>7 DEF KeyInv

LEMMA HandlingStep ==
    ASSUME KeyInv, HandleCommand, UNCHANGED serverVars, "config" \notin faults' PROVE KeyInv'
<1>1. ASSUME NEW c \in Commands, Handling(c) PROVE inbox # << >> /\ ~IsKey(Head(inbox))
        /\ inbox' = Tail(inbox) /\ phase = "session"
    BY <1>1 DEF Handling, IsKey, Commands, KeyInv, KeyTypes
<1>2. CASE HandleKeyRotated
    BY <1>2, RotatedStep
<1>3. CASE HandleScan \/ HandleHealthCheck \/ HandleSystemInfo \/ HandleCollect
    BY <1>1, <1>3, Handled DEF HandleScan, HandleHealthCheck, HandleSystemInfo, HandleCollect,
        Reporting, Commands, process, serverVars
<1>4. CASE HandleExecutePatch \/ HandleDeployment \/ HandleUpdate
    BY <1>1, <1>4, Handled DEF HandleExecutePatch, HandleDeployment, HandleUpdate, Commands,
        process, serverVars
<1>5. CASE HandleConfigUpdate
    BY <1>1, <1>5, Handled DEF HandleConfigUpdate, Persist, Commands, process, serverVars
<1> QED BY <1>2, <1>3, <1>4, <1>5 DEF HandleCommand

(* A loss of messages that is on record, or loses no key.                  *)
LEMMA Emptied ==
    ASSUME KeyInv, inbox' = << >>, LossOf(inbox) = {}, UNCHANGED <<cfgKey, dbKey, toSend, file>>,
           faults = {}, phase' # "boot" => phase # "boot"
    PROVE  HandOver'
<1>1. ASSUME NEW i \in DOMAIN inbox PROVE inbox[i] # Rotated(dbKey)
    BY DEF LossOf, Rotated
<1> QED BY <1>1 DEF KeyInv, HandOver, InConfig, InFlight, FileInStep

LEMMA EndStep ==
    ASSUME KeyInv, inbox' = << >>, UNCHANGED <<cfgKey, dbKey, toSend>>,
           \/ UNCHANGED file /\ faults' = faults \cup LossOf(inbox)
           \/ file' = Torn /\ faults' # {},
           phase' \in Phases \ {"setup", "session"}, phase' # "boot" => phase # "boot",
           sock' = "none", loops' = {}
    PROVE  KeyInv'
<1>1. KeyTypes' /\ Quiet'
    BY DEF KeyInv, KeyTypes, Quiet, Torn
<1>2. KeyOrder'
    BY DEF KeyInv, KeyOrder, KeyTypes, Torn, NoKey
<1>3. FileInStep'
    BY DEF KeyInv, FileInStep
<1>4. HandOver'
    BY Emptied DEF HandOver
<1> QED BY <1>1, <1>2, <1>3, <1>4 DEF KeyInv

LEMMA DropStep == ASSUME KeyInv, SocketLost, UNCHANGED serverVars PROVE KeyInv'
<1>1. PICK n \in 0 .. Len(inbox) :
        /\ inbox' = SubSeq(inbox, 1, n)
        /\ faults' = faults \cup LossOf(SubSeq(inbox, n + 1, Len(inbox)))
    BY DEF SocketLost
<1>2. UNCHANGED <<cfgKey, file, dbKey, toSend, phase, loops>> /\ sock' = "closed"
    BY DEF SocketLost, serverVars
<1>3. /\ inbox' \in Seq(Messages) /\ Len(inbox') = n /\ n \in Nat /\ n <= Len(inbox)
      /\ DOMAIN inbox' = 1 .. n /\ \A i \in 1 .. n : inbox'[i] = inbox[i] /\ i \in DOMAIN inbox
    BY <1>1, Shortened DEF KeyInv, KeyTypes
<1>4. KeyTypes' /\ Quiet'
    <2>1. inbox = << >> => inbox' = << >>
        BY <1>3 DEF KeyInv, KeyTypes
    <2> QED BY <1>2, <1>3, <2>1 DEF KeyInv, KeyTypes, Quiet
<1>5. KeyOrder'
    BY <1>2, <1>3 DEF KeyInv, KeyOrder
<1>6. FileInStep'
    BY <1>1, <1>2 DEF KeyInv, FileInStep
<1>7. HandOver'
    <2> SUFFICES ASSUME faults' = {} PROVE (InConfig \/ InFlight)'
        BY DEF HandOver
    <2>1. faults = {} /\ LossOf(SubSeq(inbox, n + 1, Len(inbox))) = {}
        BY <1>1
    <2>2. CASE InConfig \/ toSend = dbKey
        BY <1>2, <2>2 DEF InConfig, InFlight
    <2>3. CASE \E i \in DOMAIN inbox : inbox[i] = Rotated(dbKey)
        <3>1. PICK i \in 1 .. Len(inbox) : inbox[i] = Rotated(dbKey)
            BY <2>3 DEF KeyInv, KeyTypes
        <3>2. i <= n
            <4> SUFFICES ASSUME i > n PROVE FALSE
                BY <1>3, <3>1
            <4> DEFINE rest == SubSeq(inbox, n + 1, Len(inbox))
            <4>1. rest[i - n] = inbox[i] /\ rest \in Seq(Messages) /\ Len(rest) = Len(inbox) - n
                BY <3>1, Shortened DEF KeyInv
            <4> HIDE DEF rest
            <4>2. i - n \in DOMAIN rest
                BY <1>3, <3>1, <4>1
            <4>3. rest[i - n].cmd = "KEY_ROTATED"
                BY <3>1, <4>1 DEF Rotated
            <4>4. LossOf(rest) = {"lost"}
                BY <4>2, <4>3 DEF LossOf
            <4> QED BY <2>1, <4>4 DEF rest
        <3> QED BY <1>2, <1>3, <3>1, <3>2 DEF InFlight
    <2> QED BY <2>1, <2>2, <2>3 DEF KeyInv, HandOver, InFlight
<1> QED BY <1>4, <1>5, <1>6, <1>7 DEF KeyInv

(* A message is sent to an open socket.                                    *)
LEMMA AppendStep ==
    ASSUME KeyInv, NEW m \in Messages, sock = "open", inbox' = Append(inbox, m),
           UNCHANGED <<cfgKey, file, dbKey, phase, sock, loops, faults>>,
           \/ ~IsKey(m) /\ toSend' = toSend
           \/ toSend # NoKey /\ m = Rotated(toSend) /\ toSend' = NoKey
    PROVE  KeyInv'
<1> DEFINE n == Len(inbox)
<1>1. /\ inbox' \in Seq(Messages) /\ Len(inbox') = n + 1 /\ n \in Nat
      /\ DOMAIN inbox' = 1 .. n + 1 /\ DOMAIN inbox = 1 .. n /\ inbox'[n + 1] = m
      /\ \A i \in 1 .. n : inbox'[i] = inbox[i] /\ inbox[i] \in Messages
    BY DEF KeyInv, KeyTypes
<1> HIDE DEF n
<1>2. KeyTypes' /\ Quiet'
    BY <1>1 DEF KeyInv, KeyTypes, Quiet, NoKey
<1>3. KeyOrder'
    <2>1. CASE ~IsKey(m) /\ toSend' = toSend
        BY <1>1, <2>1 DEF KeyInv, KeyOrder
    <2>2. CASE toSend # NoKey /\ m = Rotated(toSend) /\ toSend' = NoKey
        <3>1. IsKey(m) /\ m.key = toSend
            BY <2>2, RotatedFacts DEF KeyInv, KeyTypes
        <3>2. ASSUME NEW i \in 1 .. n + 1, IsKey(inbox'[i])
              PROVE  cfgKey < inbox'[i].key /\ file < inbox'[i].key /\ inbox'[i].key <= dbKey
            BY <1>1, <2>2, <3>1, <3>2 DEF KeyInv, KeyOrder
        <3>3. ASSUME NEW i \in 1 .. n + 1, NEW j \in 1 .. n + 1,
                     IsKey(inbox'[i]), IsKey(inbox'[j]), i < j
              PROVE  inbox'[i].key < inbox'[j].key
            <4>1. i \in 1 .. n /\ inbox'[i] = inbox[i] /\ i \in DOMAIN inbox
                BY <1>1, <3>3
            <4>2. CASE j = n + 1
                BY <1>1, <2>2, <3>1, <3>3, <4>1, <4>2 DEF KeyInv, KeyOrder
            <4>3. CASE j # n + 1
                <5>1. j \in DOMAIN inbox /\ inbox'[j] = inbox[j]
                    BY <1>1, <4>3
                <5> QED BY <3>3, <4>1, <5>1 DEF KeyInv, KeyOrder
            <4> QED BY <4>2, <4>3
        <3> QED BY <1>1, <2>2, <3>2, <3>3 DEF KeyInv, KeyOrder
    <2> QED BY <2>1, <2>2
<1>4. FileInStep'
    BY DEF KeyInv, FileInStep
<1>5. HandOver'
    <2> SUFFICES ASSUME faults = {} PROVE (InConfig \/ InFlight)'
        BY DEF HandOver
    <2>1. CASE InConfig
        BY <2>1 DEF InConfig
    <2>2. CASE toSend = dbKey
        BY <1>1, <2>2 DEF InFlight
    <2>3. CASE \E i \in DOMAIN inbox : inbox[i] = Rotated(dbKey)
        BY <1>1, <2>3 DEF InFlight
    <2> QED BY <2>1, <2>2, <2>3 DEF KeyInv, HandOver, InFlight
<1> QED BY <1>2, <1>3, <1>4, <1>5 DEF KeyInv

(* The server issues a key.                                                *)
LEMMA IssueStep ==
    ASSUME KeyInv, RotateSave \/ RotateByHand \/ PublishFails PROVE KeyInv'
<1>1. KeyTypes' /\ Quiet'
    BY DEF RotateSave, RotateByHand, PublishFails, agentVars, KeyInv, KeyTypes, Quiet, NoKey
<1>2. KeyOrder'
    <2>1. \A i \in DOMAIN inbox : inbox[i] \in Messages
        BY DEF KeyInv, KeyTypes
    <2>2. \A i \in DOMAIN inbox : inbox[i].key \in Nat
        BY <2>1 DEF Messages
    <2> QED BY <2>2 DEF RotateSave, RotateByHand, PublishFails, agentVars, KeyInv, KeyTypes, KeyOrder,
        NoKey, Torn
<1>3. FileInStep'
    BY DEF RotateSave, RotateByHand, PublishFails, agentVars, KeyInv, FileInStep
<1>4. HandOver'
    BY DEF RotateSave, RotateByHand, PublishFails, HandOver, InFlight
<1> QED BY <1>1, <1>2, <1>3, <1>4 DEF KeyInv

LEMMA BootStep ==
    ASSUME KeyInv, Alone(Boot) \/ Alone(TryRegister) \/ Dial PROVE KeyInv'
<1>1. CASE Alone(Boot)
    <2>1. /\ phase = "boot" /\ file # Torn /\ phase' = "register" /\ cfgKey' = file
          /\ UNCHANGED <<file, sock, loops, inbox, faults, dbKey, toSend>>
        BY <1>1 DEF Alone, Boot, serverVars
    <2>2. inbox = << >> /\ sock # "open" /\ loops = {}
        BY <2>1 DEF KeyInv, Quiet, KeyTypes
    <2>3. file \in Nat
        BY <2>1 DEF KeyInv, KeyTypes, Torn
    <2> QED BY <2>1, <2>2, <2>3 DEF KeyInv, KeyTypes, Quiet, KeyOrder, FileInStep, HandOver, InConfig,
            InFlight, Phases
<1>2. CASE Alone(TryRegister)
    BY <1>2, KeysAlone DEF Alone, TryRegister, serverVars, KeyInv, KeyTypes, Quiet, Phases
<1>3. CASE Dial
    <2>1. inbox = << >> /\ phase = "dial"
        BY <1>3 DEF Dial, Connect, KeyInv, Quiet
    <2> QED BY <1>3, <2>1, KeysAlone DEF Dial, Connect, serverVars, KeyInv, KeyTypes, Phases
<1> QED BY <1>1, <1>2, <1>3

LEMMA AloneStep ==
    ASSUME KeyInv, "config" \notin faults',
           Alone(DialFails) \/ Alone(Backoff) \/ Alone(AgentSteps)
    PROVE  KeyInv'
<1>1. CASE Alone(DialFails) \/ Alone(Backoff)
    BY <1>1, KeysAlone DEF Alone, DialFails, Backoff, serverVars, KeyInv, KeyTypes, Quiet, Phases
<1>2. CASE Alone(HandleCommand)
    BY <1>2, HandlingStep DEF Alone
<1>3. CASE Alone(Gather)
    BY <1>3, KeysAlone DEF Alone, Gather, serverVars, KeyInv, KeyTypes, Phases
<1>4. CASE Alone(HeartbeatLoop) \/ Alone(LaneLoop("fast")) \/ Alone(LaneLoop("slow"))
           \/ Alone(InstallDone) \/ Alone(HandlerEnds)
    BY <1>4, KeysAlone DEF Alone, HeartbeatLoop, LaneLoop, InstallDone, HandlerEnds, process, SendJson,
        serverVars, KeyInv, KeyTypes, Quiet
<1> QED BY <1>1, <1>2, <1>3, <1>4 DEF AgentSteps, Alone

LEMMA OrderStep == KeyInv /\ [Next]_vars /\ "config" \notin faults' => KeyInv'
<1> SUFFICES ASSUME KeyInv, [Next]_vars, "config" \notin faults' PROVE KeyInv'
    OBVIOUS
<1>1. CASE Alone(SessionEnds)
    BY <1>1, EndStep DEF Alone, SessionEnds, serverVars, Phases
<1>2. CASE Die
    BY <1>2, EndStep DEF Die, Kill, KillInPersist, Reset, serverVars, Phases
<1>3. CASE Drop
    BY <1>3, DropStep DEF Drop
<1>4. CASE RotatePublish
    <2>1. CASE sock = "open"
        <3>1. Rotated(toSend) \in Messages
            BY RotatedFacts DEF KeyInv, KeyTypes
        <3> QED BY <1>4, <2>1, <3>1, AppendStep DEF RotatePublish
    <2>2. CASE sock # "open"
        BY <1>4, <2>2 DEF RotatePublish, KeyInv, KeyTypes, Quiet, KeyOrder, FileInStep, HandOver, NoKey
    <2> QED BY <2>1, <2>2
<1>5. CASE SendCommand
    <2>1. PICK m \in Messages : ~IsKey(m) /\ inbox' = Append(inbox, m)
        BY <1>5, CommandFacts, ConfiguredFacts DEF SendCommand, KeyInv, KeyTypes
    <2> QED BY <1>5, <2>1, AppendStep DEF SendCommand
<1>6. CASE UNCHANGED vars
    BY <1>6, KeysAlone DEF vars, agentVars, KeyInv, KeyTypes, Quiet
<1> QED BY <1>1, <1>2, <1>3, <1>4, <1>5, <1>6, IssueStep, BootStep, AloneStep DEF Next

(* What a message is stays so, whatever happened to the keys.              *)
LEMMA TypesStep == KeyTypes /\ Quiet /\ [Next]_vars => KeyTypes' /\ Quiet'
<1> SUFFICES ASSUME KeyTypes, Quiet, [Next]_vars PROVE KeyTypes' /\ Quiet'
    OBVIOUS
<1>1. ASSUME inbox' \in Seq(Messages), inbox = << >> => inbox' = << >>,
             cfgKey' \in Nat, file' \in Nat \cup {Torn}, UNCHANGED <<phase, sock, loops, dbKey, toSend>>
      PROVE  KeyTypes' /\ Quiet'
    BY <1>1 DEF KeyTypes, Quiet
<1>2. CASE HandleCommand /\ UNCHANGED serverVars
    <2>1. /\ inbox # << >> /\ inbox' = Tail(inbox)
          /\ UNCHANGED <<phase, sock, loops, dbKey, toSend>>
        BY <1>2 DEF HandleCommand, HandleScan, HandleHealthCheck, HandleSystemInfo, HandleCollect,
            Reporting, HandleExecutePatch, HandleDeployment, HandleConfigUpdate, HandleKeyRotated,
            HandleUpdate, Handling, process, serverVars
    <2>2. inbox' \in Seq(Messages) /\ Head(inbox) \in Messages
        BY <2>1 DEF KeyTypes
    <2>3. Head(inbox).key \in Nat
        BY <2>2 DEF Messages
    <2>4. cfgKey' \in {cfgKey, Head(inbox).key} /\ file' \in {file, cfgKey, Head(inbox).key}
        BY <1>2 DEF HandleCommand, HandleScan, HandleHealthCheck, HandleSystemInfo, HandleCollect,
            Reporting, HandleExecutePatch, HandleDeployment, HandleConfigUpdate, HandleKeyRotated,
            HandleUpdate, Persist, process
    <2>5. cfgKey' \in Nat /\ file' \in Nat \cup {Torn}
        BY <2>3, <2>4 DEF KeyTypes
    <2> QED BY <1>1, <2>1, <2>2, <2>5
<1>3. CASE Drop
    <2>1. PICK n \in 0 .. Len(inbox) : inbox' = SubSeq(inbox, 1, n)
        BY <1>3 DEF Drop, SocketLost
    <2>2. inbox' \in Seq(Messages) /\ Len(inbox') = n
        BY <2>1, Shortened
    <2>3. inbox = << >> => inbox' = << >>
        BY <2>1, <2>2 DEF KeyTypes
    <2> QED BY <1>3, <2>2, <2>3 DEF Drop, SocketLost, serverVars, KeyTypes, Quiet
<1>4. ASSUME NEW m \in Messages, inbox' = Append(inbox, m), sock = "open", toSend' \in Nat,
             UNCHANGED <<cfgKey, file, dbKey, phase, sock, loops>>
      PROVE  KeyTypes' /\ Quiet'
    BY <1>4 DEF KeyTypes, Quiet
<1>5. CASE RotatePublish
    <2>1. CASE sock = "open"
        BY <1>4, <1>5, <2>1, RotatedFacts DEF RotatePublish, KeyTypes, NoKey
    <2>2. CASE sock # "open"
        BY <1>5, <2>2 DEF RotatePublish, KeyTypes, Quiet, NoKey
    <2> QED BY <2>1, <2>2
<1>6. CASE SendCommand
    <2>1. PICK m \in Messages : inbox' = Append(inbox, m)
        BY <1>6, CommandFacts, ConfiguredFacts DEF SendCommand, KeyTypes
    <2> QED BY <1>4, <1>6, <2>1 DEF SendCommand, KeyTypes
<1>7. CASE RotateSave \/ RotateByHand \/ PublishFails
    BY <1>7 DEF RotateSave, RotateByHand, PublishFails, agentVars, KeyTypes, Quiet, NoKey
<1>8. CASE Die \/ Alone(SessionEnds)
    <2>1. /\ phase' \in {"boot", "backoff", "exited"} /\ inbox' = << >> /\ loops' = {}
          /\ sock' = "none" /\ file' \in {file, Torn} /\ UNCHANGED <<cfgKey, dbKey, toSend>>
        BY <1>8 DEF Die, Kill, KillInPersist, Reset, Alone, SessionEnds, serverVars
    <2> QED BY <2>1 DEF KeyTypes, Quiet, Phases
<1>9. CASE Dial
    BY <1>9 DEF Dial, Connect, serverVars, KeyTypes, Quiet, Phases
<1>10. CASE Alone(Boot) \/ Alone(TryRegister) \/ Alone(DialFails) \/ Alone(Backoff) \/ Alone(Gather)
    BY <1>10 DEF Alone, Boot, TryRegister, DialFails, Backoff, Gather, serverVars, KeyTypes, Quiet,
        Phases, Torn
<1>11. CASE Alone(HeartbeatLoop) \/ Alone(LaneLoop("fast")) \/ Alone(LaneLoop("slow"))
            \/ Alone(InstallDone) \/ Alone(HandlerEnds)
    BY <1>11 DEF Alone, HeartbeatLoop, LaneLoop, InstallDone, HandlerEnds, process, serverVars, KeyTypes,
        Quiet
<1>12. CASE UNCHANGED vars
    BY <1>12 DEF vars, agentVars, KeyTypes, Quiet
<1> QED BY <1>2, <1>3, <1>5, <1>6, <1>7, <1>8, <1>9, <1>10, <1>11, <1>12 DEF Next, AgentSteps, Alone

LEMMA FaultsStay == KeysInv /\ [Next]_vars => faults \subseteq faults'
BY DEF Next, Alone, Boot, TryRegister, DialFails, Backoff, AgentSteps, SessionEnds, HeartbeatLoop,
    LaneLoop, HandleCommand, HandleScan, HandleHealthCheck, HandleSystemInfo, HandleCollect, Reporting,
    HandleExecutePatch, HandleDeployment, HandleConfigUpdate, HandleKeyRotated, HandleUpdate, Persist,
    InstallDone, HandlerEnds, Gather, Dial, Connect, RotateSave, RotatePublish, PublishFails,
    RotateByHand, SendCommand, Drop, SocketLost, Die, Kill, KillInPersist, vars, agentVars

LEMMA KeysStep == KeysInv /\ [Next]_vars => KeysInv'
BY TypesStep, FaultsStay, OrderStep DEF KeysInv

LEMMA KeysInvariance == Spec => []KeysInv
BY InitKeys, KeysStep, PTL DEF Spec

(* Unless something is lost, an administrator rotates by hand or a         *)
(* configuration brings a key, the agent has the key that the server       *)
(* checks, or will receive it: the task saves the key before it publishes  *)
(* it (inventory/tasks.py:279).                                            *)
THEOREM HandOverHolds == Spec => []HandOver
<1>1. KeysInv => HandOver
    BY DEF KeysInv, KeyInv, HandOver
<1> QED BY <1>1, KeysInvariance, PTL

(* A running agent goes back to an older key only when a configuration     *)
(* carried one, although every KEY_ROTATED overwrites what it has and      *)
(* CONFIG_UPDATE writes all of it again (agent/agent.py).                  *)
THEOREM KeysOnlyGrow == Spec => KeyNeverRegresses
<1>1. KeysInv /\ [Next]_vars => (phase # "boot" /\ cfgKey' < cfgKey => "config" \in faults')
    <2> SUFFICES ASSUME KeysInv, [Next]_vars, phase # "boot", "config" \notin faults'
                 PROVE  ~(cfgKey' < cfgKey)
        OBVIOUS
    <2>0. KeyInv /\ cfgKey \in Nat
        BY FaultsStay DEF KeysInv, KeyTypes
    <2>1. CASE HandleKeyRotated
        <3>1. /\ inbox \in Seq(Messages) /\ inbox # << >> /\ IsKey(inbox[1]) /\ 1 \in DOMAIN inbox
              /\ cfgKey' = inbox[1].key
            BY <2>0, <2>1 DEF HandleKeyRotated, Handling, IsKey, KeyInv, KeyTypes
        <3>2. inbox[1] \in Messages
            BY <3>1
        <3>3. inbox[1].key \in Nat
            BY <3>2 DEF Messages
        <3> QED BY <2>0, <3>1, <3>3 DEF KeyInv, KeyOrder
    <2>2. CASE HandleConfigUpdate
        BY <2>0, <2>2 DEF HandleConfigUpdate
    <2>3. cfgKey' = cfgKey => ~(cfgKey' < cfgKey)
        BY <2>0
    <2>4. CASE Alone(AgentSteps)
        BY <2>1, <2>2, <2>3, <2>4 DEF Alone, AgentSteps, HandleCommand, HandleScan, HandleHealthCheck,
            HandleSystemInfo, HandleCollect, Reporting, HandleExecutePatch, HandleDeployment,
            HandleUpdate, HeartbeatLoop, LaneLoop, InstallDone, HandlerEnds, Gather
    <2>5. CASE Drop \/ Die \/ Dial \/ Alone(Boot) \/ Alone(TryRegister) \/ Alone(DialFails)
               \/ Alone(Backoff) \/ Alone(SessionEnds)
        BY <2>3, <2>5 DEF Drop, Die, SocketLost, Kill, KillInPersist, Dial, Connect, Alone, Boot,
            TryRegister, DialFails, Backoff, SessionEnds
    <2>6. CASE RotateSave \/ RotatePublish \/ PublishFails \/ RotateByHand \/ SendCommand
        BY <2>3, <2>6 DEF RotateSave, RotatePublish, PublishFails, RotateByHand, SendCommand, agentVars
    <2>7. CASE UNCHANGED vars
        BY <2>3, <2>7 DEF vars, agentVars
    <2> QED BY <2>4, <2>5, <2>6, <2>7 DEF Next
<1>2. KeysInv /\ [Next]_vars => [phase # "boot" /\ cfgKey' < cfgKey => "config" \in faults']_vars
    BY <1>1
<1> QED BY <1>2, KeysInvariance, PTL DEF Spec, KeyNeverRegresses

=============================================================================
