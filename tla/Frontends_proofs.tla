-------------------------- MODULE Frontends_proofs --------------------------
(***************************************************************************)
(* Proofs about Frontends, for every set of coins, messages and loads.     *)
(***************************************************************************)
EXTENDS Frontends, FiniteSetTheorems, TLAPS

USE CommandsAssumption, ServerAssumption, LoadsAssumption DEF Consumers

Segments == [ml : BOOLEAN, trader : BOOLEAN, gap : Nat, prec : Nat]
Maps == [Coins -> Segments]
Loops == [pc : Stages, id : Nat, cfg : Nat, map : Nat, copy : Maps \cup {None}]

\* A loop at one of these works on a command.
Working == {"run", "write", "swap", "assign", "range", "reply"}

Typed ==
  /\ up \in BOOLEAN /\ overlap \in BOOLEAN
  /\ sent \in Seq(Messages) /\ fate \in Seq(Fates) /\ Len(fate) = Len(sent)
  /\ bot \in [read : Nat, delivers : BOOLEAN] /\ bot.read <= Len(sent)
  /\ loop \in [Consumers -> Loops]
  /\ configs \in Seq(Nat) /\ maps \in Seq(Maps) /\ meant \in Maps
  /\ config \in DOMAIN configs /\ \A i \in DOMAIN configs : configs[i] \in DOMAIN maps

\* The bot delivers the message it read, which nobody works on yet.
Delivering == bot.delivers =>
  bot.read >= 1 /\ sent[bot.read].to \in Consumers /\ fate[bot.read] = "sent"

\* A loop works on a message for it that was not answered.
Serving == \A c \in Consumers :
  /\ loop[c].id <= bot.read
  /\ loop[c].pc \in Working =>
       /\ loop[c].id >= 1 /\ Command(c).to = c /\ fate[loop[c].id] = "sent"
       /\ ~ (bot.delivers /\ bot.read = loop[c].id)

Locking ==
  /\ \A c \in Consumers : loop[c].pc \in {"write", "swap"} <=> lock = c
  /\ \A c \in Consumers : loop[c].pc \in {"write", "swap"} => loop[c].map \in DOMAIN maps
  /\ loop["tr"].pc # "assign"
  /\ loop["ml"].pc = "assign" => loop["ml"].cfg \in DOMAIN configs /\ loop["ml"].copy \in Maps

\* As long as changes do not overlap, the one that runs ends in what was meant.
Changing ==
  ~ overlap =>
    /\ ~ (Writes("tr") /\ Writes("ml"))
    /\ (\A c \in Consumers : ~ Writes(c)) => maps[configs[config]] = meant
    /\ \A c \in Consumers :
         /\ loop[c].pc = "write" =>
              /\ loop[c].map = configs[config]
              /\ meant = Changed(maps[configs[config]], Command(c).coin, Flag[c], On(c))
         /\ loop[c].pc = "swap" => maps[loop[c].map] = meant
    /\ loop["ml"].pc = "assign" => loop["ml"].cfg = config /\ loop["ml"].copy = meant

CommandsInv == Typed /\ Delivering /\ Serving /\ Locking /\ Changing

-----------------------------------------------------------------------------
(* The parts of a step.                                                    *)

\* One loop goes elsewhere.
LEMMA LoopGoes ==
  ASSUME NEW c \in Consumers, loop \in [Consumers -> Loops], NEW new \in Loops,
         loop' = [loop EXCEPT ![c] = new]
  PROVE  /\ loop' \in [Consumers -> Loops] /\ loop'[c] = new
         /\ \A d \in Consumers \ {c} : loop'[d] = loop[d]
OBVIOUS

\* The fate of one message is decided.
LEMMA FateSet ==
  ASSUME fate \in Seq(Fates), NEW id \in DOMAIN fate, NEW f \in Fates,
         fate' = [fate EXCEPT ![id] = f]
  PROVE  /\ fate' \in Seq(Fates) /\ Len(fate') = Len(fate) /\ fate'[id] = f
         /\ \A i \in DOMAIN fate \ {id} : fate'[i] = fate[i]
OBVIOUS

LEMMA SentIsFate ==
  ASSUME Typed PROVE /\ DOMAIN sent = DOMAIN fate /\ DOMAIN sent = 1 .. Len(sent)
                     /\ \A i \in DOMAIN sent : sent[i] \in Messages /\ fate[i] \in Fates
BY DEF Typed

\* The message a loop works on is one that was sent to it and read.
LEMMA WorkingIn ==
  ASSUME CommandsInv, NEW c \in Consumers, loop[c].pc \in Working
  PROVE  /\ loop[c].id \in Nat /\ loop[c].id >= 1 /\ loop[c].id <= bot.read /\ bot.read \in Nat
         /\ loop[c].id \in 1 .. Len(sent) /\ loop[c].id \in DOMAIN fate /\ Command(c).to = c
<1>1. loop[c] \in Loops /\ bot \in [read : Nat, delivers : BOOLEAN] /\ bot.read <= Len(sent)
  BY DEF CommandsInv, Typed
<1>2. loop[c].id \in Nat /\ bot.read \in Nat
  BY ONLY <1>1 DEF Loops
<1>3. loop[c].id >= 1 /\ loop[c].id <= bot.read /\ Command(c).to = c
  BY DEF CommandsInv, Serving
<1>4. Len(sent) \in Nat /\ DOMAIN fate = 1 .. Len(sent)
  BY DEF CommandsInv, Typed
<1> QED BY ONLY <1>1, <1>2, <1>3, <1>4

\* The number in a message.
LEMMA FloatIsNumber ==
  ASSUME NEW v \in Values, IsFloat(v) PROVE Float(v) \in Nat
BY DEF IsFloat, Float

LEMMA ChangedMap ==
  ASSUME NEW m \in Maps, NEW coin, NEW field, NEW v,
         \/ field \in {"ml", "trader"} /\ v \in BOOLEAN
         \/ field \in {"gap", "prec"} /\ v \in Nat
  PROVE  Changed(m, coin, field, v) \in Maps
<1>1. ASSUME NEW s \in Segments PROVE [s EXCEPT ![field] = v] \in Segments
  <2>1. CASE field = "ml"
    BY <1>1, <2>1 DEF Segments
  <2>2. CASE field = "trader"
    BY <1>1, <2>2 DEF Segments
  <2>3. CASE field = "gap"
    BY <1>1, <2>3 DEF Segments
  <2>4. CASE field = "prec"
    BY <1>1, <2>4 DEF Segments
  <2> QED BY <2>1, <2>2, <2>3, <2>4
<1> QED BY <1>1 DEF Maps, Changed

-----------------------------------------------------------------------------
(* The commands.                                                           *)

\* Nothing of the strategy changes, and no loop that changes it moves.
QuietLoops == \A c \in Consumers :
  \/ loop'[c] = loop[c] /\ (loop[c].pc \in Working => Command(c)' = Command(c))
  \/ ~ Writes(c) /\ loop'[c].pc \notin {"write", "swap", "assign"}

LEMMA QuietStep ==
  ASSUME CommandsInv, UNCHANGED strategy, QuietLoops
  PROVE  Locking' /\ Changing'
<1>1. Locking'
  BY DEF CommandsInv, Typed, Locking, QuietLoops, strategy, Writes
<1>2. Changing'
  <2>1. \A c \in Consumers : Writes(c)' <=> Writes(c)
    BY DEF QuietLoops, Writes
  <2>2. \A c \in Consumers : Writes(c) => loop'[c] = loop[c] /\ Command(c)' = Command(c) /\ On(c)' = On(c)
    BY DEF QuietLoops, Writes, Working, On
  <2>3. UNCHANGED <<overlap, maps, configs, config, meant>>
    BY DEF strategy
  <2> QED BY <2>1, <2>2, <2>3 DEF CommandsInv, Changing, Writes, Changed
<1> QED BY <1>1, <1>2

LEMMA CommandsInitInv ==
  ASSUME NEW load \in Loads, CommandsInit(load.messages, load.kinds)
  PROVE  CommandsInv
<1>1. Initial.segments \in Maps
  <2>1. Initial.segments = [c \in Coins |-> ForCoin(TRUE)]
    BY DEF Initial, WithConfig, CoinConfig
  <2>2. ForCoin(TRUE) \in Segments
    BY DEF ForCoin, Segments, Fields
  <2> QED BY <2>1, <2>2 DEF Maps
<1>2. [Resting EXCEPT !.pc = "starting"] \in Loops
  BY DEF Resting, Loops, Stages
<1>3. loop \in [Consumers -> Loops] /\ \A c \in Consumers : loop[c].pc = "starting" /\ loop[c].id = 0
  BY <1>2 DEF CommandsInit, Resting
<1>4. maps = <<Initial.segments>> /\ maps[1] = Initial.segments /\ maps \in Seq(Maps) /\ DOMAIN maps = {1}
      /\ configs = <<1>> /\ configs \in Seq(Nat) /\ DOMAIN configs = {1} /\ configs[1] = 1 /\ config = 1
      /\ meant = maps[1]
  BY <1>1 DEF CommandsInit
<1>5. Typed
  <2>1. /\ sent = <<>> /\ fate = <<>> /\ up = TRUE /\ overlap = FALSE
        /\ bot = [read |-> 0, delivers |-> FALSE]
    BY DEF CommandsInit
  <2>2. sent \in Seq(Messages) /\ fate \in Seq(Fates) /\ Len(fate) = Len(sent) /\ Len(sent) = 0
    BY <2>1
  <2>3. meant \in Maps /\ config \in DOMAIN configs /\ \A i \in DOMAIN configs : configs[i] \in DOMAIN maps
    BY <1>1, <1>4
  <2>4. bot \in [read : Nat, delivers : BOOLEAN] /\ bot.read <= Len(sent)
    BY <2>1, <2>2
  <2>5. up \in BOOLEAN /\ overlap \in BOOLEAN
    BY <2>1
  <2>6. configs \in Seq(Nat) /\ maps \in Seq(Maps) /\ loop \in [Consumers -> Loops]
    BY <1>3, <1>4
  <2> QED BY <2>2, <2>3, <2>4, <2>5, <2>6 DEF Typed
<1>6. Delivering /\ Serving
  BY <1>3 DEF CommandsInit, Delivering, Serving, Working
<1>7. Locking
  BY <1>3, CommandsAssumption DEF CommandsInit, Locking
<1>8. Changing
  BY <1>3, <1>4 DEF Changing, Writes
<1> QED BY <1>5, <1>6, <1>7, <1>8 DEF CommandsInv

\* Users send one more message.
LEMMA UserSendsInv ==
  ASSUME CommandsInv, NEW m \in Messages, UserSends(m)
  PROVE  CommandsInv'
<1>1. sent' = Append(sent, m) /\ fate' = Append(fate, "sent") /\ UNCHANGED <<up, bot, loop, strategy>>
  BY DEF UserSends
<1>2. \A i \in 1 .. Len(sent) : sent'[i] = sent[i] /\ fate'[i] = fate[i]
  BY <1>1 DEF CommandsInv, Typed
<1>3. \A c \in Consumers : loop[c].pc \in Working => Command(c)' = Command(c)
  BY <1>1, <1>2, WorkingIn DEF Command
<1>4. QuietLoops
  BY <1>1, <1>3 DEF QuietLoops
<1>5. Typed'
  <2>1. sent' \in Seq(Messages) /\ fate' \in Seq(Fates) /\ Len(sent') = Len(sent) + 1 /\ Len(fate') = Len(sent')
    BY <1>1 DEF CommandsInv, Typed, Fates
  <2> QED BY <1>1, <2>1 DEF CommandsInv, Typed, strategy
<1>6. Delivering'
  BY <1>1, <1>2 DEF CommandsInv, Typed, Delivering
<1>7. Serving'
  <2>1. \A c \in Consumers : loop[c].pc \in Working => loop[c].id \in 1 .. Len(sent)
    BY DEF CommandsInv, Typed, Serving, Loops
  <2> QED BY <1>1, <1>2, <1>3, <2>1 DEF CommandsInv, Serving
<1> QED BY <1>1, <1>4, <1>5, <1>6, <1>7, QuietStep DEF CommandsInv

\* A loop that serves no command and is not delivered one, and its message.
LEMMA ListenInv ==
  ASSUME CommandsInv, NEW c \in Consumers, Listen(c)
  PROVE  CommandsInv'
<1>1. /\ loop[c].pc = "starting" /\ loop' = [loop EXCEPT ![c] = Resting] /\ Resting \in Loops
      /\ UNCHANGED <<up, sent, fate, bot, strategy>>
  BY DEF Listen, Resting, Loops, Stages
<1>2. /\ loop' \in [Consumers -> Loops] /\ loop'[c] = Resting
      /\ \A d \in Consumers \ {c} : loop'[d] = loop[d] /\ Command(d)' = Command(d)
  BY <1>1, LoopGoes DEF CommandsInv, Typed, Command
<1>3. QuietLoops
  BY <1>1, <1>2 DEF QuietLoops, Writes, Resting
<1>4. Typed' /\ Delivering'
  BY <1>1, <1>2 DEF CommandsInv, Typed, Delivering, strategy
<1>5. Serving'
  BY <1>1, <1>2 DEF CommandsInv, Typed, Serving, Resting, Working
<1> QED BY <1>1, <1>3, <1>4, <1>5, QuietStep DEF CommandsInv

LEMMA ListenToUpdatesInv ==
  ASSUME CommandsInv, ListenToUpdates
  PROVE  CommandsInv'
<1> DEFINE id == bot.read + 1
           to == sent[id].to
           listening == to \in Consumers /\ loop[to].pc # "starting"
<1>1. /\ ~ bot.delivers /\ bot.read < Len(sent) /\ bot' = [read |-> id, delivers |-> listening]
      /\ UNCHANGED <<up, sent, loop, strategy>>
  BY DEF ListenToUpdates
<1>2. id \in DOMAIN fate /\ id \in 1 .. Len(sent)
  BY <1>1 DEF CommandsInv, Typed
<1>3. PICK f \in Fates : fate' = [fate EXCEPT ![id] = f] /\ (listening => f = "sent")
  BY DEF ListenToUpdates, Execute, Send, SendFates, Fates
<1>4. /\ fate' \in Seq(Fates) /\ Len(fate') = Len(fate) /\ fate'[id] = f
      /\ \A i \in DOMAIN fate \ {id} : fate'[i] = fate[i]
  BY <1>2, <1>3, FateSet DEF CommandsInv, Typed
<1>5. QuietLoops
  BY <1>1 DEF QuietLoops, Command
<1>6. Typed' /\ Delivering'
  BY <1>1, <1>2, <1>3, <1>4 DEF CommandsInv, Typed, Delivering, strategy
<1>7. Serving'
  <2>1. \A c \in Consumers : loop[c].pc \in Working => loop[c].id \in DOMAIN fate \ {id}
    <3> SUFFICES ASSUME NEW c \in Consumers, loop[c].pc \in Working
                 PROVE  loop[c].id \in DOMAIN fate \ {id}
      OBVIOUS
    <3>1. loop[c].id \in DOMAIN fate /\ loop[c].id \in Nat /\ loop[c].id <= bot.read /\ bot.read \in Nat
      BY WorkingIn
    <3> QED BY ONLY <3>1
  <2> SUFFICES ASSUME NEW c \in Consumers
               PROVE  /\ loop[c].id <= bot'.read
                      /\ loop[c].pc \in Working =>
                           /\ loop[c].id >= 1 /\ Command(c).to = c /\ fate'[loop[c].id] = "sent"
                           /\ ~ (bot'.delivers /\ bot'.read = loop[c].id)
    BY <1>1 DEF Serving, Command
  <2>2. bot'.read = bot.read + 1 /\ bot.read \in Nat /\ loop[c].id <= bot.read /\ loop[c].id \in Nat
    BY <1>1 DEF CommandsInv, Typed, Serving, Loops
  <2>3. loop[c].id <= bot'.read /\ bot'.read # loop[c].id
    BY ONLY <2>2
  <2>4. loop[c].pc \in Working =>
          loop[c].id >= 1 /\ Command(c).to = c /\ fate'[loop[c].id] = "sent"
    BY <1>4, <2>1 DEF CommandsInv, Serving
  <2> QED BY <2>3, <2>4
<1> QED BY <1>1, <1>5, <1>6, <1>7, QuietStep DEF CommandsInv

LEMMA DeliverInv ==
  ASSUME CommandsInv, Deliver
  PROVE  CommandsInv'
<1>0. bot.delivers /\ sent[bot.read].to \in Consumers
  BY DEF Deliver, CommandsInv, Delivering
<1> PICK c \in Consumers : c = sent[bot.read].to
  BY <1>0
<1> DEFINE new == [loop[c] EXCEPT !.pc = "run", !.id = bot.read]
<1>1. /\ bot.delivers /\ loop[c].pc = "receive" /\ bot' = [bot EXCEPT !.delivers = FALSE]
      /\ loop' = [loop EXCEPT ![c] = new] /\ UNCHANGED <<up, sent, fate, strategy>>
  BY DEF Deliver
<1>2. bot.read >= 1 /\ fate[bot.read] = "sent" /\ bot.read \in Nat /\ loop[c] \in Loops
  BY <1>1 DEF CommandsInv, Typed, Delivering
<1>3. new \in Loops /\ new.pc = "run" /\ new.id = bot.read
  BY <1>2 DEF Loops, Stages
<1> HIDE DEF new
<1>4. /\ loop' \in [Consumers -> Loops] /\ loop'[c] = new
      /\ \A d \in Consumers \ {c} : loop'[d] = loop[d] /\ Command(d)' = Command(d)
  BY <1>1, <1>2, <1>3, LoopGoes DEF CommandsInv, Typed, Command
<1>5. QuietLoops
  BY <1>1, <1>2, <1>3, <1>4 DEF QuietLoops, Writes
<1>6. bot' = [read |-> bot.read, delivers |-> FALSE]
  BY <1>1 DEF CommandsInv, Typed
<1>7. Typed' /\ Delivering'
  BY <1>1, <1>4, <1>6 DEF CommandsInv, Typed, Delivering, strategy
<1>8. Serving'
  <2>1. Command(c)'.to = c
    BY <1>1, <1>3, <1>4 DEF Command
  <2>2. \A d \in Consumers \ {c} : loop'[d] = loop[d] /\ Command(d)' = Command(d)
    BY <1>4
  <2>3. loop'[c].id = bot.read /\ ~ bot'.delivers /\ bot'.read = bot.read /\ fate' = fate
    BY <1>1, <1>3, <1>4, <1>6
  <2>4. ASSUME NEW d \in Consumers \ {c}
        PROVE  /\ loop'[d].id <= bot'.read
               /\ loop'[d].pc \in Working =>
                    loop'[d].id >= 1 /\ Command(d)'.to = d /\ fate'[loop'[d].id] = "sent"
    BY <2>2, <2>3 DEF CommandsInv, Serving
  <2> QED BY <1>2, <2>1, <2>3, <2>4 DEF Serving
<1> QED BY <1>1, <1>5, <1>7, <1>8, QuietStep DEF CommandsInv

LEMMA DropInv ==
  ASSUME CommandsInv, Drop
  PROVE  CommandsInv'
<1>1. /\ bot.delivers /\ bot' = [bot EXCEPT !.delivers = FALSE]
      /\ UNCHANGED <<up, sent, loop, strategy>>
  BY DEF Drop
<1>2. bot.read \in DOMAIN fate
  BY <1>1 DEF CommandsInv, Typed, Delivering
<1>3. PICK f \in Fates : fate' = [fate EXCEPT ![bot.read] = f]
  BY DEF Drop, Fates
<1>4. /\ fate' \in Seq(Fates) /\ Len(fate') = Len(fate)
      /\ \A i \in DOMAIN fate \ {bot.read} : fate'[i] = fate[i]
  BY <1>2, <1>3, FateSet DEF CommandsInv, Typed
<1>5. QuietLoops
  BY <1>1 DEF QuietLoops, Command
<1>6. bot' = [read |-> bot.read, delivers |-> FALSE]
  BY <1>1 DEF CommandsInv, Typed
<1>7. Typed' /\ Delivering'
  BY <1>1, <1>4, <1>6 DEF CommandsInv, Typed, Delivering, strategy
<1>8. Serving'
  <2>1. \A c \in Consumers : loop[c].pc \in Working => loop[c].id \in DOMAIN fate \ {bot.read}
    BY <1>1 DEF CommandsInv, Typed, Serving, Loops
  <2> QED BY <1>1, <1>4, <1>6, <2>1 DEF CommandsInv, Serving, Command
<1> QED BY <1>1, <1>5, <1>7, <1>8, QuietStep DEF CommandsInv

\* A loop goes on with its command, and changes nothing of the strategy.
LEMMA GoesOn ==
  ASSUME CommandsInv, NEW c \in Consumers, loop[c].pc \in Working, ~ Writes(c),
         NEW new \in Loops, new.id = loop[c].id, new.pc \in Working \ {"write", "swap", "assign"},
         loop' = [loop EXCEPT ![c] = new], up' \in BOOLEAN, UNCHANGED <<sent, fate, bot, strategy>>
  PROVE  CommandsInv'
<1>1. /\ loop' \in [Consumers -> Loops] /\ loop'[c] = new
      /\ \A d \in Consumers : Command(d)' = Command(d)
      /\ \A d \in Consumers \ {c} : loop'[d] = loop[d]
  BY LoopGoes DEF CommandsInv, Typed, Command
<1>2. QuietLoops
  BY <1>1 DEF QuietLoops
<1>3. Typed' /\ Delivering'
  BY <1>1 DEF CommandsInv, Typed, Delivering, strategy
<1>4. Serving'
  BY <1>1 DEF CommandsInv, Serving
<1> QED BY <1>2, <1>3, <1>4, QuietStep DEF CommandsInv

\* A loop ends its command with an answer.
LEMMA Ends ==
  ASSUME CommandsInv, NEW c \in Consumers, loop[c].pc \in Working, ~ Writes(c),
         Send(loop[c].id), loop' = [loop EXCEPT ![c] = Resting], UNCHANGED <<up, sent, bot, strategy>>
  PROVE  CommandsInv'
<1> DEFINE id == loop[c].id
<1>1. PICK f \in Fates : fate' = [fate EXCEPT ![id] = f]
  BY DEF Send, SendFates, Fates
<1>2. id \in DOMAIN fate /\ Resting \in Loops /\ Command(c).to = c
  <2>1. id \in DOMAIN fate /\ Command(c).to = c
    BY WorkingIn
  <2>2. Resting \in Loops
    BY DEF Loops, Resting, Stages
  <2> QED BY <2>1, <2>2
<1>3. /\ loop' \in [Consumers -> Loops] /\ loop'[c] = Resting
      /\ \A d \in Consumers \ {c} : loop'[d] = loop[d] /\ Command(d)' = Command(d)
  BY <1>2, LoopGoes DEF CommandsInv, Typed, Command
<1>4. /\ fate' \in Seq(Fates) /\ Len(fate') = Len(fate)
      /\ \A i \in DOMAIN fate \ {id} : fate'[i] = fate[i]
  BY <1>1, <1>2, FateSet DEF CommandsInv, Typed
<1>5. QuietLoops
  BY <1>3 DEF QuietLoops, Resting
<1>6. Typed'
  BY <1>3, <1>4 DEF CommandsInv, Typed, strategy
<1>7. Delivering'
  BY <1>2, <1>4 DEF CommandsInv, Typed, Delivering, Serving
<1>8. Serving'
  <2>1. Resting.id = 0 /\ Resting.pc \notin Working
    BY DEF Resting, Working
  <2>2. \A d \in Consumers \ {c} : loop[d].pc \in Working => loop[d].id \in DOMAIN fate \ {id}
    <3> SUFFICES ASSUME NEW d \in Consumers \ {c}, loop[d].pc \in Working
                 PROVE  loop[d].id \in DOMAIN fate \ {id}
      OBVIOUS
    <3>1. loop[d].id \in DOMAIN fate /\ Command(d).to = d
      BY WorkingIn
    <3> QED BY <1>2, <3>1 DEF Command
  <2>3. \A d \in Consumers : loop'[d].id <= bot.read
    BY <1>3, <2>1 DEF CommandsInv, Typed, Serving
  <2>4. \A d \in Consumers \ {c} : loop[d].pc \in Working => fate'[loop[d].id] = fate[loop[d].id]
    BY <1>4, <2>2
  <2> QED BY <1>3, <2>1, <2>3, <2>4 DEF CommandsInv, Serving
<1> QED BY <1>5, <1>6, <1>7, <1>8, QuietStep DEF CommandsInv

LEMMA GotoIs ==
  ASSUME Typed, NEW c \in Consumers, NEW pc \in Stages, Goto(c, pc)
  PROVE  \E new \in Loops : new.id = loop[c].id /\ new.pc = pc /\ loop' = [loop EXCEPT ![c] = new]
<1>1. [loop[c] EXCEPT !.pc = pc] \in Loops
  <2>1. loop[c] \in Loops
    BY DEF Typed
  <2> QED BY <2>1 DEF Loops
<1> QED BY <1>1 DEF Goto, Typed, Loops

\* Answers, queries and settings.
LEMMA ServeInv ==
  ASSUME CommandsInv, NEW c \in Consumers, Invalid(c) \/ Ask(c) \/ Reply(c)
  PROVE  CommandsInv'
<1>1. CASE Invalid(c)
  BY <1>1, Ends DEF Invalid, LoopAfterError, Working, Writes
<1>2. CASE Ask(c)
  BY <1>2, GotoIs, GoesOn DEF Ask, Running, CommandsInv, Working, Writes, Stages
<1>3. CASE Reply(c)
  BY <1>3, Ends DEF Reply, Working, Writes
<1> QED BY <1>1, <1>2, <1>3

LEMMA AsksInv ==
  ASSUME CommandsInv, AskConfig \/ AskedConfig \/ Set \/ Close
  PROVE  CommandsInv'
<1>1. CASE AskConfig
  <2> DEFINE new == [loop["ml"] EXCEPT !.pc = "range", !.map = configs[config]]
  <2>1. new \in Loops /\ new.id = loop["ml"].id /\ new.pc = "range"
    <3>1. configs[config] \in Nat /\ loop["ml"] \in Loops
      BY DEF CommandsInv, Typed
    <3> QED BY <3>1 DEF Loops, Stages
  <2>2. loop' = [loop EXCEPT !["ml"] = new]
    BY <1>1 DEF AskConfig
  <2> HIDE DEF new
  <2> QED BY <1>1, <2>1, <2>2, GoesOn DEF AskConfig, Running, CommandsInv, Typed, Working, Writes
<1>2. CASE AskedConfig
  BY <1>2, GotoIs, GoesOn DEF AskedConfig, CommandsInv, Typed, Working, Writes, Stages
<1>3. CASE Set
  BY <1>3, GotoIs, GoesOn DEF Set, Running, CommandsInv, Typed, Working, Writes, Stages
<1>4. CASE Close
  BY <1>4, GotoIs, GoesOn DEF Close, Running, CommandsInv, Working, Writes, Stages
<1> QED BY <1>1, <1>2, <1>3, <1>4

\* The trainer, and the end of the process.
LEMMA TrainInv ==
  ASSUME CommandsInv, Train \/ Trained \/ Fatal
  PROVE  CommandsInv'
<1>1. up' \in BOOLEAN /\ UNCHANGED <<sent, fate, bot, loop, strategy>>
  BY DEF Train, Trained, Fatal, CommandsInv, Typed
<1>2. \A c \in Consumers : Command(c)' = Command(c)
  BY <1>1 DEF Command
<1>3. QuietLoops
  BY <1>1, <1>2 DEF QuietLoops
<1>4. Typed' /\ Delivering' /\ Serving'
  BY <1>1, <1>2 DEF CommandsInv, Typed, Delivering, Serving, strategy
<1> QED BY <1>1, <1>3, <1>4, QuietStep DEF CommandsInv

-----------------------------------------------------------------------------
(* The changes of the strategy.                                            *)

\* A loop that changes the strategy goes on with its command.
LEMMA WriterGoesOn ==
  ASSUME CommandsInv, NEW c \in Consumers, loop[c].pc \in Working,
         NEW new \in Loops, new.id = loop[c].id, new.pc \in Working,
         loop' = [loop EXCEPT ![c] = new], UNCHANGED <<sent, fate, bot>>
  PROVE  /\ loop' \in [Consumers -> Loops] /\ loop'[c] = new
         /\ \A d \in Consumers : Command(d)' = Command(d)
         /\ \A d \in Consumers \ {c} : loop'[d] = loop[d]
         /\ Delivering' /\ Serving'
<1>1. /\ loop' \in [Consumers -> Loops] /\ loop'[c] = new
      /\ \A d \in Consumers : Command(d)' = Command(d)
      /\ \A d \in Consumers \ {c} : loop'[d] = loop[d]
  BY LoopGoes DEF CommandsInv, Typed, Command
<1>2. Delivering' /\ Serving'
  BY <1>1 DEF CommandsInv, Delivering, Serving
<1> QED BY <1>1, <1>2

\* The ghost after a change begins, and the change itself.
LEMMA BeginsTyped ==
  ASSUME CommandsInv, NEW c \in Consumers, NEW field, NEW v, Begins(c, field, v),
         \/ field \in {"ml", "trader"} /\ v \in BOOLEAN
         \/ field \in {"gap", "prec"} /\ v \in Nat
  PROVE  meant' \in Maps /\ overlap' \in BOOLEAN
BY ChangedMap DEF CommandsInv, Typed, Begins

\* A change that does not overlap with another begins with what was meant.
LEMMA BeginsAlone ==
  ASSUME CommandsInv, NEW c \in Consumers, NEW field, NEW v, Begins(c, field, v),
         ~ Writes(c), ~ overlap'
  PROVE  /\ ~ overlap /\ \A d \in Consumers : ~ Writes(d)
         /\ meant' = Changed(maps[configs[config]], Command(c).coin, field, v)
<1>1. ~ overlap /\ \A d \in Consumers : ~ Writes(d)
  BY DEF Begins, CommandsInv, Typed
<1>2. maps[configs[config]] = meant
  BY <1>1 DEF CommandsInv, Changing
<1> QED BY <1>1, <1>2 DEF Begins

LEMMA EnableStartInv ==
  ASSUME CommandsInv, NEW c \in Consumers, EnableStart(c)
  PROVE  CommandsInv'
<1> DEFINE new == [loop[c] EXCEPT !.pc = "write", !.map = configs[config]]
<1>1. /\ loop[c].pc = "run" /\ lock = None /\ lock' = c /\ Begins(c, Flag[c], On(c))
      /\ UNCHANGED <<up, sent, fate, bot, config, configs, maps>>
  BY DEF EnableStart, Running
<1>2. loop' = [loop EXCEPT ![c] = new]
  <2>1. loop[c] \in Loops
    BY DEF CommandsInv, Typed
  <2> QED BY <2>1 DEF EnableStart, Loops, CommandsInv, Typed
<1>3. configs[config] \in DOMAIN maps /\ configs[config] \in Nat /\ loop[c] \in Loops
  BY DEF CommandsInv, Typed
<1>4. new \in Loops /\ new.id = loop[c].id /\ new.pc = "write" /\ new.map = configs[config]
  BY <1>3 DEF Loops, Stages
<1> HIDE DEF new
<1>5. /\ loop' \in [Consumers -> Loops] /\ loop'[c] = new
      /\ \A d \in Consumers : Command(d)' = Command(d)
      /\ \A d \in Consumers \ {c} : loop'[d] = loop[d]
      /\ Delivering' /\ Serving'
  BY <1>1, <1>2, <1>4, WriterGoesOn DEF Working
<1>6. Typed'
  <2>1. Flag[c] \in {"ml", "trader"} /\ On(c) \in BOOLEAN
    BY DEF Flag, On
  <2>2. meant' \in Maps /\ overlap' \in BOOLEAN
    BY <1>1, <2>1, BeginsTyped
  <2> QED BY <1>1, <1>5, <2>2 DEF CommandsInv, Typed
<1>7. \A d \in Consumers : ~ (loop[d].pc \in {"write", "swap"})
  BY <1>1 DEF CommandsInv, Locking
<1>8. Locking'
  BY <1>1, <1>3, <1>4, <1>5, <1>7 DEF CommandsInv, Locking
<1>9. Changing'
  <2> SUFFICES ASSUME ~ overlap' PROVE Changing'
    BY DEF Changing
  <2>1. /\ \A d \in Consumers : ~ Writes(d)
        /\ meant' = Changed(maps[configs[config]], Command(c).coin, Flag[c], On(c))
    BY <1>1, BeginsAlone DEF Writes
  <2>2. \A d \in Consumers \ {c} : ~ Writes(d)' /\ loop'[d].pc \notin {"write", "swap", "assign"}
    BY <1>5, <2>1 DEF Writes
  <2>3. Writes(c)' /\ On(c)' = On(c)
    BY <1>4, <1>5 DEF Writes, On
  <2> QED BY <1>1, <1>4, <1>5, <2>1, <2>2, <2>3 DEF Changing, Changed
<1> QED BY <1>5, <1>6, <1>8, <1>9 DEF CommandsInv

LEMMA EnabledMap ==
  ASSUME NEW into \in Maps, NEW from \in Maps, NEW coin, NEW c \in Consumers, NEW v \in BOOLEAN
  PROVE  Enabled(into, from, coin, Flag[c], v) \in Maps
<1>1. ASSUME NEW s \in Segments PROVE [s EXCEPT ![Flag[c]] = v] \in Segments
  <2>1. CASE c = "tr"
    BY <1>1, <2>1 DEF Segments, Flag
  <2>2. CASE c = "ml"
    BY <1>1, <2>2 DEF Segments, Flag
  <2> QED BY <2>1, <2>2
<1> QED BY <1>1 DEF Maps, Enabled

LEMMA EnableWriteInv ==
  ASSUME CommandsInv, NEW c \in Consumers, EnableWrite(c)
  PROVE  CommandsInv'
<1> DEFINE m == loop[c].map
           written == Enabled(maps[m], maps[configs[config]], Command(c).coin, Flag[c], On(c))
<1>1. /\ loop[c].pc = "write" /\ maps' = [maps EXCEPT ![m] = written] /\ Goto(c, "swap")
      /\ UNCHANGED <<up, sent, fate, bot, lock, config, configs, meant, overlap>>
  BY DEF EnableWrite
<1>2. m \in DOMAIN maps /\ configs[config] \in DOMAIN maps /\ lock = c
  BY <1>1 DEF CommandsInv, Typed, Locking
<1>3. written \in Maps
  <2>1. maps[m] \in Maps /\ maps[configs[config]] \in Maps /\ On(c) \in BOOLEAN
    BY <1>2 DEF CommandsInv, Typed, On
  <2> QED BY <2>1, EnabledMap
<1>4. PICK new \in Loops : new.id = loop[c].id /\ new.pc = "swap" /\ loop' = [loop EXCEPT ![c] = new]
                            /\ new.map = m
  <2>1. [loop[c] EXCEPT !.pc = "swap"] \in Loops /\ loop[c] \in Loops
    <3>1. loop[c] \in Loops
      BY DEF CommandsInv, Typed
    <3> QED BY ONLY <3>1 DEF Loops, Stages
  <2> QED BY <1>1, <2>1 DEF Goto, CommandsInv, Typed, Loops
<1>5. /\ loop' \in [Consumers -> Loops] /\ loop'[c] = new
      /\ \A d \in Consumers : Command(d)' = Command(d)
      /\ \A d \in Consumers \ {c} : loop'[d] = loop[d]
      /\ Delivering' /\ Serving'
  BY <1>1, <1>4, WriterGoesOn DEF Working
<1> HIDE DEF written
<1>6. maps' \in Seq(Maps) /\ DOMAIN maps' = DOMAIN maps /\ maps'[m] = written
  BY <1>1, <1>2, <1>3 DEF CommandsInv, Typed
<1>7. Typed'
  BY <1>1, <1>5, <1>6 DEF CommandsInv, Typed
<1>8. Locking'
  BY <1>1, <1>2, <1>4, <1>5, <1>6 DEF CommandsInv, Locking
<1>9. Changing'
  <2> SUFFICES ASSUME ~ overlap PROVE Changing'
    BY <1>1 DEF Changing
  <2>1. m = configs[config] /\ meant = Changed(maps[configs[config]], Command(c).coin, Flag[c], On(c))
    BY <1>1 DEF CommandsInv, Changing
  <2>2. written = meant
    BY <2>1 DEF written, Enabled, Changed
  <2>3. Writes(c) /\ Writes(c)'
    BY <1>1, <1>4, <1>5 DEF Writes
  <2>4. \A d \in Consumers \ {c} : ~ Writes(d) /\ ~ Writes(d)'
    BY <1>5, <2>3 DEF CommandsInv, Changing, Writes
  <2> QED BY <1>1, <1>4, <1>5, <1>6, <2>2, <2>3, <2>4 DEF Changing, Writes
<1> QED BY <1>5, <1>7, <1>8, <1>9 DEF CommandsInv

\* The ids of the structs and maps stay what they are when one is added.
LEMMA EnableSwapInv ==
  ASSUME CommandsInv, NEW c \in Consumers, EnableSwap(c)
  PROVE  CommandsInv'
<1> DEFINE m == loop[c].map
<1>1. /\ loop[c].pc = "swap" /\ configs' = Append(configs, m) /\ config' = Len(configs')
      /\ lock' = None /\ Goto(c, "reply")
      /\ UNCHANGED <<up, sent, fate, bot, maps, meant, overlap>>
  BY DEF EnableSwap
<1>2. m \in DOMAIN maps /\ m \in Nat /\ lock = c
  BY <1>1 DEF CommandsInv, Typed, Locking, Loops
<1>3. PICK new \in Loops : new.id = loop[c].id /\ new.pc = "reply" /\ loop' = [loop EXCEPT ![c] = new]
  BY <1>1, GotoIs DEF CommandsInv, Stages
<1>4. /\ loop' \in [Consumers -> Loops] /\ loop'[c] = new
      /\ \A d \in Consumers : Command(d)' = Command(d)
      /\ \A d \in Consumers \ {c} : loop'[d] = loop[d]
      /\ Delivering' /\ Serving'
  BY <1>1, <1>3, WriterGoesOn DEF Working
<1>5. /\ configs' \in Seq(Nat) /\ config' = Len(configs) + 1 /\ config' \in DOMAIN configs'
      /\ configs'[config'] = m /\ DOMAIN configs \subseteq DOMAIN configs'
      /\ \A i \in DOMAIN configs' : configs'[i] \in DOMAIN maps
  <2>1. configs \in Seq(Nat) /\ \A i \in DOMAIN configs : configs[i] \in DOMAIN maps
    BY DEF CommandsInv, Typed
  <2> QED BY <1>1, <1>2, <2>1
<1>6. Typed'
  BY <1>1, <1>4, <1>5 DEF CommandsInv, Typed
<1>7. \A d \in Consumers \ {c} : loop[d].pc \notin {"write", "swap"}
  BY <1>2 DEF CommandsInv, Locking
<1>8. Locking'
  BY <1>1, <1>3, <1>4, <1>5, <1>7, CommandsAssumption DEF CommandsInv, Locking
<1>9. Changing'
  <2> SUFFICES ASSUME ~ overlap PROVE Changing'
    BY <1>1 DEF Changing
  <2>1. maps[m] = meant
    BY <1>1 DEF CommandsInv, Changing
  <2>2. Writes(c) /\ ~ Writes(c)'
    BY <1>1, <1>3, <1>4 DEF Writes
  <2>3. \A d \in Consumers \ {c} : ~ Writes(d) /\ ~ Writes(d)'
    BY <1>4, <2>2 DEF CommandsInv, Changing, Writes
  <2> QED BY <1>1, <1>5, <2>1, <2>2, <2>3 DEF Changing, Writes
<1> QED BY <1>4, <1>6, <1>8, <1>9 DEF CommandsInv

LEMMA SetStartInv ==
  ASSUME CommandsInv, SetStart
  PROVE  CommandsInv'
<1> DEFINE field == Command("ml").action
           v == Float(Command("ml").value)
           copy == Changed(maps[configs[config]], Command("ml").coin, field, v)
           new == [loop["ml"] EXCEPT !.pc = "assign", !.cfg = config, !.map = configs[config],
                                     !.copy = copy]
<1>1. /\ loop["ml"].pc = "run" /\ field \in {"gap", "prec"} /\ IsFloat(Command("ml").value)
      /\ Begins("ml", field, v) /\ loop' = [loop EXCEPT !["ml"] = new]
      /\ UNCHANGED <<up, sent, fate, bot, lock, config, configs, maps>>
  BY DEF SetStart, Running, Validate
<1>2. /\ configs[config] \in DOMAIN maps /\ configs[config] \in Nat /\ loop["ml"] \in Loops
      /\ config \in DOMAIN configs /\ config \in Nat /\ maps[configs[config]] \in Maps
  BY DEF CommandsInv, Typed
<1>3. v \in Nat
  <2>1. Command("ml") \in Messages
    BY <1>1, SentIsFate DEF CommandsInv, Typed, Serving, Working, Command, Loops
  <2>2. Command("ml").value \in Values
    BY <2>1
  <2> QED BY <1>1, <2>2, FloatIsNumber
<1>4. copy \in Maps
  BY <1>1, <1>2, <1>3, ChangedMap
<1> HIDE DEF copy
<1>5. /\ new \in Loops /\ new.id = loop["ml"].id /\ new.pc = "assign" /\ new.cfg = config
      /\ new.copy = copy /\ new.map = configs[config]
  BY <1>2, <1>4 DEF Loops, Stages
<1> HIDE DEF new
<1>6. /\ loop' \in [Consumers -> Loops] /\ loop'["ml"] = new
      /\ \A d \in Consumers : Command(d)' = Command(d)
      /\ \A d \in Consumers \ {"ml"} : loop'[d] = loop[d]
      /\ Delivering' /\ Serving'
  BY <1>1, <1>5, WriterGoesOn DEF Working
<1>7. Typed'
  <2>1. meant' \in Maps /\ overlap' \in BOOLEAN
    BY <1>1, <1>3, BeginsTyped
  <2> QED BY <1>1, <1>6, <2>1 DEF CommandsInv, Typed
<1>8. Locking'
  BY <1>1, <1>2, <1>4, <1>5, <1>6 DEF CommandsInv, Locking
<1>9. Changing'
  <2> SUFFICES ASSUME ~ overlap' PROVE Changing'
    BY DEF Changing
  <2>1. (\A d \in Consumers : ~ Writes(d)) /\ meant' = copy
    BY <1>1, BeginsAlone DEF Writes, copy
  <2>2. ~ Writes("tr")' /\ loop'["tr"].pc \notin {"write", "swap", "assign"}
    BY <1>6, <2>1 DEF Writes
  <2>3. Writes("ml")'
    BY <1>5, <1>6 DEF Writes
  <2> QED BY <1>1, <1>5, <1>6, <2>1, <2>2, <2>3 DEF Changing
<1> QED BY <1>6, <1>7, <1>8, <1>9 DEF CommandsInv

LEMMA SetAssignInv ==
  ASSUME CommandsInv, SetAssign
  PROVE  CommandsInv'
<1> DEFINE l == loop["ml"]
           new == [l EXCEPT !.pc = "range", !.map = Len(maps'), !.copy = None]
<1>1. /\ l.pc = "assign" /\ maps' = Append(maps, l.copy)
      /\ configs' = [configs EXCEPT ![l.cfg] = Len(maps')] /\ loop' = [loop EXCEPT !["ml"] = new]
      /\ UNCHANGED <<up, sent, fate, bot, lock, config, meant, overlap>>
  BY DEF SetAssign, Assigned
<1>2. l.cfg \in DOMAIN configs /\ l.copy \in Maps /\ maps \in Seq(Maps) /\ l \in Loops
  BY <1>1 DEF CommandsInv, Typed, Locking
<1>3. /\ maps' \in Seq(Maps) /\ Len(maps') = Len(maps) + 1 /\ Len(maps') \in DOMAIN maps'
      /\ maps'[Len(maps')] = l.copy /\ Len(maps') \in Nat
      /\ \A i \in DOMAIN maps : i \in DOMAIN maps' /\ maps'[i] = maps[i]
  BY <1>1, <1>2
<1>4. new \in Loops /\ new.id = l.id /\ new.pc = "range"
  BY <1>2, <1>3 DEF Loops, Stages
<1> HIDE DEF new
<1>5. /\ loop' \in [Consumers -> Loops] /\ loop'["ml"] = new
      /\ \A d \in Consumers : Command(d)' = Command(d)
      /\ \A d \in Consumers \ {"ml"} : loop'[d] = loop[d]
      /\ Delivering' /\ Serving'
  BY <1>1, <1>4, WriterGoesOn DEF Working
<1>6. /\ configs' \in Seq(Nat) /\ DOMAIN configs' = DOMAIN configs /\ configs'[l.cfg] = Len(maps')
      /\ \A i \in DOMAIN configs' : configs'[i] \in DOMAIN maps'
  <2>1. configs \in Seq(Nat) /\ \A i \in DOMAIN configs : configs[i] \in DOMAIN maps
    BY DEF CommandsInv, Typed
  <2> QED BY <1>1, <1>2, <1>3, <2>1
<1>7. Typed'
  BY <1>1, <1>3, <1>5, <1>6 DEF CommandsInv, Typed
<1>8. Locking'
  BY <1>1, <1>3, <1>4, <1>5 DEF CommandsInv, Locking
<1>9. Changing'
  <2> SUFFICES ASSUME ~ overlap PROVE Changing'
    BY <1>1 DEF Changing
  <2>1. l.cfg = config /\ l.copy = meant
    BY <1>1 DEF CommandsInv, Changing
  <2>2. Writes("ml") /\ ~ Writes("ml")'
    BY <1>1, <1>4, <1>5 DEF Writes
  <2>3. ~ Writes("tr") /\ ~ Writes("tr")'
    BY <1>5, <2>2 DEF CommandsInv, Changing, Writes
  <2> QED BY <1>1, <1>3, <1>6, <2>1, <2>2, <2>3 DEF Changing, Writes
<1> QED BY <1>5, <1>7, <1>8, <1>9 DEF CommandsInv

\* A step of the commands keeps their invariant.
LEMMA CommandsNextInv ==
  ASSUME CommandsInv, CommandsNext
  PROVE  CommandsInv'
<1>1. CASE \E m \in Messages : UserSends(m)
  BY <1>1, UserSendsInv
<1>2. CASE ListenToUpdates \/ Deliver \/ Drop
  BY <1>2, ListenToUpdatesInv, DeliverInv, DropInv
<1>3. CASE \E c \in Consumers : Serve(c)
  BY <1>3, ListenInv, ServeInv, EnableStartInv, EnableWriteInv, EnableSwapInv DEF Serve
<1>4. CASE AskConfig \/ AskedConfig \/ Set \/ Close
  BY <1>4, AsksInv
<1>5. CASE SetStart \/ SetAssign
  BY <1>5, SetStartInv, SetAssignInv
<1>6. CASE Train \/ Trained \/ Fatal
  BY <1>6, TrainInv
<1> QED BY <1>1, <1>2, <1>3, <1>4, <1>5, <1>6 DEF CommandsNext

-----------------------------------------------------------------------------
(* The routes.                                                             *)

Inside(route) == {r \in DOMAIN request : request[r].route = route /\ request[r].pc \in {"exec", "react"}}

RequestSet == [pc : {"new", "exec", "react", "done"}, route : DOMAIN controller \cup {NoRoute}, code : Nat]

\* The request a route let in is the only one in it.
WebInv ==
  /\ request \in [DOMAIN request -> RequestSet]
  /\ \A r \in DOMAIN request : request[r].pc \in {"exec", "react"} => request[r].route \in DOMAIN controller
  /\ controller \in [DOMAIN controller -> {"starting", "action", "reaction"}]
  /\ NoRoute \notin DOMAIN controller
  /\ \A route \in DOMAIN controller :
       IF controller[route] = "reaction" THEN \E r \in DOMAIN request : Inside(route) = {r}
       ELSE Inside(route) = {}

LEMMA ServerInitInv ==
  ASSUME NEW load \in Loads, ServerInit(load.requests, load.routes)
  PROVE  WebInv
<1>1. /\ request = [r \in load.requests |-> [pc |-> "new", route |-> NoRoute, code |-> 0]]
      /\ controller = [route \in load.routes |-> "starting"]
  BY DEF ServerInit
<1>2. \A route : Inside(route) = {}
  BY <1>1 DEF Inside
<1>3. DOMAIN controller = load.routes /\ NoRoute \notin load.routes /\ \A r \in DOMAIN request : request[r].pc = "new"
  BY <1>1
<1>4. request \in [DOMAIN request -> RequestSet]
  BY <1>1 DEF RequestSet
<1>5. controller \in [DOMAIN controller -> {"starting", "action", "reaction"}]
      /\ \A route \in DOMAIN controller : controller[route] # "reaction"
  BY <1>1
<1> QED BY <1>2, <1>3, <1>4, <1>5 DEF WebInv

\* One request goes elsewhere.
LEMMA RequestGoes ==
  ASSUME WebInv, NEW r \in DOMAIN request, NEW new \in RequestSet,
         request' = [request EXCEPT ![r] = new], DOMAIN controller' = DOMAIN controller
  PROVE  /\ DOMAIN request' = DOMAIN request /\ RequestSet' = RequestSet
         /\ request' \in [DOMAIN request' -> RequestSet']
         /\ request'[r] = new /\ \A q \in DOMAIN request \ {r} : request'[q] = request[q]
<1>1. RequestSet' = RequestSet
  BY DEF RequestSet
<1>2. request \in [DOMAIN request -> RequestSet]
  BY DEF WebInv
<1> QED BY <1>1, <1>2

\* A request that is in no route leaves the routes as they are.
LEMMA OutsideInv ==
  ASSUME WebInv, NEW r \in DOMAIN request, NEW new \in RequestSet,
         request' = [request EXCEPT ![r] = new], UNCHANGED controller,
         request[r].pc = "new", new.pc = "done"
  PROVE  WebInv'
<1>1. /\ DOMAIN request' = DOMAIN request /\ request' \in [DOMAIN request' -> RequestSet']
      /\ request'[r] = new /\ \A q \in DOMAIN request \ {r} : request'[q] = request[q]
  BY RequestGoes
<1>2. \A route : Inside(route)' = Inside(route)
  BY <1>1 DEF Inside
<1> QED BY <1>1, <1>2 DEF WebInv

\* What is in the request that changes.
LEMMA Requested ==
  ASSUME WebInv, NEW r \in DOMAIN request
  PROVE  request[r] \in RequestSet /\ request[r].route \in DOMAIN controller \cup {NoRoute}
         /\ request[r].code \in Nat
BY DEF WebInv, RequestSet

LEMMA EnterInv ==
  ASSUME WebInv, NEW r \in DOMAIN request, NEW route \in DOMAIN controller, Enter(r, route)
  PROVE  WebInv'
<1> DEFINE new == [request[r] EXCEPT !.pc = "exec", !.route = route]
<1>1. /\ request[r].pc = "new" /\ controller[route] = "action"
      /\ controller' = [controller EXCEPT ![route] = "reaction"]
  BY DEF Enter, Taken
<1>2. request' = [request EXCEPT ![r] = new]
  BY Requested DEF Enter, RequestSet, WebInv
<1>3. new \in RequestSet /\ new.pc = "exec" /\ new.route = route
  BY Requested DEF RequestSet
<1> HIDE DEF new
<1>4. DOMAIN controller' = DOMAIN controller
  BY <1>1
<1>5. /\ DOMAIN request' = DOMAIN request /\ request' \in [DOMAIN request' -> RequestSet']
      /\ request'[r] = new /\ \A q \in DOMAIN request \ {r} : request'[q] = request[q]
  BY <1>2, <1>3, <1>4, RequestGoes
<1>6. Inside(route) = {} /\ \A t \in DOMAIN controller : r \notin Inside(t)
  BY <1>1 DEF Inside, WebInv
<1>7. Inside(route)' = {r}
  BY <1>3, <1>5, <1>6 DEF Inside
<1>8. \A t \in DOMAIN controller \ {route} : Inside(t)' = Inside(t)
  BY <1>3, <1>5, <1>6 DEF Inside
<1>9. controller' \in [DOMAIN controller' -> {"starting", "action", "reaction"}]
  BY <1>1 DEF WebInv
<1>10. \A q \in DOMAIN request' : request'[q].pc \in {"exec", "react"} => request'[q].route \in DOMAIN controller'
  BY <1>3, <1>4, <1>5 DEF WebInv
<1>11. ASSUME NEW t \in DOMAIN controller'
       PROVE  IF controller'[t] = "reaction" THEN \E q \in DOMAIN request' : Inside(t)' = {q}
              ELSE Inside(t)' = {}
  <2>1. CASE t = route
    BY <1>1, <1>5, <1>7, <2>1 DEF WebInv
  <2>2. CASE t # route
    BY <1>1, <1>4, <1>5, <1>8, <2>2 DEF WebInv
  <2> QED BY <2>1, <2>2
<1> QED BY <1>4, <1>5, <1>9, <1>10, <1>11 DEF WebInv

LEMMA ExecInv ==
  ASSUME WebInv, NEW r \in DOMAIN request, Exec(r)
  PROVE  WebInv'
<1>1. PICK code \in Nat : request' = [request EXCEPT ![r].pc = "react", ![r].code = code]
  <2>1. ASSUME NEW route, NEW ret \in Returned(route) PROVE Answer(ret[1], ret[2]) \in Nat
    <3>1. \A n \in Nat : \A b \in BOOLEAN : <<n, b>>[1] \in Nat
      OBVIOUS
    <3>2. \E n \in Nat : \E b \in BOOLEAN : ret = <<n, b>>
      <4>1. \/ ret = <<0, FALSE>> \/ ret = <<0, TRUE>> \/ ret = <<400, TRUE>>
            \/ ret = <<400, FALSE>> \/ ret = <<200, FALSE>>
        BY Zenon DEF Returned, Live, Unread
      <4>2. 0 \in Nat /\ 200 \in Nat /\ 400 \in Nat /\ TRUE \in BOOLEAN /\ FALSE \in BOOLEAN
        OBVIOUS
      <4>3. ret = <<0, FALSE>> => \E n \in Nat : \E b \in BOOLEAN : ret = <<n, b>>
        BY ONLY <4>2, Zenon
      <4>4. ret = <<0, TRUE>> => \E n \in Nat : \E b \in BOOLEAN : ret = <<n, b>>
        BY ONLY <4>2, Zenon
      <4>5. ret = <<400, TRUE>> => \E n \in Nat : \E b \in BOOLEAN : ret = <<n, b>>
        BY ONLY <4>2, Zenon
      <4>6. ret = <<400, FALSE>> => \E n \in Nat : \E b \in BOOLEAN : ret = <<n, b>>
        BY ONLY <4>2, Zenon
      <4>7. ret = <<200, FALSE>> => \E n \in Nat : \E b \in BOOLEAN : ret = <<n, b>>
        BY ONLY <4>2, Zenon
      <4> QED BY ONLY <4>1, <4>3, <4>4, <4>5, <4>6, <4>7, Zenon
    <3>3. ret[1] \in Nat
      BY <3>1, <3>2, Zenon
    <3> QED BY <3>3 DEF Answer
  <2>2. CASE \E ret \in Returned(request[r].route) :
               LET code == Answer(ret[1], ret[2]) IN Goes(r, Reaction(code), code)
    <3>1. PICK ret \in Returned(request[r].route) :
            Goes(r, "react", Answer(ret[1], ret[2]))
      BY <2>2 DEF Reaction
    <3>2. Answer(ret[1], ret[2]) \in Nat
      BY <2>1
    <3> QED BY <3>1, <3>2 DEF Goes
  <2>3. CASE Goes(r, Reaction(0), 0)
    BY <2>3 DEF Goes, Reaction
  <2> QED BY <2>2, <2>3 DEF Exec
<1> DEFINE new == [request[r] EXCEPT !.pc = "react", !.code = code]
<1>2. request' = [request EXCEPT ![r] = new] /\ request[r].pc = "exec" /\ UNCHANGED controller
  BY <1>1, Requested DEF WebInv, Exec, RequestSet
<1>3. new \in RequestSet /\ new.pc = "react" /\ new.route = request[r].route
  BY Requested DEF RequestSet
<1> HIDE DEF new
<1>4. /\ DOMAIN request' = DOMAIN request /\ request' \in [DOMAIN request' -> RequestSet']
      /\ request'[r] = new /\ \A q \in DOMAIN request \ {r} : request'[q] = request[q]
  BY <1>2, <1>3, RequestGoes
<1>5. \A t : Inside(t)' = Inside(t)
  BY <1>2, <1>3, <1>4 DEF Inside
<1> QED BY <1>2, <1>3, <1>4, <1>5 DEF WebInv

LEMMA ReactInv ==
  ASSUME WebInv, NEW r \in DOMAIN request, React(r)
  PROVE  WebInv'
<1> PICK route : route = request[r].route
  OBVIOUS
<1> DEFINE new == [request[r] EXCEPT !.pc = "done"]
<1>1. /\ request[r].pc = "react" /\ controller[route] = "reaction"
      /\ controller' = [controller EXCEPT ![route] = "starting"]
  BY DEF React
<1>2. request' = [request EXCEPT ![r] = new]
  BY Requested DEF React, RequestSet, WebInv
<1>3. new \in RequestSet /\ new.pc = "done"
  BY Requested DEF RequestSet
<1> HIDE DEF new
<1>4. DOMAIN controller' = DOMAIN controller /\ route \in DOMAIN controller
  BY <1>1 DEF WebInv
<1>5. /\ DOMAIN request' = DOMAIN request /\ request' \in [DOMAIN request' -> RequestSet']
      /\ request'[r] = new /\ \A q \in DOMAIN request \ {r} : request'[q] = request[q]
  BY <1>2, <1>3, <1>4, RequestGoes
<1>6. Inside(route) = {r}
  BY <1>1, <1>4 DEF Inside, WebInv
<1>7. Inside(route)' = {}
  BY <1>3, <1>5, <1>6 DEF Inside
<1>8. \A t \in DOMAIN controller \ {route} : Inside(t)' = Inside(t)
  BY <1>1, <1>3, <1>5 DEF Inside
<1>9. controller' \in [DOMAIN controller' -> {"starting", "action", "reaction"}]
  BY <1>1 DEF WebInv
<1>10. \A q \in DOMAIN request' : request'[q].pc \in {"exec", "react"} => request'[q].route \in DOMAIN controller'
  BY <1>3, <1>4, <1>5 DEF WebInv
<1>11. ASSUME NEW t \in DOMAIN controller'
       PROVE  IF controller'[t] = "reaction" THEN \E q \in DOMAIN request' : Inside(t)' = {q}
              ELSE Inside(t)' = {}
  <2>1. CASE t = route
    BY <1>1, <1>4, <1>7, <2>1 DEF WebInv
  <2>2. CASE t # route
    BY <1>1, <1>4, <1>5, <1>8, <2>2 DEF WebInv
  <2> QED BY <2>1, <2>2
<1> QED BY <1>4, <1>5, <1>9, <1>10, <1>11 DEF WebInv

LEMMA ServerNextInv ==
  ASSUME WebInv, ServerNext
  PROVE  WebInv'
<1>1. ASSUME NEW route \in DOMAIN controller, Ready(route) PROVE WebInv'
  <2>1. /\ controller[route] = "starting" /\ controller' = [controller EXCEPT ![route] = "action"]
        /\ UNCHANGED request
    BY <1>1 DEF Ready
  <2>2. (\A t : Inside(t)' = Inside(t)) /\ RequestSet' = RequestSet
    BY <2>1 DEF Inside, RequestSet
  <2> QED BY <2>1, <2>2 DEF WebInv
<1>2. ASSUME NEW r \in DOMAIN request, NEW route \in DOMAIN controller, Busy(r, route)
      PROVE  WebInv'
  <2> DEFINE new == [pc |-> "done", route |-> route, code |-> 500]
  <2>1. new \in RequestSet /\ new.pc = "done"
    BY <1>2 DEF RequestSet
  <2>2. request[r].pc = "new" /\ request' = [request EXCEPT ![r] = new] /\ UNCHANGED controller
    BY <1>2 DEF Busy
  <2> HIDE DEF new
  <2> QED BY <1>2, <2>1, <2>2, OutsideInv
<1>3. ASSUME NEW r \in DOMAIN request, OtherMethod(r) PROVE WebInv'
  <2>1. PICK code \in {200, 501} : request' = [request EXCEPT ![r].pc = "done", ![r].code = code]
    BY <1>3 DEF OtherMethod, Goes
  <2> DEFINE new == [request[r] EXCEPT !.pc = "done", !.code = code]
  <2>2. new \in RequestSet /\ new.pc = "done"
    <3>1. code \in Nat /\ request[r] \in RequestSet
      BY <1>3, Requested
    <3> QED BY <3>1 DEF RequestSet
  <2>3. request' = [request EXCEPT ![r] = new]
    <3>1. request[r] \in RequestSet
      BY <1>3, Requested
    <3> QED BY <2>1, <3>1 DEF RequestSet
  <2> HIDE DEF new
  <2> QED BY <1>3, <2>2, <2>3, OutsideInv DEF OtherMethod
<1> QED BY <1>1, <1>2, <1>3, EnterInv, ExecInv, ReactInv DEF ServerNext, Handle

-----------------------------------------------------------------------------
(* Both.                                                                   *)

IInv == CommandsInv /\ WebInv

LEMMA InitInv == Init => IInv
BY CommandsInitInv, ServerInitInv DEF Init, IInv

LEMMA NextInv == IInv /\ [Next]_vars => IInv'
<1> SUFFICES ASSUME IInv, [Next]_vars PROVE IInv'
  OBVIOUS
<1>1. ASSUME UNCHANGED commands PROVE CommandsInv'
  <2>1. UNCHANGED <<up, sent, fate, bot, loop, strategy>> /\ \A c \in Consumers : Command(c)' = Command(c)
    BY <1>1 DEF commands, Command
  <2>2. QuietLoops
    BY <2>1 DEF QuietLoops
  <2>3. Typed' /\ Delivering' /\ Serving'
    BY <2>1 DEF IInv, CommandsInv, Typed, Delivering, Serving, strategy
  <2> QED BY <2>1, <2>2, <2>3, QuietStep DEF IInv, CommandsInv
<1>2. ASSUME UNCHANGED web PROVE WebInv'
  BY <1>2 DEF IInv, WebInv, web, Inside, RequestSet
<1>3. CASE CommandsNext /\ UNCHANGED web
  BY <1>2, <1>3, CommandsNextInv DEF IInv
<1>4. CASE ServerNext /\ UNCHANGED commands
  BY <1>1, <1>4, ServerNextInv DEF IInv
<1>5. CASE UNCHANGED vars
  BY <1>1, <1>2, <1>5 DEF vars, IInv
<1> QED BY <1>3, <1>4, <1>5 DEF Next

LEMMA InvType == IInv => TypeOK
<1> SUFFICES ASSUME IInv PROVE TypeOK
  OBVIOUS
<1>1. /\ up \in BOOLEAN /\ overlap \in BOOLEAN
      /\ sent \in Seq(Messages) /\ fate \in Seq(Fates) /\ Len(fate) = Len(sent)
      /\ bot.read \in 0 .. Len(sent) /\ bot.delivers \in BOOLEAN
      /\ config \in DOMAIN configs /\ \A i \in DOMAIN configs : configs[i] \in DOMAIN maps
  BY DEF IInv, CommandsInv, Typed
<1>2. \A c \in Consumers : loop[c].pc \in Stages /\ loop[c].id \in 0 .. bot.read
  BY DEF IInv, CommandsInv, Typed, Serving, Loops
<1>3. \A c \in Consumers : loop[c].pc \in {"write", "swap"} <=> lock = c
  BY DEF IInv, CommandsInv, Locking
<1>4. \A c \in Consumers : loop[c].pc \in {"run", "write", "swap", "assign", "range", "reply"}
        => /\ Command(c).to = c /\ fate[loop[c].id] = "sent"
           /\ ~ (bot.delivers /\ bot.read = loop[c].id)
  BY DEF IInv, CommandsInv, Serving, Working
<1>5. \A route \in DOMAIN controller :
        Cardinality(Inside(route)) = IF controller[route] = "reaction" THEN 1 ELSE 0
  BY FS_EmptySet, FS_Singleton DEF IInv, WebInv
<1> QED BY <1>1, <1>2, <1>3, <1>4, <1>5 DEF TypeOK, Inside

\* Types, exclusion and the discipline of the two loops: a command is served by one
\* loop at a time and answered once, the lock is held by the loop that writes, a
\* route serves one request at a time (trackUserActions, Strategy, server.handle),
\* for every set of messages, coins, requests and routes.
THEOREM TypeCorrect == Spec => []TypeOK
<1>1. Spec => []IInv
  BY InitInv, NextInv, PTL DEF Spec
<1> QED BY <1>1, InvType, PTL

\* A change of the configuration that was made alone holds: neither the swap of the
\* pointer in EnableML and EnableTrader nor the copy of the map in SetGap and
\* SetPrecisionThreshold loses it, for every sequence of commands.
THEOREM UpdatesCorrect == Spec => []UpdatesKept
<1>1. Spec => []IInv
  BY InitInv, NextInv, PTL DEF Spec
<1>2. IInv => UpdatesKept
  BY DEF IInv, CommandsInv, Changing, UpdatesKept
<1> QED BY <1>1, <1>2, PTL
=============================================================================
