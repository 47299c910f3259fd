------------------------------ MODULE Commands ------------------------------
(***************************************************************************)
(* Commands of the user: the telegram bot, the two loops that serve them   *)
(* (trackUserActions of the trade and of the ml processor) and the         *)
(* configuration they change.                                              *)
(*                                                                         *)
(*   telegram -> listenToUpdates -> "tr" -> Strategy.EnableTrader, wallet  *)
(*                            `---> "ml" -> Strategy.EnableML, SetGap, ... *)
(*                                                                         *)
(* The configuration is a pointer to a struct that refers to a map of      *)
(* segments.  EnableML and EnableTrader hold the lock of the strategy,     *)
(* write into the map and then swap the pointer for a new struct with the  *)
(* same map; SetGap and SetPrecisionThreshold hold no lock, copy the map   *)
(* and put the copy into the struct they started from.  The trainer ranges *)
(* over the map without a lock.  Ranging over a map while another          *)
(* goroutine writes it may end the process.  There is one segment per      *)
(* coin; closing and what it does to the wallet is module ExchangeTrader.  *)
(***************************************************************************)
EXTENDS Integers, Sequences

CONSTANTS
  Coins,        \* coins with a segment
  AllCoins,
  Values,       \* what a user may send for a number: none, one, or no number
  Messages,     \* what users may send
  None          \* no number; nobody

Consumers == {"tr", "ml"}
Fields == {"ml", "trader", "gap", "prec"}
Actions == [tr |-> {"start", "stop", "close", "pos", "tp", "sl", "ov", "cfg", "wallet", "gap",
                    "prec", "ds", "stats", "log", ""},
            ml |-> {"start", "stop", "cfg", "gap", "prec", "ds", ""}]

ASSUME CommandsAssumption ==
  /\ AllCoins \notin Coins /\ None \notin Coins \cup Consumers
  /\ \A v \in Values \ {None} : v \in Seq(Nat) /\ Len(v) <= 1
  /\ Messages \subseteq [to : Consumers \cup {"reply", "nobody"}, action : STRING,
                         coin : Coins \cup {AllCoins}, value : Values]

VARIABLES
  most,      \* bound on the messages users send and on which, fixed at the start
  up,        \* the process runs
  sent,      \* the messages users sent
  fate,      \* what became of each
  bot,       \* listenToUpdates: how many it has read, and whether it delivers
  loop,      \* per consumer, the goroutine of trackUserActions
  lock,      \* Strategy.lock
  config,    \* Strategy.config: which struct
  configs,   \* the structs: which map of segments each refers to
  maps,      \* the maps of segments
  ranged,    \* the map the trainer ranges over
  settings,  \* ExchangeTrader.settings
  meant,     \* ghost: the segments after every command that changes them
  overlap    \* ghost: two commands that change segments ran at the same time

strategy == <<lock, config, configs, maps, meant, overlap>>
commands == <<most, up, sent, fate, bot, loop, strategy, ranged, settings>>

Resting == [pc |-> "receive", id |-> 0, cfg |-> 0, map |-> 0, copy |-> None]

\* ForCoin: a segment of a coin, whose gap is in tenths of a percent.  The
\* trader is off until a user starts it, whatever live says.
ForCoin(live) == [ml |-> live, trader |-> FALSE, gap |-> 5, prec |-> 0]

\* CoinConfig: the segments of the coins, and the settings of the wallet.
CoinConfig(segments) == [segments |-> segments, position |-> [ov |-> 100, sl |-> 2, tp |-> 2]]

\* WithConfig
WithConfig(live) == CoinConfig([c \in DOMAIN live |-> ForCoin(live[c])])

\* free-coin is configured with every coin live.
Initial == WithConfig([c \in Coins |-> TRUE])

CommandsInit(messages, kinds) ==
  /\ most = [messages |-> messages, kinds |-> kinds]
  /\ up = TRUE
  /\ sent = <<>> /\ fate = <<>>
  /\ bot = [read |-> 0, delivers |-> FALSE]
  /\ loop = [c \in Consumers |-> [Resting EXCEPT !.pc = "starting"]]
  /\ lock = None
  /\ config = 1 /\ configs = <<1>> /\ maps = <<Initial.segments>>
  /\ ranged = 0
  /\ settings = Initial.position
  /\ meant = maps[1] /\ overlap = FALSE

(***************************************************************************)
(* The bot                                                                 *)
(***************************************************************************)
UserSends(m) == /\ up /\ Len(sent) < most.messages /\ m \in most.kinds
                /\ sent' = Append(sent, m)
                /\ fate' = Append(fate, "sent")
                /\ UNCHANGED <<most, up, bot, loop, strategy, ranged, settings>>

\* Bot.Listen waits for the lock of the bot, which is held while it delivers.
Listen(c) == /\ up /\ loop[c].pc = "starting" /\ ~ bot.delivers
             /\ loop' = [loop EXCEPT ![c] = Resting]
             /\ UNCHANGED <<most, up, sent, fate, bot, strategy, ranged, settings>>

\* Bot.Send: that a message could not be created or sent is only logged.
SendFates == {"answered", "mute"}
Send(id) == fate' \in {[fate EXCEPT ![id] = f] : f \in SendFates}

\* execute: the trigger of a reply has expired, no message is ever remembered.
Execute(id) == Send(id)

ListenToUpdates ==
  LET id == bot.read + 1
      to == sent[id].to
      listening == to \in Consumers /\ loop[to].pc # "starting"
  IN  /\ up /\ ~ bot.delivers /\ bot.read < Len(sent)
      /\ bot' = [read |-> id, delivers |-> listening]
      /\ IF to = "reply" THEN Execute(id)
         ELSE fate' = [fate EXCEPT ![id] = IF listening THEN "sent" ELSE "ignored"]
      /\ UNCHANGED <<most, up, sent, loop, strategy, ranged, settings>>

Deliver == LET to == sent[bot.read].to
           IN  /\ up /\ bot.delivers /\ loop[to].pc = "receive"
               /\ bot' = [bot EXCEPT !.delivers = FALSE]
               /\ loop' = [loop EXCEPT ![to] = [@ EXCEPT !.pc = "run", !.id = bot.read]]
               /\ UNCHANGED <<most, up, sent, fate, strategy, ranged, settings>>

\* The consumer did not receive within a second: a warning is logged.
Drop == LET to == sent[bot.read].to
        IN  /\ up /\ bot.delivers /\ loop[to].pc # "receive"
            /\ bot' = [bot EXCEPT !.delivers = FALSE]
            /\ fate' = [fate EXCEPT ![bot.read] =
                          IF loop[to].pc = "ended" THEN "lost" ELSE "dropped"]
            /\ UNCHANGED <<most, up, sent, loop, strategy, ranged, settings>>

(***************************************************************************)
(* trackUserActions                                                        *)
(***************************************************************************)
Command(c) == sent[loop[c].id]

\* OneOf and Float.  What is missing is the number zero.
OneOf(c, action) == action \in Actions[c]
IsFloat(x) == x # None
Float(x) == IF x = <<>> THEN 0 ELSE x[1]

\* Validate: any user, any coin; an unknown word is like an unknown action.
Validate(c, command) == OneOf(c, command.action) /\ IsFloat(command.value)

Running(c, actions) ==
  up /\ loop[c].pc = "run" /\ Validate(c, Command(c)) /\ Command(c).action \in actions
Goto(c, pc) == loop' = [loop EXCEPT ![c].pc = pc]

\* Leave the loop after an error.
LoopAfterErrorEnded(c) == [loop EXCEPT ![c].pc = "ended"]

\* continue
LoopAfterError(c) == [loop EXCEPT ![c] = Resting]

\* The error is the reply.
Invalid(c) == /\ up /\ loop[c].pc = "run" /\ ~ Validate(c, Command(c))
              /\ Send(loop[c].id)
              /\ loop' = LoopAfterError(c)
              /\ UNCHANGED <<most, up, sent, bot, strategy, ranged, settings>>

\* Queries of the wallet and of one data set, and actions that do nothing.
Asks == [tr |-> {"pos", "wallet", "stats", "cfg", "gap", "prec", "ds", ""}, ml |-> {"ds", ""}]

Ask(c) == /\ Running(c, Asks[c])
          /\ Goto(c, "reply")
          /\ UNCHANGED <<most, up, sent, fate, bot, strategy, ranged, settings>>

\* Queries of the configuration, and of all data sets, range over the segments.
AskConfig == /\ Running("ml", {"cfg", "ds"})
             /\ loop' = [loop EXCEPT !["ml"].pc = "range", !["ml"].map = configs[config]]
             /\ UNCHANGED <<most, up, sent, fate, bot, strategy, ranged, settings>>

AskedConfig == /\ up /\ loop["ml"].pc = "range"
               /\ Goto("ml", "reply")
               /\ UNCHANGED <<most, up, sent, fate, bot, strategy, ranged, settings>>

\* log does what tp does.
Setting == [log |-> "tp", tp |-> "tp", sl |-> "sl", ov |-> "ov"]

Set == /\ Running("tr", DOMAIN Setting)
       /\ settings' = [settings EXCEPT ![Setting[Command("tr").action]] = Float(Command("tr").value)]
       /\ Goto("tr", "reply")
       /\ UNCHANGED <<most, up, sent, fate, bot, strategy, ranged>>

\* The close command may end the process (ExchangeTrader!UserPanic).
Close == /\ Running("tr", {"close"})
         /\ up' \in BOOLEAN
         /\ Goto("tr", "reply")
         /\ UNCHANGED <<most, sent, fate, bot, strategy, ranged, settings>>

Reply(c) == /\ up /\ loop[c].pc = "reply"
            /\ Send(loop[c].id)
            /\ loop' = [loop EXCEPT ![c] = Resting]
            /\ UNCHANGED <<most, up, sent, bot, strategy, ranged, settings>>

(***************************************************************************)
(* Strategy                                                                *)
(***************************************************************************)
Changed(segments, coin, field, value) == [k \in Coins |->
  IF coin \in {AllCoins, k} THEN [segments[k] EXCEPT ![field] = value] ELSE segments[k]]

Writes(c) == loop[c].pc \in {"write", "swap", "assign"}

\* The segments of a coin are taken from one map and put into another.
Enabled(into, from, coin, field, value) == [k \in Coins |->
  IF coin \in {AllCoins, k} THEN [from[k] EXCEPT ![field] = value] ELSE into[k]]

Begins(c, field, value) ==
  /\ meant' = Changed(meant, Command(c).coin, field, value)
  /\ overlap' = (overlap \/ \E d \in Consumers \ {c} : Writes(d))

Flag == [tr |-> "trader", ml |-> "ml"]
On(c) == Command(c).action = "start"

\* EnableTrader and EnableML: a new struct with the same map ...
EnableStart(c) == /\ Running(c, {"start", "stop"}) /\ lock = None
                  /\ lock' = c
                  /\ loop' = [loop EXCEPT ![c].pc = "write", ![c].map = configs[config]]
                  /\ Begins(c, Flag[c], On(c))
                  /\ UNCHANGED <<most, up, sent, fate, bot, config, configs, maps, ranged, settings>>

\* ... the flags in the map, read from the one the strategy has now ...
EnableWrite(c) == /\ up /\ loop[c].pc = "write"
                  /\ maps' = [maps EXCEPT ![loop[c].map] =
                       Enabled(@, maps[configs[config]], Command(c).coin, Flag[c], On(c))]
                  /\ Goto(c, "swap")
                  /\ UNCHANGED <<most, up, sent, fate, bot, lock, config, configs, ranged,
                                 settings, meant, overlap>>

\* ... and the pointer.
EnableSwap(c) == /\ up /\ loop[c].pc = "swap"
                 /\ configs' = Append(configs, loop[c].map)
                 /\ config' = Len(configs')
                 /\ lock' = None
                 /\ Goto(c, "reply")
                 /\ UNCHANGED <<most, up, sent, fate, bot, maps, ranged, settings, meant, overlap>>

\* SetGap and SetPrecisionThreshold: a changed copy of the map ...
SetStart == LET command == Command("ml")
            IN  /\ Running("ml", {"gap", "prec"})
                /\ loop' = [loop EXCEPT !["ml"] =
                     [@ EXCEPT !.pc = "assign", !.cfg = config, !.map = configs[config],
                               !.copy = Changed(maps[configs[config]], command.coin,
                                                command.action, Float(command.value))]]
                /\ Begins("ml", command.action, Float(command.value))
                /\ UNCHANGED <<most, up, sent, fate, bot, lock, config, configs, maps, ranged,
                               settings>>

\* The receiver is a copy of the struct.
AssignedToCopy(cfg, map) == configs

\* ... in the struct it was read from; the reply lists the segments.
Assigned(cfg, map) == [configs EXCEPT ![cfg] = map]

SetAssign == /\ up /\ loop["ml"].pc = "assign"
             /\ maps' = Append(maps, loop["ml"].copy)
             /\ configs' = Assigned(loop["ml"].cfg, Len(maps'))
             /\ loop' = [loop EXCEPT !["ml"] = [@ EXCEPT !.pc = "range", !.map = Len(maps'),
                                                        !.copy = None]]
             /\ UNCHANGED <<most, up, sent, fate, bot, lock, config, ranged, settings, meant, overlap>>

\* The trainer copies the struct and ranges over its segments for every vector.
Train == /\ up /\ ranged = 0
         /\ ranged' = configs[config]
         /\ UNCHANGED <<most, up, sent, fate, bot, loop, strategy, settings>>

Trained == /\ up /\ ranged # 0
           /\ ranged' = 0
           /\ UNCHANGED <<most, up, sent, fate, bot, loop, strategy, settings>>

\* fatal error: concurrent map iteration and map write
RangedOver == {ranged} \cup {loop[c].map : c \in {d \in Consumers : loop[d].pc \in {"assign", "range"}}}
Written == {loop[c].map : c \in {d \in Consumers : loop[d].pc = "write"}}

Fatal == /\ up /\ RangedOver \cap Written # {}
         /\ up' = FALSE
         /\ UNCHANGED <<most, sent, fate, bot, loop, strategy, ranged, settings>>

Serve(c) == Listen(c) \/ Invalid(c) \/ Ask(c) \/ EnableStart(c) \/ EnableWrite(c) \/ EnableSwap(c) \/ Reply(c)

CommandsNext ==
  \/ \E m \in Messages : UserSends(m)
  \/ ListenToUpdates \/ Deliver \/ Drop
  \/ \E c \in Consumers : Serve(c)
  \/ AskConfig \/ AskedConfig \/ Set \/ Close \/ SetStart \/ SetAssign
  \/ Train \/ Trained \/ Fatal
=============================================================================
