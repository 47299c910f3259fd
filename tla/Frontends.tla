------------------------------ MODULE Frontends -----------------------------
(***************************************************************************)
(* The two ways into the process from outside: the commands of the user    *)
(* and the HTTP server.  They share the process: what ends it for one ends *)
(* it for the other.                                                       *)
(***************************************************************************)
EXTENDS Commands, Server, FiniteSets

CONSTANT Loads  \* how many messages of which kinds, and which requests to which routes

ASSUME LoadsAssumption == \A load \in Loads :
  load.messages \in Nat /\ load.kinds \subseteq Messages /\ NoRoute \notin load.routes

vars == <<commands, web>>

Routes == UNION {load.routes : load \in Loads}
Requests == UNION {load.requests : load \in Loads}
Ids == UNION {1 .. load.messages : load \in Loads}

Init == \E load \in Loads :
  CommandsInit(load.messages, load.kinds) /\ ServerInit(load.requests, load.routes)

Next == \/ CommandsNext /\ UNCHANGED web
        \/ up /\ ServerNext /\ UNCHANGED commands

\* The goroutines run when they can; a handler returns.
Fairness ==
  /\ WF_vars(ListenToUpdates /\ UNCHANGED web)
  /\ WF_vars((Deliver \/ Drop) /\ UNCHANGED web)
  /\ \A c \in Consumers : WF_vars(Serve(c) /\ UNCHANGED web)
  /\ WF_vars((Set \/ Close) /\ UNCHANGED web)
  /\ WF_vars((AskConfig \/ AskedConfig \/ SetStart \/ SetAssign) /\ UNCHANGED web)
  /\ \A route \in Routes : WF_vars(up /\ route \in DOMAIN controller /\ Ready(route)
                                  /\ UNCHANGED commands)
  /\ \A r \in Requests : WF_vars(up /\ r \in DOMAIN request /\ (Exec(r) \/ React(r))
                                 /\ UNCHANGED commands)

Spec == Init /\ [][Next]_vars /\ Fairness

Fates == {"sent", "answered", "mute", "ignored", "dropped", "lost"}
Stages == {"starting", "receive", "run", "range", "reply", "write", "swap", "assign", "ended"}

\* Types; and a route serves one request at a time, its controller waiting for the
\* end of the one it let in; a loop serves one command, which the bot no longer
\* delivers; the lock of the strategy is held by the loop that writes.
TypeOK ==
  /\ up \in BOOLEAN /\ overlap \in BOOLEAN
  /\ sent \in Seq(Messages) /\ fate \in Seq(Fates) /\ Len(fate) = Len(sent)
  /\ bot.read \in 0 .. Len(sent) /\ bot.delivers \in BOOLEAN
  /\ \A c \in Consumers : loop[c].pc \in Stages /\ loop[c].id \in 0 .. bot.read
  /\ config \in DOMAIN configs /\ \A i \in DOMAIN configs : configs[i] \in DOMAIN maps
  /\ \A c \in Consumers : loop[c].pc \in {"write", "swap"} <=> lock = c
  /\ \A c \in Consumers : loop[c].pc \in {"run", "write", "swap", "assign", "range", "reply"}
       => /\ Command(c).to = c /\ fate[loop[c].id] = "sent"
          /\ ~ (bot.delivers /\ bot.read = loop[c].id)
  /\ \A route \in DOMAIN controller :
       Cardinality({r \in DOMAIN request : request[r].route = route /\ request[r].pc \in {"exec", "react"}})
         = IF controller[route] = "reaction" THEN 1 ELSE 0

\* Every change of the segments that was answered holds, the last one for each
\* field, as long as no two commands that change segments ran at the same time:
\* the swap of the pointer and the copy of the map lose nothing by themselves.
\* When two such commands overlap, one of them is lost.
UpdatesKept ==
  up /\ ~ overlap /\ (\A c \in Consumers : ~ Writes(c)) => maps[configs[config]] = meant

\* Every command ends: it is answered, or nobody listens to it, or it is dropped
\* because its consumer is busy with another; unless the process ends.
CommandsEnd == \A id \in Ids :
  (id \in DOMAIN sent) ~>
    (~ up \/ (id \in DOMAIN fate /\ fate[id] \in {"answered", "mute", "ignored", "dropped"}))

\* A route does not stay taken: whatever its handler does, also when it panics, its
\* controller is ready for the next request again.
RouteFree == \A route \in Routes :
  (route \in DOMAIN controller)
    ~> (up /\ route \in DOMAIN controller => controller[route] = "action")
=============================================================================
