------------------------------ MODULE MCFrontends ---------------------------
(* Instances of Frontends for TLC.                                         *)
EXTENDS Frontends

CONSTANTS c1, c2

\* No number, one, and what is none.
Numbers == {None, <<>>, <<1>>}

To(to, action, coin, value) == [to |-> to, action |-> action, coin |-> coin, value |-> value]

\* Flags from both loops, for one coin and for all, and a copy of the map.
Changes == {To("tr", "start", c1, <<>>), To("ml", "stop", AllCoins, <<>>), To("ml", "gap", c1, <<1>>)}

\* Settings, queries, the close command, one that is not valid, a reply, small talk.
Others == {To("tr", "log", c1, <<>>), To("tr", "close", c1, <<>>), To("tr", "wallet", AllCoins, <<>>),
           To("ml", "cfg", c1, <<>>), To("ml", "bogus", c1, <<>>), To("reply", "", c1, <<>>),
           To("nobody", "", c1, <<>>), To("tr", "ov", c1, <<>>), To("tr", "sl", c1, None)}

Several == Changes \cup Others

\* Three changes; two commands of any kind; one of them with a request; requests alone.
FourLoads ==
  {[messages |-> 3, kinds |-> Changes, requests |-> {}, routes |-> {}],
   [messages |-> 2, kinds |-> Several, requests |-> {}, routes |-> {}],
   [messages |-> 1, kinds |-> Several, requests |-> {"r1"}, routes |-> {"POST_annotations"}],
   [messages |-> 0, kinds |-> {}, requests |-> {"r1", "r2", "r3"}, routes |-> {"GET_", "POST_query"}]}
=============================================================================
