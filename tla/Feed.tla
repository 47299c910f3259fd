-------------------------------- MODULE Feed --------------------------------
(***************************************************************************)
(* The polled feed of past trades and what becomes of it:                  *)
(*                                                                         *)
(*   exchange -> execute -> controller -> History -> consumer              *)
(*                              ^            |          |                  *)
(*                              |         registry      |                  *)
(*                              +------ process --------+                  *)
(*                                                                         *)
(* execute and controller are the goroutines of kraken.Client when it does *)
(* not use the socket, History the goroutine of client/history that stores *)
(* what passes through, the consumer the batch processor of                *)
(* processor/history.go.  Every channel is a rendezvous.  The process may  *)
(* end at any time and is started again from the same Since; the registry  *)
(* and the batch files survive.  A record may not be written, or in part.  *)
(* Time is in hours; trade n of coin c happens at Times[c][n].            *)
(***************************************************************************)
EXTENDS Registry

CONSTANTS
  Coins,       \* the coins of the client, a sequence
  Times,       \* per coin, the times of its trades
  Limits,      \* limits of api.Counter, 0 for NonStop
  BatchCap,    \* most trades of one response
  FileSize,    \* trades of a batch file
  MaxRuns,     \* bound on the starts of the process
  MaxFaults,   \* bound on the records that are not written
  Requests,    \* from and to of history.Request and of Ranges
  None

CoinSet == {Coins[i] : i \in DOMAIN Coins}
Trade == UNION {[coin : {c}, n : DOMAIN Times[c]] : c \in CoinSet}
Time(t) == Times[t.coin][t.n]
\* genericKeyingFunc: a label for every four hours.
Key(t) == Time(t) \div 4
DeKey(label) == 4 * label

ASSUME FeedAssumption ==
  /\ Coins \in Seq(CoinSet) /\ Coins # <<>>
  /\ \A i, j \in DOMAIN Coins : Coins[i] = Coins[j] => i = j
  /\ \A c \in CoinSet : Times[c] \in Seq(Nat)
  /\ \A c \in CoinSet : \A i, j \in DOMAIN Times[c] : i < j => Times[c][i] < Times[c][j]
  /\ BatchCap \in Nat \ {0} /\ FileSize \in Nat \ {0}
  /\ Limits \subseteq Nat /\ MaxRuns \in Nat \ {0} /\ MaxFaults \in Nat
  /\ Requests \subseteq Nat \X Nat
  /\ None \notin Trade /\ Undecodable \cap Trade = {}

VARIABLES
  source,   \* "remote" or "mock", and the files of the mock served per coin
  market,   \* per coin, how many trades happened
  since,    \* kraken.Client.since
  poller,   \* execute: which coin, and what it still has to send
  control,  \* controller: the trade it holds, current, and the stop condition
  history,  \* the goroutine of History
  trades,   \* trades of the batch that is being filled
  run,      \* hash of the registry: when the process started
  files,    \* the registry on disk
  batches,  \* the files written by the batch processor
  faults,
  seen,     \* ghost: what the consumer received in this run
  unstored  \* ghost: trades whose record was not written

goroutines == <<since, poller, control, history, trades>>
vars == <<source, market, goroutines, run, files, batches, faults, seen, unstored>>

Idle(i) == [turn |-> i, pc |-> "wait", batch |-> <<>>, index |-> 0]
Fresh == [pc |-> "in", trade |-> None]

Init == /\ source \in [kind : {"remote", "mock"}, served : {[c \in CoinSet |-> 0]}]
        /\ market = [c \in CoinSet |-> IF source.kind = "mock" THEN Len(Times[c]) ELSE 0]
        /\ since = [c \in CoinSet |-> 0]
        /\ poller = Idle(1)
        /\ control \in [pc : {"input"}, trade : {None}, current : {0}, limit : Limits]
        /\ history = Fresh
        /\ trades = <<>>
        /\ run = 1
        /\ files = NoFiles
        /\ batches = NoFiles
        /\ faults = 0
        /\ seen = <<>>
        /\ unstored = {}

(***************************************************************************)
(* The exchange and the mock source                                        *)
(***************************************************************************)
Happens(c) == /\ market[c] < Len(Times[c])
              /\ market' = [market EXCEPT ![c] = @ + 1]
              /\ UNCHANGED <<source, goroutines, run, files, batches, faults, seen, unstored>>

Upto(a, b) == IF a < b THEN a ELSE b

\* The exchange answers with trades after since, the mock with its next file.
From(c) == IF source.kind = "remote" THEN since[c] ELSE source.served[c] * BatchCap

Reach(c) == IF From(c) + BatchCap < market[c] THEN From(c) + BatchCap ELSE market[c]

Response(c) == [i \in 1 .. Reach(c) - From(c) |-> [coin |-> c, n |-> From(c) + i]]

\* The index of a full response, whatever the response holds.
IndexOfFull(c) == From(c) + BatchCap

\* response.Last.
Index(c) == Reach(c)

Exhausted(c) == source.kind = "mock" /\ source.served[c] * BatchCap >= market[c]

(***************************************************************************)
(* execute                                                                 *)
(***************************************************************************)
Turn(i) == IF i >= Len(Coins) THEN 1 ELSE i + 1

\* No timer is set when the request fails.
RetryNever == [poller EXCEPT !.pc = "dead"]

\* The next call of execute is deferred, whatever becomes of this one.
Retry == Idle(Turn(poller.turn))

PollFailed == /\ poller.pc = "wait"
              /\ poller' = Retry
              /\ UNCHANGED <<source, market, since, control, history, trades,
                             run, files, batches, faults, seen, unstored>>

Poll == LET c == Coins[poller.turn]
        IN  /\ poller.pc = "wait"
            /\ ~ Exhausted(c)
            /\ poller' = [poller EXCEPT !.pc = "send", !.batch = Response(c),
                                        !.index = Index(c)]
            /\ source' = IF source.kind = "mock"
                           THEN [source EXCEPT !.served[c] = @ + 1] ELSE source
            /\ UNCHANGED <<market, since, control, history, trades, run, files,
                           batches, faults, seen, unstored>>

\* The controller has taken the last trade of the response.
Advance == /\ poller.pc = "send" /\ poller.batch = <<>>
           /\ since' = [since EXCEPT ![Coins[poller.turn]] = poller.index]
           /\ poller' = Idle(Turn(poller.turn))
           /\ UNCHANGED <<source, market, control, history, trades, run, files,
                          batches, faults, seen, unstored>>

(***************************************************************************)
(* controller                                                              *)
(***************************************************************************)
\* api.Counter
StopExecution(current) == control.limit > 0 /\ current >= control.limit

Delegate == /\ poller.pc = "send" /\ poller.batch # <<>> /\ control.pc = "input"
            /\ poller' = [poller EXCEPT !.batch = Tail(@)]
            /\ control' = IF StopExecution(control.current + 1)
                 THEN [control EXCEPT !.current = @ + 1, !.pc = "closed"]
                 ELSE [control EXCEPT !.current = @ + 1, !.pc = "output",
                                      !.trade = Head(poller.batch)]
            /\ UNCHANGED <<source, market, since, history, trades, run, files,
                           batches, faults, seen, unstored>>

(***************************************************************************)
(* History                                                                 *)
(***************************************************************************)
HistoryTake == /\ control.pc = "output" /\ history.pc = "in"
               /\ control' = [control EXCEPT !.pc = "process", !.trade = None]
               /\ history' = [pc |-> "add", trade |-> control.trade]
               /\ UNCHANGED <<source, market, since, poller, trades, run, files,
                              batches, faults, seen, unstored>>

FileOf(t) == <<t.coin, Key(t), run>>

HistoryAdd == /\ history.pc = "add"
              /\ files' = Store(files, FileOf(history.trade), history.trade)
              /\ history' = [history EXCEPT !.pc = "out"]
              /\ UNCHANGED <<source, market, since, poller, control, trades, run,
                             batches, faults, seen, unstored>>

\* The error is logged, and the trade forwarded all the same.
HistoryAddFailed ==
  /\ history.pc = "add"
  /\ faults < MaxFaults
  /\ faults' = faults + 1
  /\ files' \in {files, Store(files, FileOf(history.trade), Partial)}
  /\ unstored' = unstored \cup {history.trade}
  /\ history' = [history EXCEPT !.pc = "out"]
  /\ UNCHANGED <<source, market, since, poller, control, trades, run, batches, seen>>

HistoryClose == /\ control.pc = "closed" /\ history.pc = "in"
                /\ history' = [history EXCEPT !.pc = "closed"]
                /\ UNCHANGED <<source, market, since, poller, control, trades, run,
                               files, batches, faults, seen, unstored>>

(***************************************************************************)
(* The consumer: the batch processor, and the signal it sends back         *)
(***************************************************************************)
\* Forwarded while it is being stored.
OfferedEarly == history.pc \in {"add", "out"}

Offered == history.pc = "out"

\* The batch is written when one more trade than fits has come.
FullLate(batch) == Len(batch) > FileSize

Full(batch) == Len(batch) >= FileSize

\* Named by when it starts only.
FileNameOfStart(batch) == Key(batch[1])

\* fileName: the first and the last trade of the batch.
FileName(batch) == <<batch[1], batch[Len(batch)]>>

Consume == /\ Offered /\ control.pc = "process"
           /\ seen' = Append(seen, history.trade)
           /\ LET batch == Append(trades, history.trade)
              IN  IF Full(batch)
                    THEN /\ trades' = <<>>
                         /\ batches' = [b \in DOMAIN batches \cup {FileName(batch)} |->
                                          IF b = FileName(batch) THEN batch ELSE batches[b]]
                    ELSE trades' = batch /\ UNCHANGED batches
           /\ history' = Fresh
           /\ control' = [control EXCEPT !.pc = "input"]
           /\ UNCHANGED <<source, market, since, poller, run, files, faults, unstored>>

(***************************************************************************)
(* The process ends and is started again                                   *)
(***************************************************************************)
Restart == /\ run < MaxRuns
           /\ run' = run + 1
           /\ source' = [source EXCEPT !.served = [c \in CoinSet |-> 0]]
           /\ since' = [c \in CoinSet |-> 0]
           /\ poller' = Idle(1)
           /\ control' = [control EXCEPT !.pc = "input", !.trade = None, !.current = 0]
           /\ history' = Fresh
           /\ trades' = <<>>
           /\ seen' = <<>>
           /\ UNCHANGED <<market, files, batches, faults, unstored>>

Next == \/ \E c \in CoinSet : Happens(c)
        \/ PollFailed \/ Poll \/ Advance
        \/ Delegate
        \/ HistoryTake \/ HistoryAdd \/ HistoryAddFailed \/ HistoryClose
        \/ Consume
        \/ Restart

(***************************************************************************)
(* The goroutines run when they can.  A request that is repeated for ever  *)
(* is answered in the end.                                                 *)
(***************************************************************************)
Fairness == /\ WF_vars(PollFailed) /\ WF_vars(Advance) /\ WF_vars(Delegate)
            /\ \A i \in DOMAIN Coins : SF_vars(poller.turn = i /\ Poll)
            /\ WF_vars(HistoryTake) /\ WF_vars(HistoryAdd) /\ WF_vars(HistoryClose)
            /\ WF_vars(Consume)

Spec == Init /\ [][Next]_vars /\ Fairness

(***************************************************************************)
(* Reading back: History with a Reader, and Ranges                         *)
(***************************************************************************)
\* The labels kept for a request from .. to.
Within(from, to, label) == DeKey(label) >= from - 1 /\ DeKey(label) <= to + 5

Replay(c, from, to) ==
  LET kept == {label \in Labels(files, c) : Within(from, to, label)}
      got == GetFor(files, c, kept)
  IN  IF got.ok THEN Only(got.values, {t \in Trade : from < Time(t) /\ Time(t) < to})
      ELSE <<>>

\* Every file of a label but the first is taken for a duplicate.
Ranges(c, from, to) ==
  LET paths == Check(files, c)
      removed == UNION {{paths[l][i] : i \in 2 .. Len(paths[l])} :
                          l \in {p \in DOMAIN paths : from <= DeKey(p) /\ DeKey(p) <= to}}
  IN  /\ removed # {}
      /\ files' = [k \in DOMAIN files \ removed |-> files[k]]
      /\ UNCHANGED <<source, market, goroutines, run, batches, faults, seen, unstored>>

RangesNext == Next \/ \E c \in CoinSet, r \in Requests : Ranges(c, r[1], r[2])

RangesSpec == Init /\ [][RangesNext]_vars

(***************************************************************************)
(* Properties                                                              *)
(***************************************************************************)
Position == Trade \cup {None}
Buckets == {<<t.coin, Key(t)>> : t \in Trade}

\* The types of the goroutines and files: the batch that is being filled never
\* holds FileSize trades between two steps, a response has at most BatchCap.
TypeOK ==
  /\ source \in [kind : {"remote", "mock"}, served : [CoinSet -> Nat]]
  /\ market \in [CoinSet -> Nat] /\ since \in [CoinSet -> Nat]
  /\ \A c \in CoinSet : market[c] <= Len(Times[c]) /\ since[c] <= market[c]
  /\ poller \in [turn : DOMAIN Coins, pc : {"wait", "send"}, batch : Seq(Trade), index : Nat]
  /\ Len(poller.batch) <= BatchCap
  /\ control \in [pc : {"input", "output", "process", "closed"}, trade : Position,
                  current : Nat, limit : Limits]
  /\ history \in [pc : {"in", "add", "out", "closed"}, trade : Position]
  /\ trades \in Seq(Trade) /\ Len(trades) < FileSize
  /\ run \in 1 .. MaxRuns /\ faults \in 0 .. MaxFaults
  /\ \A k \in DOMAIN files : <<k[1], k[2]>> \in Buckets /\ k[3] \in 1 .. run
  /\ unstored \subseteq Trade

\* Before a trade, the consumer has seen the earlier trades of its coin and no
\* other, whatever requests failed, however the trades were spread over responses,
\* and in whatever order the coins had their turns: none is skipped, repeated or
\* out of order.
InOrder == \A i \in DOMAIN seen :
  {seen[j].n : j \in {k \in 1 .. i - 1 : seen[k].coin = seen[i].coin}} = 1 .. seen[i].n - 1

\* A trade the consumer has seen is in the registry, also after a restart; it is
\* missing only when a record of the same file, the trade's own or an earlier
\* one, could not be written.
StoredFirst == \A i \in DOMAIN seen :
  LET t == seen[i]
      kept == GetAll(files, t.coin, Key(t)).values
  IN  \/ \E j \in DOMAIN kept : kept[j] = t
      \/ \E u \in unstored : u.coin = t.coin /\ Key(u) = Key(t) /\ u.n <= t.n

\* A replay has no hole: between two trades of it lies no trade that is stored and
\* left out, for any request, though a bucket is spread over the files of several
\* runs.
ReplayNoGap == \A c \in CoinSet, r \in Requests :
  LET got == Replay(c, r[1], r[2])
      Lost(t) == /\ \E i \in DOMAIN got : got[i].n < t.n
                 /\ \E i \in DOMAIN got : t.n < got[i].n
                 /\ \A i \in DOMAIN got : got[i] # t
  IN  \A f \in DOMAIN files : f[1] = c =>
        \A k \in DOMAIN files[f] : files[f][k] \in Undecodable \/ ~ Lost(files[f][k])

\* The trades seen in a run are those of its batch files, in order, and those of
\* the batch that is being filled: what the end of the process loses is that batch
\* and nothing else.
BatchesExact ==
  LET full == Len(seen) \div FileSize
      batch(b) == SubSeq(seen, (b - 1) * FileSize + 1, b * FileSize)
  IN  /\ trades = SubSeq(seen, full * FileSize + 1, Len(seen))
      /\ \A b \in 1 .. full : FileName(batch(b)) \in DOMAIN batches
                              /\ batches[FileName(batch(b))] = batch(b)

Decodable == [records \in Seq(Trade \cup Undecodable) |-> Only(records, Trade)]
Stored == [k \in Buckets |-> Decodable[Records(files, k[1], k[2])]]

Registered == INSTANCE Journal WITH Keys <- Buckets, log <- Stored

\* The registry is a journal: what reads of a label give only grows at its end, by
\* one trade at a time, through failed and partial writes and although every run
\* writes a file of its own.
KeepsJournal == Registered!Spec

\* A trade that happened arrives at the consumer, unless the limit stops the feed
\* before: then the consumer has seen one trade less than the limit.
Arrives == \A c \in CoinSet : \A n \in DOMAIN Times[c] :
  (market[c] >= n) ~> \/ \E i \in DOMAIN seen : seen[i] = [coin |-> c, n |-> n]
                      \/ /\ history.pc = "closed"
                         /\ Len(seen) = control.limit - 1

\* Only duplicates are removed from the registry: a trade that can be read of a
\* label can be read after every later step.
OnlyDuplicatesRemoved == [][\A k \in Buckets :
  {Stored[k][i] : i \in DOMAIN Stored[k]} \subseteq
    {Stored'[k][i] : i \in DOMAIN Stored'[k]}]_vars
=============================================================================
