----------------------------- MODULE ChannelIntake -----------------------------
(***************************************************************************)
(* ScanChannelsUseCase over TelethonChannelScanner and the tables channels *)
(* and messages: every query is searched, every channel it lists is        *)
(* registered, looked at and, when it is fit, read.                        *)
(*                                                                         *)
(* A query is one transaction with calls of Telegram inside.  Two scanners *)
(* (run-all's and a dry run, or the ones of two processes) meet in the     *)
(* database: READ COMMITTED, the unique keys of both tables, row locks.    *)
(* VacancyPipeline takes what is fetched as a choice; here it is computed. *)
(***************************************************************************)
EXTENDS Integers, Sequences, FiniteSets

CONSTANTS
  Channels,
  Posts,
  ChannelOf,
  Kind,              \* "text"; "silent", without one; "masked", sent by a channel
  Faces,             \* what Telegram may show of a channel
  FirstFace,         \* what it shows of each at first
  NoRow,
  Scanners,
  Repeats,           \* the scanners of a ScannerWorker; the others are dry runs
  MinSubs,           \* settings.min_subscribers, or --min-subs of a dry run
  ExcludedChannels,  \* settings.excluded_channels: usernames
  ExcludedKeywords,
  Keywords,          \* settings.keywords
  Cities,
  NoCity,
  Finds,             \* the channels Telegram knows for a query
  SearchLimit,       \* 50 in the code
  Limit,             \* settings.max_sample_messages, or --limit
  MaxChanges,        \* bound: changes of a channel's face
  MaxFaults          \* bound: failing calls, failing transactions, restarts

ASSUME IntakeAssumption ==
  /\ ChannelOf \in [Posts -> Channels]
  /\ Kind \in [Posts -> {"text", "silent", "masked"}]
  /\ \A f \in Faces : f.subscribers \in Int
  /\ FirstFace \in [Channels -> Faces]
  /\ NoRow \notin Faces
  /\ Repeats \subseteq Scanners
  /\ MinSubs \in [Scanners -> Int]
  /\ Keywords \in Seq({Keywords[k] : k \in DOMAIN Keywords})
  /\ Cities \in Seq({Cities[k] : k \in DOMAIN Cities})
  /\ \A k \in DOMAIN Cities : Cities[k] # NoCity
  /\ SearchLimit \in Nat /\ Limit \in Nat
  /\ MaxChanges \in Nat /\ MaxFaults \in Nat

VARIABLES
  \* Telegram
  face,     \* username, title and subscribers of each channel
  history,  \* its posts, oldest first
  \* the database
  channel,  \* the row of a channel, with the face it was registered with
  scanned,  \* channels with a last_scanned_at
  stored,   \* posts with a row
  \* the open transactions
  newRow, newScan, newPosts,
  \* the scanners
  at,       \* where each stands
  query,    \* number of the query it is at
  infos,    \* channels the search listed and it has not handled
  todo,     \* posts it fetched of the first of them and has not stored
  \* the bounded environment
  changes, faults

telegram == <<face, history, changes>>
rows     == <<channel, scanned, stored>>
open     == <<newRow, newScan, newPosts>>
scanner  == <<at, query, infos, todo>>
vars     == <<telegram, rows, open, scanner, faults>>

\* _build_queries: every keyword alone, then with every city.
Queries ==
  [n \in 1 .. Len(Keywords) * (Len(Cities) + 1) |->
     LET c == (n - 1) % (Len(Cities) + 1)
     IN  <<Keywords[(n - 1) \div (Len(Cities) + 1) + 1], IF c = 0 THEN NoCity ELSE Cities[c]>>]

ASSUME FindsAssumption ==
  \A k \in DOMAIN Queries :
    Finds[Queries[k]] \subseteq Channels /\ IsFiniteSet(Finds[Queries[k]])

Info == [channel : Channels, face : Faces]

TypeOK ==
  /\ face \in [Channels -> Faces]
  /\ history \in [Channels -> Seq(Posts)]
  /\ channel \in [Channels -> Faces \union {NoRow}]
  /\ scanned \subseteq {c \in Channels : channel[c] # NoRow}
  /\ stored \subseteq Posts
  /\ newRow \in [Scanners -> [Channels -> Faces \union {NoRow}]]
  /\ newScan \in [Scanners -> SUBSET Channels]
  /\ newPosts \in [Scanners -> SUBSET Posts]
  /\ at \in [Scanners -> {"idle", "search", "register", "insert", "fetch", "ingest", "store", "over"}]
  /\ query \in [Scanners -> 1 .. Len(Queries) + 1]
  /\ infos \in [Scanners -> Seq(Info)]
  /\ todo \in [Scanners -> Seq(Posts)]
  /\ \A s \in Scanners : at[s] \in {"insert", "fetch", "ingest", "store"} => infos[s] # <<>>
  /\ \A s \in Scanners : at[s] = "store" => todo[s] # <<>>
  /\ changes \in 0 .. MaxChanges
  /\ faults \in 0 .. MaxFaults

NoRows == [c \in Channels |-> NoRow]

Init ==
  /\ face = FirstFace
  /\ history = [c \in Channels |-> <<>>]
  /\ channel = NoRows /\ scanned = {} /\ stored = {}
  /\ newRow = [s \in Scanners |-> NoRows]
  /\ newScan = [s \in Scanners |-> {}]
  /\ newPosts = [s \in Scanners |-> {}]
  /\ at = [s \in Scanners |-> "idle"]
  /\ query = [s \in Scanners |-> 1]
  /\ infos = [s \in Scanners |-> <<>>]
  /\ todo = [s \in Scanners |-> <<>>]
  /\ changes = 0 /\ faults = 0

--------------------------------------------------------------------------------
(***************************************************************************)
(* Telegram.                                                               *)
(***************************************************************************)
Published == {p \in Posts : \E k \in DOMAIN history[ChannelOf[p]] : history[ChannelOf[p]][k] = p}

Publish(p) ==
  /\ p \notin Published
  /\ history' = [history EXCEPT ![ChannelOf[p]] = Append(@, p)]
  /\ UNCHANGED <<face, changes, rows, open, scanner, faults>>

\* A channel is renamed, grows or shrinks.
Change(c, f) ==
  /\ changes < MaxChanges /\ f # face[c]
  /\ changes' = changes + 1
  /\ face' = [face EXCEPT ![c] = f]
  /\ UNCHANGED <<history, rows, open, scanner, faults>>

Least(x, y) == IF x < y THEN x ELSE y

\* The channels found in Telegram's order, SearchLimit of them at the most.
Lists(found) ==
  LET n == Least(SearchLimit, Cardinality(found))
  IN  {l \in [1 .. n -> found] : \A j, k \in 1 .. n : l[j] = l[k] => j = k}

\* The newest posts, newest first.
Window(c) ==
  LET h == history[c] IN [k \in 1 .. Least(Limit, Len(h)) |-> h[Len(h) + 1 - k]]

\* The texts of it.  from_id of a post sent by a channel has no user_id: the error is
\* logged, and what comes after that post in the list, which is older, is not read.
Texts(w) ==
  {k \in DOMAIN w : Kind[w[k]] = "text" /\ \A j \in 1 .. k : Kind[w[j]] # "masked"}

\* What is read of a channel: the one list of these texts in the window's order.
Readable(c) ==
  LET w == Window(c)
      K == Texts(w)
  IN  {[j \in DOMAIN ks |-> w[ks[j]]] :
         ks \in {f \in [1 .. Cardinality(K) -> K] : \A i, j \in DOMAIN f : i < j => f[i] < f[j]}}

Beginnings(l) == {SubSeq(l, 1, k) : k \in 0 .. Len(l) - 1}

--------------------------------------------------------------------------------
(***************************************************************************)
(* A scanner's transaction.                                                *)
(***************************************************************************)

\* What the scanner itself reads of a channel's row.
Row(s, c) == IF newRow[s][c] # NoRow THEN newRow[s][c] ELSE channel[c]

\* The rows it has written and not committed.
Holds(s) == {c \in Channels : newRow[s][c] # NoRow} \union newScan[s] \union newPosts[s]

Current(s) == Head(infos[s]).channel

\* The row its next write is about: an insert waits for the holder of the same key.
Wants(s) ==
  CASE at[s] = "insert" -> {Current(s)}
    [] at[s] = "store"  -> {Head(todo[s])}
    [] at[s] = "ingest" /\ todo[s] = <<>> -> {Current(s)}
    [] OTHER -> {}

WaitsFor(s, r) == r # s /\ Wants(s) \intersect Holds(r) # {}
Waits(s)       == \E r \in Scanners : WaitsFor(s, r)

Excluded(f) == f.username \in ExcludedChannels \/ f.title \intersect ExcludedKeywords # {}

Fit(s, f) == ~ Excluded(f) /\ f.subscribers >= MinSubs[s]

--------------------------------------------------------------------------------
(***************************************************************************)
(* The scan.                                                               *)
(***************************************************************************)
Begin(s) ==
  /\ at[s] = "idle"
  /\ at' = [at EXCEPT ![s] = "search"]
  /\ query' = [query EXCEPT ![s] = 1]
  /\ UNCHANGED <<telegram, rows, open, infos, todo, faults>>

Searches(s) == at[s] = "search" /\ query[s] <= Len(Queries)

Listed(s, list) ==
  /\ infos' = [infos EXCEPT ![s] =
                 [k \in DOMAIN list |-> [channel |-> list[k], face |-> face[list[k]]]]]
  /\ at' = [at EXCEPT ![s] = "register"]
  /\ UNCHANGED <<telegram, rows, open, query, todo>>

Search(s) ==
  /\ Searches(s)
  /\ \E list \in Lists(Finds[Queries[query[s]]]) : Listed(s, list)
  /\ UNCHANGED faults

\* An error of the search is logged: the scan goes on with what was listed before it.
SearchFails(s) ==
  /\ Searches(s) /\ faults < MaxFaults
  /\ faults' = faults + 1
  /\ \E list \in Lists(Finds[Queries[query[s]]]) : \E part \in Beginnings(list) : Listed(s, part)

\* Mutant: an excluded channel is skipped only when its face shows it now.
ConsiderFace(s, f) ==
  IF Fit(s, Head(infos[s]).face)
  THEN at' = [at EXCEPT ![s] = "fetch"] /\ UNCHANGED infos
  ELSE at' = [at EXCEPT ![s] = "register"] /\ infos' = [infos EXCEPT ![s] = Tail(@)]

\* Excluded or too small, by its row: the next one.
Consider(s, f) ==
  IF Fit(s, f)
  THEN at' = [at EXCEPT ![s] = "fetch"] /\ UNCHANGED infos
  ELSE at' = [at EXCEPT ![s] = "register"] /\ infos' = [infos EXCEPT ![s] = Tail(@)]

\* A row that is there is taken as it is, whatever the search shows now.
Register(s) ==
  /\ at[s] = "register" /\ infos[s] # <<>>
  /\ IF Row(s, Current(s)) = NoRow
     THEN at' = [at EXCEPT ![s] = "insert"] /\ UNCHANGED infos
     ELSE Consider(s, Row(s, Current(s)))
  /\ UNCHANGED <<telegram, rows, open, query, todo, faults>>

\* Mutant: the key is not unique, a later row replaces the one that was there.
InsertAnyway(s) ==
  /\ at[s] = "insert" /\ ~ Waits(s)
  /\ newRow' = [newRow EXCEPT ![s][Current(s)] = Head(infos[s]).face]
  /\ Consider(s, Head(infos[s]).face)
  /\ UNCHANGED <<telegram, rows, newScan, newPosts, query, todo, faults>>

Insert(s) ==
  /\ at[s] = "insert" /\ ~ Waits(s) /\ channel[Current(s)] = NoRow
  /\ newRow' = [newRow EXCEPT ![s][Current(s)] = Head(infos[s]).face]
  /\ Consider(s, Head(infos[s]).face)
  /\ UNCHANGED <<telegram, rows, newScan, newPosts, query, todo, faults>>

Fetched(s, list) ==
  /\ todo' = [todo EXCEPT ![s] = list]
  /\ at' = [at EXCEPT ![s] = "ingest"]
  /\ UNCHANGED <<telegram, rows, open, query, infos>>

Fetch(s) ==
  /\ at[s] = "fetch"
  /\ \E list \in Readable(Current(s)) : Fetched(s, list)
  /\ UNCHANGED faults

\* An error on the way is logged: the posts before it count as all there are.
FetchFails(s) ==
  /\ faults < MaxFaults
  /\ faults' = faults + 1
  /\ at[s] = "fetch"
  /\ \E list \in Readable(Current(s)) : \E part \in Beginnings(list) : Fetched(s, part)

Ingest(s) ==
  /\ at[s] = "ingest" /\ todo[s] # <<>>
  /\ IF Head(todo[s]) \in stored \union newPosts[s]
     THEN todo' = [todo EXCEPT ![s] = Tail(@)] /\ UNCHANGED at
     ELSE at' = [at EXCEPT ![s] = "store"] /\ UNCHANGED todo
  /\ UNCHANGED <<telegram, rows, open, query, infos, faults>>

Store(s) ==
  /\ at[s] = "store" /\ ~ Waits(s) /\ Head(todo[s]) \notin stored
  /\ newPosts' = [newPosts EXCEPT ![s] = @ \union {Head(todo[s])}]
  /\ todo' = [todo EXCEPT ![s] = Tail(@)]
  /\ at' = [at EXCEPT ![s] = "ingest"]
  /\ UNCHANGED <<telegram, rows, newRow, newScan, query, infos, faults>>

\* update_last_scanned, which waits for the channel's row as an insert does.
MarkScanned(s) ==
  /\ at[s] = "ingest" /\ todo[s] = <<>> /\ ~ Waits(s)
  /\ newScan' = [newScan EXCEPT ![s] = @ \union {Current(s)}]
  /\ infos' = [infos EXCEPT ![s] = Tail(@)]
  /\ at' = [at EXCEPT ![s] = "register"]
  /\ UNCHANGED <<telegram, rows, newRow, newPosts, query, todo, faults>>

Closed(s) ==
  /\ newRow' = [newRow EXCEPT ![s] = NoRows]
  /\ newScan' = [newScan EXCEPT ![s] = {}]
  /\ newPosts' = [newPosts EXCEPT ![s] = {}]

Commit(s) ==
  /\ at[s] = "register" /\ infos[s] = <<>>
  /\ channel' = [c \in Channels |-> Row(s, c)]
  /\ scanned' = scanned \union newScan[s]
  /\ stored' = stored \union newPosts[s]
  /\ Closed(s)
  /\ query' = [query EXCEPT ![s] = @ + 1]
  /\ at' = [at EXCEPT ![s] = "search"]
  /\ UNCHANGED <<telegram, infos, todo, faults>>

Rest(s) == IF s \in Repeats THEN "idle" ELSE "over"

Finish(s) ==
  /\ at[s] = "search" /\ query[s] > Len(Queries)
  /\ at' = [at EXCEPT ![s] = Rest(s)]
  /\ UNCHANGED <<telegram, rows, open, query, infos, todo, faults>>

\* Mutant: an error ends the worker's loop with the scan.
AbandonForGood(s) ==
  /\ at' = [at EXCEPT ![s] = "over"]
  /\ query' = [query EXCEPT ![s] = 1]
  /\ infos' = [infos EXCEPT ![s] = <<>>]
  /\ todo' = [todo EXCEPT ![s] = <<>>]
  /\ Closed(s)
  /\ UNCHANGED <<telegram, rows>>

\* The rollback undoes the running query; the worker logs the error and scans again later.
Abandon(s) ==
  /\ at' = [at EXCEPT ![s] = Rest(s)]
  /\ query' = [query EXCEPT ![s] = 1]
  /\ infos' = [infos EXCEPT ![s] = <<>>]
  /\ todo' = [todo EXCEPT ![s] = <<>>]
  /\ Closed(s)
  /\ UNCHANGED <<telegram, rows>>

\* Another scanner committed the row after this one had looked for it in vain.  The insert
\* fails in log_event, which logs it; the transaction is over, the next statement raises.
Violates(s) ==
  /\ ~ Waits(s)
  /\ \/ at[s] = "insert" /\ channel[Current(s)] # NoRow
     \/ at[s] = "store" /\ Head(todo[s]) \in stored
  /\ Abandon(s)
  /\ UNCHANGED faults

\* The database ends one of the transactions that wait for each other.
DeadlockBroken(s) ==
  /\ \E C \in SUBSET Scanners : s \in C /\ \A r \in C : \E q \in C : WaitsFor(r, q)
  /\ Abandon(s)
  /\ UNCHANGED faults

\* A failing statement or commit, or the end of the process.
Breaks(s) ==
  /\ faults < MaxFaults /\ at[s] \notin {"idle", "over"}
  /\ faults' = faults + 1
  /\ Abandon(s)

--------------------------------------------------------------------------------
ScanStep(s) ==
  \/ Begin(s) \/ Search(s) \/ Register(s) \/ Insert(s) \/ Fetch(s) \/ Ingest(s) \/ Store(s)
  \/ MarkScanned(s) \/ Commit(s) \/ Finish(s) \/ Violates(s)

Next ==
  \/ \E p \in Posts : Publish(p)
  \/ \E c \in Channels, f \in Faces : Change(c, f)
  \/ \E s \in Scanners :
       \/ ScanStep(s) \/ DeadlockBroken(s)
       \/ SearchFails(s) \/ FetchFails(s) \/ Breaks(s)

\* A scan goes on, and begins again after the interval; the database sees a deadlock.  A
\* transaction that waits for a row gets its turn: whoever was ended for it comes back a
\* minute later.
Fairness ==
  /\ \A s \in Scanners : SF_vars(ScanStep(s))
  /\ WF_vars(\E s \in Scanners : DeadlockBroken(s))

Spec == Init /\ [][Next]_vars /\ Fairness

--------------------------------------------------------------------------------
(***************************************************************************)
(* What must hold.                                                         *)
(***************************************************************************)

\* A scanner commits posts and a last_scanned_at only for channels whose row, as its commit
\* leaves it, is fit for that scanner: not excluded and large enough, whatever Telegram
\* showed it, whatever another scanner registered meanwhile and thinks large enough
\* (scan_channels.py, uq_msg_chan_tmid).
OnlyFitChannelsRead ==
  [][\A s \in Scanners, c \in Channels :
       Commit(s) /\ (c \in newScan[s] \/ \E p \in newPosts[s] : ChannelOf[p] = c) =>
         channel'[c] # NoRow /\ Fit(s, channel'[c])]_vars

\* What one query committed survives whatever comes after it, and a channel keeps the row
\* it was registered with: an error, a conflict or a deadlock undoes the running query only
\* (scan_channels.py, "Idempotent at message level").
CommittedStands ==
  [][/\ stored \subseteq stored' /\ scanned \subseteq scanned'
     /\ \A c \in Channels : channel[c] # NoRow => channel'[c] = channel[c]]_vars

Findable(c) ==
  \E k \in DOMAIN Queries :
    c \in Finds[Queries[k]] /\ Cardinality(Finds[Queries[k]]) <= SearchLimit

\* Among the newest posts, not hidden by a masked one, in a channel fit to be read.
InReach(p) ==
  LET c == ChannelOf[p]
  IN  /\ Findable(c)
      /\ \E k \in Texts(Window(c)) : Window(c)[k] = p
      /\ channel[c] # NoRow => \A s \in Repeats : Fit(s, channel[c])

\* A post that stays in reach is stored, though scanners conflict, wait for each other and
\* break off: the worker's loop scans on (scanner_worker.py).
InReachIsStored ==
  \A p \in Posts : InReach(p) ~> p \in stored \/ ~ InReach(p)

================================================================================
