--------------------------- MODULE ChannelIntakeProofs ---------------------------
(***************************************************************************)
(* For any number of channels, posts, scanners and queries: TypeOK, only   *)
(* registered channels that are fit by their row are read, and what a      *)
(* query committed stands.                                                 *)
(***************************************************************************)
EXTENDS ChannelIntake, TLAPS, FiniteSetTheorems, SequenceTheorems

\* A post is in the history of its channel.
HistoryInv == \A c \in Channels : \A k \in DOMAIN history[c] : ChannelOf[history[c][k]] = c

\* A row is new in one transaction, and only where none was committed.
NewInv ==
  \A c \in Channels, s \in Scanners : newRow[s][c] # NoRow =>
    channel[c] = NoRow /\ \A r \in Scanners \ {s} : newRow[r][c] = NoRow

\* A channel a scanner may read, by the row it sees.
Read(s, c) == Row(s, c) # NoRow /\ Fit(s, Row(s, c))

\* What a transaction wrote is of channels its scanner may read.
WrittenInv ==
  \A s \in Scanners :
    /\ \A c \in newScan[s] : Read(s, c)
    /\ \A p \in newPosts[s] : Read(s, ChannelOf[p])

\* So is the channel it is at, which all the posts in its hands are of.  It registers a
\* channel that has no row in its transaction.
CurrentInv ==
  \A s \in Scanners :
    /\ at[s] = "insert" => newRow[s][Current(s)] = NoRow
    /\ at[s] \in {"fetch", "ingest", "store"} => Read(s, Current(s))
    /\ at[s] \in {"ingest", "store"} =>
         \A k \in DOMAIN todo[s] : ChannelOf[todo[s][k]] = Current(s)

\* A scanner handles channels of one of its queries.
QueryInv ==
  \A s \in Scanners :
    at[s] \in {"register", "insert", "fetch", "ingest", "store"} => query[s] <= Len(Queries)

IInv ==
  TypeOK /\ HistoryInv /\ NewInv /\ WrittenInv /\ CurrentInv /\ QueryInv

--------------------------------------------------------------------------------
(***************************************************************************)
(* What the operators of the module return.                                *)
(***************************************************************************)

\* The queries are a sequence.
LEMMA QueriesCount == Len(Queries) \in Nat /\ DOMAIN Queries = 1 .. Len(Queries)
<1> DEFINE n == Len(Keywords) * (Len(Cities) + 1)
           S == {Queries[k] : k \in 1 .. n}
<1>1. Len(Keywords) \in Nat /\ Len(Cities) \in Nat
  BY LenProperties, IntakeAssumption
<1>2. n \in Nat
  BY <1>1
<1>3. DOMAIN Queries = 1 .. n
  BY DEF Queries
<1>4. Queries = [k \in 1 .. n |-> Queries[k]]
  BY DEF Queries
<1> HIDE DEF n
<1>5. Queries \in [1 .. n -> S]
  BY <1>4
<1>6. Queries \in Seq(S)
  BY <1>2, <1>5, SeqDef
<1>7. Len(Queries) \in Nat /\ DOMAIN Queries = 1 .. Len(Queries)
  BY <1>6, LenProperties
<1> QED
  BY <1>7

\* A search lists channels it found, a part of a list is one.
LEMMA ListsChannels ==
  ASSUME NEW found \in SUBSET Channels, IsFiniteSet(found), NEW list \in Lists(found)
  PROVE  list \in Seq(Channels)
<1> DEFINE n == Least(SearchLimit, Cardinality(found))
<1>1. n \in Nat
  BY FS_CardinalityType, IntakeAssumption DEF Least
<1>2. list \in [1 .. n -> Channels]
  BY DEF Lists
<1> QED
  BY <1>1, <1>2, SeqDef

LEMMA BeginningsArePrefixes ==
  ASSUME NEW S, NEW list \in Seq(S), NEW part \in Beginnings(list)
  PROVE  /\ part \in Seq(S) /\ DOMAIN part \subseteq DOMAIN list
         /\ \A k \in DOMAIN part : part[k] = list[k]
<1>1. PICK n \in 0 .. Len(list) - 1 : part = SubSeq(list, 1, n)
  BY DEF Beginnings
<1>2. Len(list) \in Nat /\ DOMAIN list = 1 .. Len(list)
  BY LenProperties
<1>3. n \in Nat /\ n <= Len(list)
  BY <1>1, <1>2
<1>4. part \in Seq(S) /\ DOMAIN part = 1 .. n /\ \A k \in 1 .. n : part[k] = list[k]
  BY <1>1, <1>2, <1>3
<1> QED
  BY <1>2, <1>3, <1>4

\* What is read of a channel are posts of it.
LEMMA ReadableOfChannel ==
  ASSUME history \in [Channels -> Seq(Posts)], HistoryInv, NEW c \in Channels,
         NEW list \in Readable(c)
  PROVE  list \in Seq(Posts) /\ \A k \in DOMAIN list : ChannelOf[list[k]] = c
<1> DEFINE w == Window(c)
           m == Least(Limit, Len(history[c]))
           K == Texts(w)
           n == Cardinality(K)
<1>1. history[c] \in Seq(Posts) /\ Len(history[c]) \in Nat
      /\ DOMAIN history[c] = 1 .. Len(history[c])
  BY LenProperties
<1>2. m \in Nat /\ m <= Len(history[c])
  BY <1>1, IntakeAssumption DEF Least
<1>3. DOMAIN w = 1 .. m
  BY DEF Window
<1>4. ASSUME NEW k \in 1 .. m PROVE w[k] \in Posts /\ ChannelOf[w[k]] = c
  <2>1. w[k] = history[c][Len(history[c]) + 1 - k]
    BY DEF Window
  <2>2. Len(history[c]) + 1 - k \in 1 .. Len(history[c])
    BY <1>1, <1>2
  <2>3. history[c][Len(history[c]) + 1 - k] \in Posts
    BY <1>1, <2>2, ElementOfSeq
  <2> QED
    BY <1>1, <2>1, <2>2, <2>3 DEF HistoryInv
<1>5. K \subseteq 1 .. m
  BY <1>3 DEF Texts
<1>6. n \in Nat
  <2>1. IsFiniteSet(1 .. m)
    BY <1>2, FS_Interval
  <2>2. IsFiniteSet(K)
    BY <1>5, <2>1, FS_Subset
  <2> QED
    BY <2>2, FS_CardinalityType
<1>7. PICK ks \in [1 .. n -> K] : list = [j \in DOMAIN ks |-> w[ks[j]]]
  BY DEF Readable
<1> HIDE DEF w, m, K, n
<1>8. /\ DOMAIN list = 1 .. n
      /\ \A j \in 1 .. n : list[j] \in Posts /\ ChannelOf[list[j]] = c
  BY <1>4, <1>5, <1>7
<1>9. list \in [1 .. n -> Posts]
  BY <1>7, <1>8
<1> QED
  BY <1>6, <1>8, <1>9, SeqDef

--------------------------------------------------------------------------------
\* Init establishes the invariant.
LEMMA InitIInv == Init => IInv
<1> SUFFICES ASSUME Init PROVE IInv
  OBVIOUS
<1>0. /\ \A c \in Channels : channel[c] = NoRow /\ history[c] = <<>>
      /\ \A s \in Scanners : /\ at[s] = "idle" /\ newScan[s] = {} /\ newPosts[s] = {}
                             /\ \A c \in Channels : newRow[s][c] = NoRow
      /\ scanned = {} /\ stored = {}
  BY DEF Init, NoRows
<1>1. TypeOK
  <2>1. history \in [Channels -> Seq(Posts)]
    BY DEF Init
  <2>2. face \in [Channels -> Faces] /\ channel \in [Channels -> Faces \union {NoRow}]
        /\ newRow \in [Scanners -> [Channels -> Faces \union {NoRow}]]
    BY IntakeAssumption DEF Init, NoRows
  <2>3. /\ newScan \in [Scanners -> SUBSET Channels]
        /\ newPosts \in [Scanners -> SUBSET Posts]
        /\ at \in [Scanners -> {"idle", "search", "register", "insert", "fetch", "ingest", "store",
                                "over"}]
    BY DEF Init
  <2>4. query \in [Scanners -> 1 .. Len(Queries) + 1]
    BY QueriesCount DEF Init
  <2>5. infos \in [Scanners -> Seq(Info)] /\ todo \in [Scanners -> Seq(Posts)]
    BY DEF Init
  <2>6. changes \in 0 .. MaxChanges /\ faults \in 0 .. MaxFaults
    BY IntakeAssumption DEF Init
  <2> QED
    BY <1>0, <2>1, <2>2, <2>3, <2>4, <2>5, <2>6 DEF TypeOK
<1>2. HistoryInv /\ NewInv
  BY <1>0 DEF HistoryInv, NewInv
<1>3. WrittenInv /\ CurrentInv /\ QueryInv
  BY <1>0 DEF WrittenInv, CurrentInv, QueryInv
<1> QED
  BY <1>1, <1>2, <1>3 DEF IInv

\* What a scanner has listed has a first channel and a rest.
LEMMA InHand ==
  ASSUME TypeOK, NEW s \in Scanners, infos[s] # <<>>
  PROVE  /\ infos[s] \in Seq(Info) /\ Tail(infos[s]) \in Seq(Info)
         /\ Head(infos[s]).face \in Faces /\ Current(s) \in Channels
<1>1. infos[s] \in Seq(Info)
  BY DEF TypeOK
<1>2. Head(infos[s]) \in Info /\ Tail(infos[s]) \in Seq(Info)
  BY <1>1, HeadTailProperties
<1> QED
  BY <1>1, <1>2 DEF Info, Current

\* What is left of a channel's posts is of that channel.
LEMMA RestIsOfChannel ==
  ASSUME NEW t \in Seq(Posts), t # <<>>, NEW c, \A k \in DOMAIN t : ChannelOf[t[k]] = c
  PROVE  /\ Tail(t) \in Seq(Posts) /\ Head(t) \in Posts /\ ChannelOf[Head(t)] = c
         /\ \A k \in DOMAIN Tail(t) : ChannelOf[Tail(t)[k]] = c
<1>1. /\ Tail(t) \in Seq(Posts) /\ Head(t) \in Posts /\ Head(t) = t[1]
      /\ Len(t) \in Nat \ {0} /\ DOMAIN t = 1 .. Len(t) /\ DOMAIN Tail(t) = 1 .. Len(t) - 1
      /\ \A k \in 1 .. Len(t) - 1 : Tail(t)[k] = t[k + 1]
  OBVIOUS
<1> QED
  BY <1>1

--------------------------------------------------------------------------------
(***************************************************************************)
(* Telegram and the scanners' own steps leave the rows and what is written *)
(* but not committed.                                                      *)
(***************************************************************************)
Untouched == UNCHANGED <<rows, open>>

LEMMA UntouchedKeeps ==
  ASSUME IInv, Untouched
  PROVE  /\ NewInv' /\ WrittenInv'
         /\ \A s \in Scanners, c \in Channels : Row(s, c)' = Row(s, c) /\ Read(s, c)' = Read(s, c)
<1>1. \A s \in Scanners, c \in Channels : Row(s, c)' = Row(s, c) /\ Read(s, c)' = Read(s, c)
  BY DEF Untouched, rows, open, Row, Read, Fit, Excluded
<1>2. NewInv'
  BY DEF IInv, NewInv, Untouched, rows, open
<1>3. WrittenInv'
  BY <1>1, IntakeAssumption DEF IInv, TypeOK, WrittenInv, Untouched, rows, open
<1> QED
  BY <1>1, <1>2, <1>3

LEMMA TelegramKeeps ==
  ASSUME IInv, (\E p \in Posts : Publish(p)) \/ \E c \in Channels, f \in Faces : Change(c, f)
  PROVE  IInv'
<1>0. Untouched /\ UNCHANGED scanner /\ faults' = faults /\ changes' \in 0 .. MaxChanges
  <2>1. ASSUME NEW p \in Posts, Publish(p) PROVE Untouched /\ UNCHANGED <<scanner, faults, changes>>
    BY <2>1 DEF Publish, Untouched
  <2>2. ASSUME NEW c \in Channels, NEW f \in Faces, Change(c, f)
        PROVE  Untouched /\ UNCHANGED <<scanner, faults>> /\ changes' \in 0 .. MaxChanges
    BY <2>2, IntakeAssumption DEF IInv, TypeOK, Change, Untouched
  <2> QED
    BY <2>1, <2>2 DEF IInv, TypeOK
<1>1. face' \in [Channels -> Faces] /\ history' \in [Channels -> Seq(Posts)] /\ HistoryInv'
  <2>1. ASSUME NEW p \in Posts, Publish(p)
        PROVE  history' \in [Channels -> Seq(Posts)] /\ HistoryInv' /\ face' = face
    <3>1. history \in [Channels -> Seq(Posts)] /\ face' = face /\ ChannelOf[p] \in Channels
          /\ history' = [history EXCEPT ![ChannelOf[p]] = Append(history[ChannelOf[p]], p)]
      BY <2>1, IntakeAssumption DEF IInv, TypeOK, Publish
    <3>2. history' \in [Channels -> Seq(Posts)]
      BY <3>1, AppendProperties
    <3>3. ASSUME NEW c \in Channels, NEW k \in DOMAIN history'[c]
          PROVE  ChannelOf[history'[c][k]] = c
      <4>1. history[c] \in Seq(Posts) /\ DOMAIN history[c] = 1 .. Len(history[c])
            /\ Len(history[c]) \in Nat
        BY <3>1, LenProperties
      <4>2. CASE c # ChannelOf[p]
        BY <3>1, <3>3, <4>2 DEF IInv, HistoryInv
      <4>3. CASE c = ChannelOf[p]
        BY <3>1, <3>3, <4>1, <4>3 DEF IInv, HistoryInv
      <4> QED
        BY <4>2, <4>3
    <3> QED
      BY <3>1, <3>2, <3>3 DEF HistoryInv
  <2>2. ASSUME NEW c \in Channels, NEW f \in Faces, Change(c, f)
        PROVE  face' \in [Channels -> Faces] /\ history' = history
    BY <2>2 DEF IInv, TypeOK, Change
  <2> QED
    BY <2>1, <2>2 DEF IInv, TypeOK, HistoryInv
<1>2. TypeOK'
  BY <1>0, <1>1 DEF IInv, TypeOK, Untouched, rows, open, scanner
<1>3. CurrentInv' /\ QueryInv'
  <2>1. \A s \in Scanners : infos[s] # <<>> => Current(s) \in Channels
    BY InHand DEF IInv
  <2>2. \A s \in Scanners : Current(s)' = Current(s)
    BY <1>0 DEF scanner, Current
  <2>3. \A s \in Scanners : at[s] \in {"fetch", "ingest", "store"} =>
          Read(s, Current(s)') = Read(s, Current(s)) /\ (Read(s, Current(s)))' = Read(s, Current(s))
    BY <1>0, <2>1, <2>2 DEF Untouched, rows, open, Row, Read, Fit, Excluded
  <2> QED
    BY <1>0, <2>2, <2>3 DEF IInv, CurrentInv, QueryInv, scanner, Untouched, open
<1> QED
  BY <1>0, <1>1, <1>2, <1>3, UntouchedKeeps DEF IInv

--------------------------------------------------------------------------------
(***************************************************************************)
(* A step of a scanner.                                                    *)
(***************************************************************************)
Places == {"idle", "search", "register", "insert", "fetch", "ingest", "store", "over"}

ScannersOK ==
  /\ at \in [Scanners -> Places]
  /\ query \in [Scanners -> 1 .. Len(Queries) + 1]
  /\ infos \in [Scanners -> Seq(Info)]
  /\ todo \in [Scanners -> Seq(Posts)]
  /\ \A s \in Scanners : at[s] \in {"insert", "fetch", "ingest", "store"} => infos[s] # <<>>
  /\ \A s \in Scanners : at[s] = "store" => todo[s] # <<>>

\* Where a scanner may stand with these queries, channels and posts in its hands.
Placed(a, q, i, t) ==
  /\ a \in Places /\ q \in 1 .. Len(Queries) + 1 /\ i \in Seq(Info) /\ t \in Seq(Posts)
  /\ a \in {"insert", "fetch", "ingest", "store"} => i # <<>>
  /\ a = "store" => t # <<>>
  /\ a \in {"register", "insert", "fetch", "ingest", "store"} => q <= Len(Queries)
  /\ a \in {"ingest", "store"} => \A k \in DOMAIN t : ChannelOf[t[k]] = Head(i).channel

\* A step of scanner s to such a place, at a channel it may read.
Moves(s, a, q, i, t) ==
  /\ Placed(a, q, i, t)
  /\ at' = [at EXCEPT ![s] = a] /\ query' = [query EXCEPT ![s] = q]
  /\ infos' = [infos EXCEPT ![s] = i] /\ todo' = [todo EXCEPT ![s] = t]
  /\ a = "insert" => newRow[s][Head(i).channel] = NoRow
  /\ a \in {"fetch", "ingest", "store"} => Read(s, Head(i).channel)

\* One scanner moves, and what the others may read they still may.
LEMMA ScannerMoves ==
  ASSUME IInv, NEW s \in Scanners, NEW a, NEW q, NEW i, NEW t, Placed(a, q, i, t),
         at' = [at EXCEPT ![s] = a], query' = [query EXCEPT ![s] = q],
         infos' = [infos EXCEPT ![s] = i], todo' = [todo EXCEPT ![s] = t],
         a = "insert" => newRow'[s][Head(i).channel] = NoRow,
         \A c : a \in {"fetch", "ingest", "store"} /\ c = Head(i).channel => Read(s, c)',
         \A r \in Scanners \ {s} : newRow'[r] = newRow[r],
         \A r \in Scanners \ {s}, c \in Channels : Read(r, c) => Read(r, c)'
  PROVE  ScannersOK' /\ CurrentInv' /\ QueryInv'
<1>1. /\ at'[s] = a /\ query'[s] = q /\ infos'[s] = i /\ todo'[s] = t
      /\ \A r \in Scanners \ {s} :
           at'[r] = at[r] /\ query'[r] = query[r] /\ infos'[r] = infos[r] /\ todo'[r] = todo[r]
  BY DEF IInv, TypeOK
<1>2. ScannersOK'
  <2>1. ScannersOK
    BY DEF IInv, TypeOK, ScannersOK, Places
  <2> QED
    BY <1>1, <2>1 DEF ScannersOK, Placed
<1>3. QueryInv'
  BY <1>1 DEF IInv, QueryInv, Placed
<1>4. CurrentInv'
  <2>1. ASSUME NEW r \in Scanners \ {s}, at[r] \in {"fetch", "ingest", "store"}
        PROVE  Current(r) \in Channels /\ Current(r)' = Current(r) /\ Read(r, Current(r))
    <3>1. Current(r) \in Channels
      BY <2>1, InHand DEF IInv, TypeOK
    <3>2. Current(r)' = Current(r)
      BY <1>1 DEF Current
    <3>3. Read(r, Current(r))
      BY <2>1 DEF IInv, CurrentInv
    <3> QED
      BY <3>1, <3>2, <3>3
  <2>2. ASSUME NEW r \in Scanners \ {s}
        PROVE  /\ at'[r] = "insert" => newRow'[r][Current(r)'] = NoRow
               /\ at'[r] \in {"fetch", "ingest", "store"} => (Read(r, Current(r)))'
               /\ at'[r] \in {"ingest", "store"} =>
                    \A k \in DOMAIN todo'[r] : ChannelOf[todo'[r][k]] = Current(r)'
    <3>1. at'[r] \in {"fetch", "ingest", "store"} => (Read(r, Current(r)))'
      <4>1. SUFFICES ASSUME at'[r] \in {"fetch", "ingest", "store"} PROVE (Read(r, Current(r)))'
        OBVIOUS
      <4>2. Current(r) \in Channels /\ Current(r)' = Current(r) /\ Read(r, Current(r))
        BY <1>1, <2>1, <4>1
      <4>3. Read(r, Current(r)) => \A c1 \in Channels : c1 = Current(r) => Read(r, c1)'
        BY <4>2
      <4> QED
        BY <4>2, <4>3 DEF Read, Row
    <3>2. at'[r] \in {"ingest", "store"} =>
            \A k \in DOMAIN todo'[r] : ChannelOf[todo'[r][k]] = Current(r)'
      BY <1>1, <2>1 DEF IInv, CurrentInv
    <3>3. at'[r] = "insert" => newRow'[r][Current(r)'] = NoRow
      BY <1>1 DEF IInv, CurrentInv, Current
    <3> QED
      BY <3>1, <3>2, <3>3
  <2>3. Current(s)' = Head(i).channel
    BY <1>1 DEF Current
  <2>4. /\ at'[s] = "insert" => newRow'[s][Current(s)'] = NoRow
        /\ at'[s] \in {"fetch", "ingest", "store"} => (Read(s, Current(s)))'
        /\ at'[s] \in {"ingest", "store"} =>
             \A k \in DOMAIN todo'[s] : ChannelOf[todo'[s][k]] = Current(s)'
    BY <1>1, <2>3 DEF Placed, Read, Row
  <2> QED
    BY <2>2, <2>4 DEF CurrentInv
<1> QED
  BY <1>2, <1>3, <1>4

\* The steps of a scan that write nothing.
LEMMA ReadingKeeps ==
  ASSUME IInv, NEW s \in Scanners,
         \/ Begin(s) \/ Search(s) \/ SearchFails(s) \/ Register(s)
         \/ Fetch(s) \/ FetchFails(s) \/ Ingest(s) \/ Finish(s)
  PROVE  IInv'
<1>1. Untouched /\ UNCHANGED telegram /\ faults' \in 0 .. MaxFaults
  <2>1. CASE Begin(s) \/ Search(s) \/ Register(s) \/ Fetch(s) \/ Ingest(s) \/ Finish(s)
    BY <2>1 DEF IInv, TypeOK, Begin, Search, Listed, Register, Fetch, Fetched, Ingest, Finish,
                Untouched
  <2>2. CASE SearchFails(s) \/ FetchFails(s)
    BY <2>2, IntakeAssumption DEF IInv, TypeOK, SearchFails, Listed, FetchFails, Fetched, Untouched
  <2> QED
    BY <2>1, <2>2
<1>2. /\ at \in [Scanners -> Places] /\ query \in [Scanners -> 1 .. Len(Queries) + 1]
      /\ infos \in [Scanners -> Seq(Info)] /\ todo \in [Scanners -> Seq(Posts)]
      /\ at[s] \in {"insert", "fetch", "ingest", "store"} => infos[s] # <<>>
      /\ at[s] \in {"register", "insert", "fetch", "ingest", "store"} => query[s] <= Len(Queries)
  BY DEF IInv, TypeOK, Places, QueryInv
<1>3. \E a, q, i, t : Moves(s, a, q, i, t)
  <2>1. CASE Begin(s)
    <3>1. Placed("search", 1, infos[s], todo[s])
      BY <1>2, QueriesCount DEF Placed, Places
    <3>2. /\ at' = [at EXCEPT ![s] = "search"] /\ query' = [query EXCEPT ![s] = 1]
          /\ infos' = [infos EXCEPT ![s] = infos[s]] /\ todo' = [todo EXCEPT ![s] = todo[s]]
      BY <1>2, <2>1 DEF Begin
    <3>9. Moves(s, "search", 1, infos[s], todo[s])
      BY <3>1, <3>2 DEF Moves
    <3> QED
      BY <3>9
  <2>2. CASE Search(s) \/ SearchFails(s)
    <3>1. PICK list \in Seq(Channels) : Listed(s, list)
      <4>1. query[s] \in DOMAIN Queries
        BY <1>2, <2>2, QueriesCount DEF Search, SearchFails, Searches
      <4>2. Finds[Queries[query[s]]] \in SUBSET Channels /\ IsFiniteSet(Finds[Queries[query[s]]])
        BY <4>1, FindsAssumption
      <4>3. CASE Search(s)
        BY <4>2, <4>3, ListsChannels DEF Search
      <4>4. CASE SearchFails(s)
        BY <4>2, <4>4, ListsChannels, BeginningsArePrefixes DEF SearchFails
      <4> QED
        BY <2>2, <4>3, <4>4
    <3> DEFINE i == [k \in DOMAIN list |-> [channel |-> list[k], face |-> face[list[k]]]]
    <3>2. i \in Seq(Info)
      <4>1. Len(list) \in Nat /\ DOMAIN list = 1 .. Len(list)
            /\ \A k \in 1 .. Len(list) : list[k] \in Channels
        BY LenProperties, ElementOfSeq
      <4>2. i \in [1 .. Len(list) -> Info]
        BY <4>1 DEF IInv, TypeOK, Info
      <4> QED
        BY <4>1, <4>2, SeqDef
    <3>3. query[s] <= Len(Queries)
      BY <2>2 DEF Search, SearchFails, Searches
    <3>4. Placed("register", query[s], i, todo[s])
      BY <1>2, <3>2, <3>3 DEF Placed, Places
    <3>5. /\ at' = [at EXCEPT ![s] = "register"] /\ query' = [query EXCEPT ![s] = query[s]]
          /\ infos' = [infos EXCEPT ![s] = i] /\ todo' = [todo EXCEPT ![s] = todo[s]]
      BY <1>2, <3>1 DEF Listed
    <3>9. Moves(s, "register", query[s], i, todo[s])
      BY <3>4, <3>5 DEF Moves
    <3> QED
      BY <3>9
  <2>3. CASE Register(s)
    <3>1. /\ at[s] = "register" /\ infos[s] # <<>> /\ query' = query /\ todo' = todo
          /\ query[s] <= Len(Queries)
      BY <1>2, <2>3 DEF Register
    <3>2. CASE Row(s, Current(s)) = NoRow
      <4>1. Placed("insert", query[s], infos[s], todo[s])
        BY <1>2, <3>1 DEF Placed, Places
      <4>2. at' = [at EXCEPT ![s] = "insert"] /\ infos' = infos
        BY <2>3, <3>2 DEF Register
      <4>3. newRow[s][Head(infos[s]).channel] = NoRow
        BY <3>2 DEF Row, Current
      <4>9. Moves(s, "insert", query[s], infos[s], todo[s])
        BY <1>2, <3>1, <4>1, <4>2, <4>3 DEF Moves
      <4> QED
        BY <4>9
    <3>3. CASE Row(s, Current(s)) # NoRow /\ Fit(s, Row(s, Current(s)))
      <4>1. Placed("fetch", query[s], infos[s], todo[s])
        BY <1>2, <3>1 DEF Placed, Places
      <4>2. at' = [at EXCEPT ![s] = "fetch"] /\ infos' = infos
        BY <2>3, <3>3 DEF Register, Consider
      <4>3. Read(s, Head(infos[s]).channel)
        BY <3>3 DEF Read, Current
      <4>9. Moves(s, "fetch", query[s], infos[s], todo[s])
        BY <1>2, <3>1, <4>1, <4>2, <4>3 DEF Moves
      <4> QED
        BY <4>9
    <3>4. CASE Row(s, Current(s)) # NoRow /\ ~ Fit(s, Row(s, Current(s)))
      <4>1. Tail(infos[s]) \in Seq(Info)
        BY <3>1, InHand DEF IInv
      <4>2. Placed("register", query[s], Tail(infos[s]), todo[s])
        BY <1>2, <3>1, <4>1 DEF Placed, Places
      <4>3. at' = [at EXCEPT ![s] = "register"] /\ infos' = [infos EXCEPT ![s] = Tail(infos[s])]
        BY <1>2, <2>3, <3>4 DEF Register, Consider
      <4>9. Moves(s, "register", query[s], Tail(infos[s]), todo[s])
        BY <1>2, <3>1, <4>2, <4>3 DEF Moves
      <4> QED
        BY <4>9
    <3> QED
      BY <3>2, <3>3, <3>4
  <2>4. CASE Fetch(s) \/ FetchFails(s)
    <3>1. /\ at[s] = "fetch" /\ infos[s] # <<>> /\ query[s] <= Len(Queries)
          /\ Read(s, Current(s))
      BY <1>2, <2>4 DEF Fetch, FetchFails, IInv, CurrentInv
    <3>2. Current(s) \in Channels
      BY <3>1, InHand DEF IInv
    <3>3. PICK list \in Seq(Posts) :
            Fetched(s, list) /\ \A k \in DOMAIN list : ChannelOf[list[k]] = Current(s)
      <4>1. \A list \in Readable(Current(s)) :
              list \in Seq(Posts) /\ \A k \in DOMAIN list : ChannelOf[list[k]] = Current(s)
        BY <3>2, ReadableOfChannel DEF IInv, TypeOK
      <4>2. CASE Fetch(s)
        BY <4>1, <4>2 DEF Fetch
      <4>3. CASE FetchFails(s)
        <5>1. PICK list \in Readable(Current(s)) : \E part \in Beginnings(list) : Fetched(s, part)
          BY <4>3 DEF FetchFails
        <5>0. PICK part \in Beginnings(list) : Fetched(s, part)
          BY <5>1
        <5>2. list \in Seq(Posts) /\ \A k \in DOMAIN list : ChannelOf[list[k]] = Current(s)
          BY <4>1
        <5>3. /\ part \in Seq(Posts) /\ DOMAIN part \subseteq DOMAIN list
              /\ \A k \in DOMAIN part : part[k] = list[k]
          BY <5>2, BeginningsArePrefixes
        <5> QED
          BY <5>0, <5>2, <5>3
      <4> QED
        BY <2>4, <4>2, <4>3
    <3>4. Placed("ingest", query[s], infos[s], list)
      BY <1>2, <3>1, <3>3 DEF Placed, Places, Current
    <3>5. /\ at' = [at EXCEPT ![s] = "ingest"] /\ query' = query /\ infos' = infos
          /\ todo' = [todo EXCEPT ![s] = list]
      BY <3>3 DEF Fetched
    <3>9. Moves(s, "ingest", query[s], infos[s], list)
      BY <1>2, <3>1, <3>4, <3>5 DEF Current, Moves
    <3> QED
      BY <3>9
  <2>5. CASE Ingest(s)
    <3>1. /\ at[s] = "ingest" /\ todo[s] # <<>> /\ infos[s] # <<>> /\ query[s] <= Len(Queries)
          /\ Read(s, Current(s)) /\ query' = query /\ infos' = infos
          /\ \A k \in DOMAIN todo[s] : ChannelOf[todo[s][k]] = Current(s)
      BY <1>2, <2>5 DEF Ingest, IInv, CurrentInv
    <3>2. CASE Head(todo[s]) \in stored \union newPosts[s]
      <4>1. /\ Tail(todo[s]) \in Seq(Posts)
            /\ \A k \in DOMAIN Tail(todo[s]) : ChannelOf[Tail(todo[s])[k]] = Current(s)
        BY <1>2, <3>1, RestIsOfChannel
      <4>2. Placed("ingest", query[s], infos[s], Tail(todo[s]))
        BY <1>2, <3>1, <4>1 DEF Placed, Places, Current
      <4>3. at' = [at EXCEPT ![s] = "ingest"] /\ todo' = [todo EXCEPT ![s] = Tail(todo[s])]
        BY <1>2, <2>5, <3>1, <3>2 DEF Ingest
      <4>9. Moves(s, "ingest", query[s], infos[s], Tail(todo[s]))
        BY <1>2, <3>1, <4>2, <4>3 DEF Current, Moves
      <4> QED
        BY <4>9
    <3>3. CASE Head(todo[s]) \notin stored \union newPosts[s]
      <4>1. Placed("store", query[s], infos[s], todo[s])
        BY <1>2, <3>1 DEF Placed, Places, Current
      <4>2. at' = [at EXCEPT ![s] = "store"] /\ todo' = todo
        BY <2>5, <3>3 DEF Ingest
      <4>9. Moves(s, "store", query[s], infos[s], todo[s])
        BY <1>2, <3>1, <4>1, <4>2 DEF Current, Moves
      <4> QED
        BY <4>9
    <3> QED
      BY <3>2, <3>3
  <2>6. CASE Finish(s)
    <3>1. Placed(Rest(s), query[s], infos[s], todo[s])
      BY <1>2 DEF Placed, Places, Rest
    <3>2. /\ at' = [at EXCEPT ![s] = Rest(s)]
          /\ query' = query /\ infos' = infos /\ todo' = todo
          /\ Rest(s) \notin {"insert", "fetch", "ingest", "store"}
      BY <2>6 DEF Finish, Rest
    <3>9. Moves(s, Rest(s), query[s], infos[s], todo[s])
      BY <1>2, <3>1, <3>2 DEF Moves
    <3> QED
      BY <3>9
  <2> QED
    BY <2>1, <2>2, <2>3, <2>4, <2>5, <2>6
<1>4. ScannersOK' /\ CurrentInv' /\ QueryInv'
  <2>1. \A r \in Scanners, c \in Channels : Read(r, c)' = Read(r, c)
    BY <1>1, UntouchedKeeps
  <2>2. PICK a, q, i, t : Moves(s, a, q, i, t)
    BY <1>3
  <2>3. /\ a = "insert" => newRow'[s][Head(i).channel] = NoRow
        /\ \A c : a \in {"fetch", "ingest", "store"} /\ c = Head(i).channel => Read(s, c)'
        /\ newRow' = newRow
    BY <1>1, <2>2 DEF Moves, Read, Row, Fit, Excluded, Untouched, rows, open
  <2> QED
    BY <2>1, <2>2, <2>3, ScannerMoves DEF Moves
<1>5. TypeOK'
  BY <1>1, <1>4 DEF IInv, TypeOK, ScannersOK, Places, Untouched, rows, open, telegram
<1>6. HistoryInv'
  BY <1>1 DEF IInv, HistoryInv, telegram
<1> QED
  BY <1>1, <1>4, <1>5, <1>6, UntouchedKeeps DEF IInv

--------------------------------------------------------------------------------
(***************************************************************************)
(* What a scanner writes.                                                  *)
(***************************************************************************)

\* A scanner registers a channel that no other one is registering and nobody has.
LEMMA InsertKeeps == ASSUME IInv, NEW s \in Scanners, Insert(s) PROVE IInv'
<1> DEFINE c == Current(s)
           f == Head(infos[s]).face
<1>1. /\ at[s] = "insert" /\ infos[s] # <<>> /\ c \in Channels /\ f \in Faces /\ f # NoRow
      /\ infos[s] \in Seq(Info) /\ Tail(infos[s]) \in Seq(Info) /\ query[s] <= Len(Queries)
  BY InHand, IntakeAssumption DEF IInv, TypeOK, QueryInv, Insert
<1>2. /\ channel[c] = NoRow /\ newRow[s][c] = NoRow
      /\ newRow' = [newRow EXCEPT ![s][c] = f]
      /\ UNCHANGED <<telegram, rows, newScan, newPosts, query, todo, faults>>
  BY <1>1 DEF Insert, IInv, CurrentInv
<1>3. \A r \in Scanners \ {s} : newRow[r][c] = NoRow
  BY <1>1 DEF Insert, Waits, WaitsFor, Wants, Holds
<1>4. newRow \in [Scanners -> [Channels -> Faces \union {NoRow}]]
  BY DEF IInv, TypeOK
<1>5. /\ newRow' \in [Scanners -> [Channels -> Faces \union {NoRow}]]
      /\ newRow'[s][c] = f
      /\ \A d \in Channels \ {c} : newRow'[s][d] = newRow[s][d]
      /\ \A r \in Scanners \ {s} : newRow'[r] = newRow[r]
  BY <1>1, <1>2, <1>4
<1> HIDE DEF c, f
<1>6. NewInv'
  BY <1>1, <1>2, <1>3, <1>5 DEF IInv, NewInv, rows
<1>7. \A r \in Scanners, d \in Channels : Read(r, d) => Read(r, d)'
  <2> SUFFICES ASSUME NEW r \in Scanners, NEW d \in Channels, Read(r, d) PROVE Read(r, d)'
    OBVIOUS
  <2>1. r # s \/ d # c
    BY <1>2 DEF Read, Row
  <2>2. newRow'[r][d] = newRow[r][d] /\ channel' = channel
    BY <1>2, <1>5, <2>1 DEF rows
  <2> QED
    BY <2>2 DEF Read, Row, Fit, Excluded
<1>8. WrittenInv' /\ HistoryInv'
  <2>1. WrittenInv'
    BY <1>2, <1>7, IntakeAssumption DEF IInv, TypeOK, WrittenInv
  <2>2. HistoryInv'
    BY <1>2 DEF IInv, HistoryInv, telegram
  <2> QED
    BY <2>1, <2>2
<1>9. ScannersOK' /\ CurrentInv' /\ QueryInv'
  <2>1. /\ at \in [Scanners -> Places] /\ query \in [Scanners -> 1 .. Len(Queries) + 1]
        /\ infos \in [Scanners -> Seq(Info)] /\ todo \in [Scanners -> Seq(Posts)]
    BY DEF IInv, TypeOK, Places
  <2>2. Consider(s, f) /\ query' = [query EXCEPT ![s] = query[s]] /\ todo' = [todo EXCEPT ![s] = todo[s]]
    BY <1>2, <2>1 DEF Insert, f
  <2>3. CASE Fit(s, f)
    <3>1. Placed("fetch", query[s], infos[s], todo[s])
      BY <1>1, <2>1 DEF Placed, Places
    <3>2. at' = [at EXCEPT ![s] = "fetch"] /\ infos' = [infos EXCEPT ![s] = infos[s]]
      BY <2>1, <2>2, <2>3 DEF Consider
    <3>3. \A d : d = Head(infos[s]).channel => Read(s, d)'
      BY <1>1, <1>5, <2>3 DEF Read, Row, Fit, Excluded, c, Current
    <3> QED
      BY <1>5, <1>7, <2>2, <3>1, <3>2, <3>3, ScannerMoves
  <2>4. CASE ~ Fit(s, f)
    <3>1. Placed("register", query[s], Tail(infos[s]), todo[s])
      BY <1>1, <2>1 DEF Placed, Places
    <3>2. at' = [at EXCEPT ![s] = "register"] /\ infos' = [infos EXCEPT ![s] = Tail(infos[s])]
      BY <2>1, <2>2, <2>4 DEF Consider
    <3> QED
      BY <1>5, <1>7, <2>2, <3>1, <3>2, ScannerMoves
  <2> QED
    BY <2>3, <2>4
<1>10. TypeOK'
  BY <1>2, <1>5, <1>9 DEF IInv, TypeOK, ScannersOK, Places, rows, telegram
<1> QED
  BY <1>6, <1>8, <1>9, <1>10 DEF IInv

\* A post or a last_scanned_at is written for the channel the scanner is at.
LEMMA WritingKeeps == ASSUME IInv, NEW s \in Scanners, Store(s) \/ MarkScanned(s) PROVE IInv'
<1>1. /\ at \in [Scanners -> Places] /\ query \in [Scanners -> 1 .. Len(Queries) + 1]
      /\ infos \in [Scanners -> Seq(Info)] /\ todo \in [Scanners -> Seq(Posts)]
      /\ newScan \in [Scanners -> SUBSET Channels] /\ newPosts \in [Scanners -> SUBSET Posts]
  BY DEF IInv, TypeOK, Places
<1>2. /\ at[s] \in {"ingest", "store"} /\ infos[s] # <<>> /\ Read(s, Current(s))
      /\ query[s] <= Len(Queries)
      /\ \A k \in DOMAIN todo[s] : ChannelOf[todo[s][k]] = Current(s)
  BY DEF Store, MarkScanned, IInv, TypeOK, CurrentInv, QueryInv
<1>3. Current(s) \in Channels /\ Tail(infos[s]) \in Seq(Info)
  BY <1>2, InHand DEF IInv
<1>4. UNCHANGED <<telegram, rows, newRow, query, faults>>
  BY DEF Store, MarkScanned
<1>5. \A r \in Scanners, d \in Channels : Read(r, d)' = Read(r, d)
  BY <1>4 DEF Read, Row, Fit, Excluded, rows
<1>6. NewInv' /\ HistoryInv'
  BY <1>4 DEF IInv, NewInv, HistoryInv, rows, telegram
<1>7. /\ newScan' \in [Scanners -> SUBSET Channels] /\ newPosts' \in [Scanners -> SUBSET Posts]
      /\ WrittenInv' /\ ScannersOK' /\ CurrentInv' /\ QueryInv'
  <2>1. CASE Store(s)
    <3>1. todo[s] # <<>>
      BY <2>1 DEF Store, IInv, TypeOK
    <3>2. /\ Head(todo[s]) \in Posts /\ ChannelOf[Head(todo[s])] = Current(s)
          /\ Tail(todo[s]) \in Seq(Posts)
          /\ \A k \in DOMAIN Tail(todo[s]) : ChannelOf[Tail(todo[s])[k]] = Current(s)
      BY <1>1, <1>2, <3>1, RestIsOfChannel
    <3>3. /\ newPosts' = [newPosts EXCEPT ![s] = newPosts[s] \union {Head(todo[s])}]
          /\ newScan' = newScan
          /\ at' = [at EXCEPT ![s] = "ingest"] /\ query' = [query EXCEPT ![s] = query[s]]
          /\ infos' = [infos EXCEPT ![s] = infos[s]]
          /\ todo' = [todo EXCEPT ![s] = Tail(todo[s])]
      BY <1>1, <2>1 DEF Store
    <3>4. newPosts' \in [Scanners -> SUBSET Posts]
      BY <1>1, <3>2, <3>3
    <3>5. WrittenInv'
      BY <1>1, <1>2, <1>5, <3>2, <3>3, IntakeAssumption DEF IInv, WrittenInv
    <3>6. Placed("ingest", query[s], infos[s], Tail(todo[s]))
      BY <1>1, <1>2, <3>2 DEF Placed, Places, Current
    <3>7. \A c : c = Head(infos[s]).channel => Read(s, c)'
      BY <1>2, <1>4 DEF Read, Row, Fit, Excluded, rows, Current
    <3>8. ScannersOK' /\ CurrentInv' /\ QueryInv'
      BY <1>4, <1>5, <3>3, <3>6, <3>7, ScannerMoves
    <3> QED
      BY <1>1, <3>3, <3>4, <3>5, <3>8
  <2>2. CASE MarkScanned(s)
    <3>1. /\ newScan' = [newScan EXCEPT ![s] = newScan[s] \union {Current(s)}]
          /\ newPosts' = newPosts
          /\ at' = [at EXCEPT ![s] = "register"] /\ query' = [query EXCEPT ![s] = query[s]]
          /\ infos' = [infos EXCEPT ![s] = Tail(infos[s])]
          /\ todo' = [todo EXCEPT ![s] = todo[s]]
      BY <1>1, <2>2 DEF MarkScanned
    <3>2. newScan' \in [Scanners -> SUBSET Channels]
      BY <1>1, <1>3, <3>1
    <3>3. WrittenInv'
      BY <1>1, <1>2, <1>3, <1>5, <3>1, IntakeAssumption DEF IInv, WrittenInv
    <3>4. Placed("register", query[s], Tail(infos[s]), todo[s])
      BY <1>1, <1>2, <1>3 DEF Placed, Places
    <3>5. ScannersOK' /\ CurrentInv' /\ QueryInv'
      BY <1>4, <1>5, <3>1, <3>4, ScannerMoves
    <3> QED
      BY <1>1, <3>1, <3>2, <3>3, <3>5
  <2> QED
    BY <2>1, <2>2
<1>8. TypeOK'
  BY <1>4, <1>7 DEF IInv, TypeOK, ScannersOK, Places, rows, telegram
<1> QED
  BY <1>6, <1>7, <1>8 DEF IInv

--------------------------------------------------------------------------------
(***************************************************************************)
(* The ends of a transaction.                                              *)
(***************************************************************************)

\* Nothing of a transaction is left in the session.
LEMMA NothingOpen ==
  ASSUME IInv, NEW s \in Scanners, Closed(s)
  PROVE  /\ newRow' \in [Scanners -> [Channels -> Faces \union {NoRow}]]
         /\ newScan' \in [Scanners -> SUBSET Channels] /\ newPosts' \in [Scanners -> SUBSET Posts]
         /\ newScan'[s] = {} /\ newPosts'[s] = {} /\ \A c \in Channels : newRow'[s][c] = NoRow
         /\ \A r \in Scanners \ {s} :
              newRow'[r] = newRow[r] /\ newScan'[r] = newScan[r] /\ newPosts'[r] = newPosts[r]
<1>1. /\ newRow \in [Scanners -> [Channels -> Faces \union {NoRow}]]
      /\ newScan \in [Scanners -> SUBSET Channels] /\ newPosts \in [Scanners -> SUBSET Posts]
  BY DEF IInv, TypeOK
<1>2. NoRows \in [Channels -> Faces \union {NoRow}] /\ \A c \in Channels : NoRows[c] = NoRow
  BY DEF NoRows
<1> QED
  BY <1>1, <1>2 DEF Closed

\* A commit keeps the rows there are, and what the others see of them.
LEMMA CommitAdds ==
  ASSUME IInv, NEW s \in Scanners, Commit(s)
  PROVE  /\ \A c \in Channels : channel[c] # NoRow => channel'[c] = channel[c]
         /\ \A c \in Channels : Read(s, c) => channel'[c] # NoRow /\ Fit(s, channel'[c])
         /\ \A r \in Scanners, c \in Channels : Read(r, c) => Read(r, c)'
<1>0. channel' = [c \in Channels |-> Row(s, c)] /\ Closed(s)
  BY DEF Commit
<1>1. \A c \in Channels : channel'[c] = Row(s, c)
  BY <1>0
<1>2. \A c \in Channels : channel[c] # NoRow => channel'[c] = channel[c]
  BY <1>1 DEF Row, IInv, NewInv
<1>3. \A c \in Channels : Read(s, c) => channel'[c] # NoRow /\ Fit(s, channel'[c])
  BY <1>1 DEF Read
<1>4. ASSUME NEW r \in Scanners, NEW c \in Channels, Read(r, c) PROVE Read(r, c)'
  <2>1. CASE r = s
    <3>1. newRow'[s][c] = NoRow
      BY <1>0, NothingOpen
    <3>2. Row(s, c)' = Row(s, c)
      BY <1>1, <3>1 DEF Row
    <3> QED
      BY <1>4, <2>1, <3>2 DEF Read, Fit, Excluded
  <2>2. CASE r # s
    <3>1. newRow'[r] = newRow[r]
      BY <1>0, <2>2, NothingOpen
    <3>2. CASE newRow[r][c] # NoRow
      BY <1>4, <3>1, <3>2 DEF Read, Row, Fit, Excluded
    <3>3. CASE newRow[r][c] = NoRow
      <4>1. channel[c] # NoRow /\ Row(r, c) = channel[c]
        BY <1>4, <3>3 DEF Read, Row
      <4>2. Row(r, c)' = Row(r, c)
        BY <1>2, <3>1, <3>3, <4>1 DEF Row
      <4> QED
        BY <1>4, <4>2 DEF Read, Fit, Excluded
    <3> QED
      BY <3>2, <3>3
  <2> QED
    BY <2>1, <2>2
<1> QED
  BY <1>2, <1>3, <1>4

LEMMA CommitKeeps == ASSUME IInv, NEW s \in Scanners, Commit(s) PROVE IInv'
<1>1. /\ at \in [Scanners -> Places] /\ query \in [Scanners -> 1 .. Len(Queries) + 1]
      /\ infos \in [Scanners -> Seq(Info)] /\ todo \in [Scanners -> Seq(Posts)]
      /\ query[s] <= Len(Queries) /\ Len(Queries) \in Nat
  BY QueriesCount DEF IInv, TypeOK, Places, QueryInv, Commit
<1>2. /\ Closed(s) /\ scanned' = scanned \union newScan[s] /\ stored' = stored \union newPosts[s]
      /\ channel' = [c \in Channels |-> Row(s, c)]
      /\ UNCHANGED <<telegram, infos, todo, faults>>
  BY DEF Commit
<1>3. /\ \A c \in Channels : channel[c] # NoRow => channel'[c] = channel[c]
      /\ \A c \in Channels : Read(s, c) => channel'[c] # NoRow /\ Fit(s, channel'[c])
      /\ \A r \in Scanners, c \in Channels : Read(r, c) => Read(r, c)'
  BY CommitAdds
<1>4. channel' \in [Channels -> Faces \union {NoRow}]
  BY <1>2 DEF IInv, TypeOK, Row
<1>5. /\ newScan[s] \subseteq Channels /\ newPosts[s] \subseteq Posts
      /\ \A c \in newScan[s] : Read(s, c)
      /\ \A p \in newPosts[s] : ChannelOf[p] \in Channels /\ Read(s, ChannelOf[p])
  BY IntakeAssumption DEF IInv, TypeOK, WrittenInv
<1>6. scanned' \subseteq {c \in Channels : channel'[c] # NoRow} /\ stored' \subseteq Posts
  BY <1>2, <1>3, <1>5 DEF IInv, TypeOK
<1>7. NewInv'
  <2> SUFFICES ASSUME NEW c \in Channels, NEW r \in Scanners, newRow'[r][c] # NoRow
               PROVE  channel'[c] = NoRow /\ \A q \in Scanners \ {r} : newRow'[q][c] = NoRow
    BY DEF NewInv
  <2>1. r # s /\ newRow[r][c] # NoRow
    BY <1>2, NothingOpen
  <2>2. channel[c] = NoRow /\ \A q \in Scanners \ {r} : newRow[q][c] = NoRow
    BY <2>1 DEF IInv, NewInv
  <2>3. channel'[c] = NoRow
    BY <1>2, <2>1, <2>2 DEF Row
  <2>4. \A q \in Scanners \ {r} : newRow'[q][c] = NoRow
    BY <1>2, <2>2, NothingOpen
  <2> QED
    BY <2>3, <2>4
<1>8. WrittenInv'
  <2>1. ASSUME NEW r \in Scanners
        PROVE  /\ newScan'[r] \subseteq newScan[r] /\ newScan[r] \subseteq Channels
               /\ newPosts'[r] \subseteq newPosts[r] /\ newPosts[r] \subseteq Posts
    BY <1>2, NothingOpen DEF IInv, TypeOK
  <2> QED
    BY <1>3, <2>1, IntakeAssumption DEF IInv, WrittenInv
<1>9. ScannersOK' /\ CurrentInv' /\ QueryInv'
  <2>1. Placed("search", query[s] + 1, infos[s], todo[s])
    BY <1>1 DEF Placed, Places
  <2>2. /\ at' = [at EXCEPT ![s] = "search"] /\ query' = [query EXCEPT ![s] = query[s] + 1]
        /\ infos' = [infos EXCEPT ![s] = infos[s]] /\ todo' = [todo EXCEPT ![s] = todo[s]]
    BY <1>1 DEF Commit
  <2>3. \A r \in Scanners \ {s} : newRow'[r] = newRow[r]
    BY <1>2, NothingOpen
  <2> QED
    BY <1>3, <2>1, <2>2, <2>3, ScannerMoves
<1>10. TypeOK'
  BY <1>2, <1>4, <1>6, <1>9, NothingOpen DEF IInv, TypeOK, ScannersOK, Places, telegram
<1>11. HistoryInv'
  BY <1>2 DEF IInv, HistoryInv, telegram
<1> QED
  BY <1>7, <1>8, <1>9, <1>10, <1>11 DEF IInv

LEMMA AbandonKeeps ==
  ASSUME IInv, NEW s \in Scanners, Violates(s) \/ DeadlockBroken(s) \/ Breaks(s)
  PROVE  IInv' /\ UNCHANGED rows
<1>1. /\ at \in [Scanners -> Places] /\ query \in [Scanners -> 1 .. Len(Queries) + 1]
      /\ infos \in [Scanners -> Seq(Info)] /\ todo \in [Scanners -> Seq(Posts)]
  BY DEF IInv, TypeOK, Places
<1>2. Abandon(s) /\ faults' \in 0 .. MaxFaults
  <2>1. CASE Violates(s) \/ DeadlockBroken(s)
    BY <2>1 DEF Violates, DeadlockBroken, IInv, TypeOK
  <2>2. CASE Breaks(s)
    <3>1. faults' = faults + 1 /\ faults < MaxFaults /\ Abandon(s)
      BY <2>2 DEF Breaks
    <3> QED
      BY <3>1, IntakeAssumption DEF IInv, TypeOK
  <2> QED
    BY <2>1, <2>2
<1>3. Closed(s) /\ UNCHANGED <<telegram, rows>>
  BY <1>2 DEF Abandon
<1>4. \A r \in Scanners \ {s}, c \in Channels : Read(r, c) => Read(r, c)'
  <2>1. channel' = channel /\ \A r \in Scanners \ {s} : newRow'[r] = newRow[r]
    BY <1>3, NothingOpen DEF rows
  <2> QED
    BY <2>1 DEF Read, Row, Fit, Excluded
<1>5. NewInv'
  <2>1. /\ channel' = channel /\ \A c \in Channels : newRow'[s][c] = NoRow
        /\ \A r \in Scanners \ {s} : newRow'[r] = newRow[r]
    BY <1>3, NothingOpen DEF rows
  <2> QED
    BY <2>1 DEF IInv, NewInv
<1>6. WrittenInv'
  <2> SUFFICES ASSUME NEW r \in Scanners
               PROVE  /\ \A c \in newScan'[r] : Read(r, c)'
                      /\ \A p \in newPosts'[r] : Read(r, ChannelOf[p])'
    BY DEF WrittenInv
  <2>1. CASE r = s
    BY <1>3, <2>1, NothingOpen
  <2>2. CASE r # s
    <3>1. newScan'[r] = newScan[r] /\ newPosts'[r] = newPosts[r]
      BY <1>3, <2>2, NothingOpen
    <3> QED
      BY <1>4, <2>2, <3>1, IntakeAssumption DEF IInv, TypeOK, WrittenInv
  <2> QED
    BY <2>1, <2>2
<1>7. ScannersOK' /\ CurrentInv' /\ QueryInv'
  <2>1. Placed(Rest(s), 1, <<>>, <<>>) /\ Rest(s) \notin {"insert", "fetch", "ingest", "store"}
    BY QueriesCount DEF Placed, Places, Rest
  <2>2. /\ at' = [at EXCEPT ![s] = Rest(s)] /\ query' = [query EXCEPT ![s] = 1]
        /\ infos' = [infos EXCEPT ![s] = <<>>] /\ todo' = [todo EXCEPT ![s] = <<>>]
    BY <1>2 DEF Abandon
  <2>3. \A r \in Scanners \ {s} : newRow'[r] = newRow[r]
    BY <1>3, NothingOpen
  <2> QED
    BY <1>4, <2>1, <2>2, <2>3, ScannerMoves
<1>8. TypeOK'
  BY <1>2, <1>3, <1>7, NothingOpen DEF IInv, TypeOK, ScannersOK, Places, telegram, rows
<1>9. HistoryInv'
  BY <1>3 DEF IInv, HistoryInv, telegram
<1> QED
  BY <1>3, <1>5, <1>6, <1>7, <1>8, <1>9 DEF IInv

--------------------------------------------------------------------------------
(***************************************************************************)
(* The specification.                                                      *)
(***************************************************************************)

\* Every step keeps the invariant.
LEMMA StepIInv == IInv /\ [Next]_vars => IInv'
<1> SUFFICES ASSUME IInv, [Next]_vars PROVE IInv'
  OBVIOUS
<1>1. CASE (\E p \in Posts : Publish(p)) \/ \E c \in Channels, f \in Faces : Change(c, f)
  BY <1>1, TelegramKeeps
<1>2. ASSUME NEW s \in Scanners,
             ScanStep(s) \/ DeadlockBroken(s) \/ SearchFails(s) \/ FetchFails(s) \/ Breaks(s)
      PROVE  IInv'
  BY <1>2, ReadingKeeps, InsertKeeps, WritingKeeps, CommitKeeps, AbandonKeeps DEF ScanStep
<1>3. CASE UNCHANGED vars
  <2>1. Untouched /\ UNCHANGED <<telegram, scanner, faults>>
    BY <1>3 DEF vars, Untouched
  <2>2. TypeOK' /\ HistoryInv' /\ QueryInv'
    BY <2>1 DEF IInv, TypeOK, HistoryInv, QueryInv, Untouched, rows, open, telegram, scanner
  <2>3. CurrentInv'
    BY <2>1 DEF IInv, CurrentInv, Current, Read, Row, Fit, Excluded, Untouched, rows, open, scanner
  <2> QED
    BY <2>1, <2>2, <2>3, UntouchedKeeps DEF IInv
<1> QED
  BY <1>1, <1>2, <1>3 DEF Next

LEMMA AlwaysIInv == Spec => []IInv
<1> QED
  BY InitIInv, StepIInv, PTL DEF Spec

\* The variables keep their types.
THEOREM TypeCorrect == Spec => []TypeOK
<1>1. IInv => TypeOK
  BY DEF IInv
<1> QED
  BY <1>1, AlwaysIInv, PTL

\* Whatever races the scanners run and whatever Telegram shows them, what a scanner commits
\* is of registered channels that by their row are fit for that scanner.
THEOREM FitByItsRow == Spec => OnlyFitChannelsRead
<1> DEFINE Fits == \A s \in Scanners, c \in Channels :
                     Commit(s) /\ (c \in newScan[s] \/ \E p \in newPosts[s] : ChannelOf[p] = c) =>
                       channel'[c] # NoRow /\ Fit(s, channel'[c])
<1>1. IInv /\ [Next]_vars => [Fits]_vars
  <2> SUFFICES ASSUME IInv, NEW s \in Scanners, NEW c \in Channels, Commit(s),
                      c \in newScan[s] \/ \E p \in newPosts[s] : ChannelOf[p] = c
               PROVE  channel'[c] # NoRow /\ Fit(s, channel'[c])
    BY DEF vars
  <2>1. Read(s, c)
    BY DEF IInv, WrittenInv
  <2> QED
    BY <2>1, CommitAdds
<1>2. Spec => [][Fits]_vars
  BY <1>1, AlwaysIInv, PTL DEF Spec
<1> QED
  BY <1>2 DEF OnlyFitChannelsRead

\* No error, conflict or deadlock undoes what a query committed, and the row a channel was
\* registered with is kept.
THEOREM CommittedIsKept == Spec => CommittedStands
<1> DEFINE Stands == /\ stored \subseteq stored' /\ scanned \subseteq scanned'
                     /\ \A c \in Channels : channel[c] # NoRow => channel'[c] = channel[c]
<1>1. IInv /\ [Next]_vars => [Stands]_vars
  <2> SUFFICES ASSUME IInv, Next PROVE Stands
    BY DEF vars
  <2>1. CASE (\E p \in Posts : Publish(p)) \/ \E c \in Channels, f \in Faces : Change(c, f)
    BY <2>1 DEF Publish, Change, rows
  <2>2. ASSUME NEW s \in Scanners,
               ScanStep(s) \/ DeadlockBroken(s) \/ SearchFails(s) \/ FetchFails(s) \/ Breaks(s)
        PROVE  Stands
    <3>1. CASE Commit(s)
      BY <3>1, CommitAdds DEF Commit
    <3>2. CASE Violates(s) \/ DeadlockBroken(s) \/ Breaks(s)
      BY <3>2, AbandonKeeps DEF rows
    <3>3. CASE \/ Begin(s) \/ Search(s) \/ SearchFails(s) \/ Register(s) \/ Insert(s) \/ Fetch(s)
               \/ FetchFails(s) \/ Ingest(s) \/ Store(s) \/ MarkScanned(s) \/ Finish(s)
      <4>1. UNCHANGED rows
        BY <3>3 DEF Begin, Search, SearchFails, Listed, Register, Insert, Fetch, FetchFails, Fetched,
                    Ingest, Store, MarkScanned, Finish
      <4> QED
        BY <4>1 DEF rows
    <3> QED
      BY <2>2, <3>1, <3>2, <3>3 DEF ScanStep
  <2> QED
    BY <2>1, <2>2 DEF Next
<1>2. Spec => [][Stands]_vars
  BY <1>1, AlwaysIInv, PTL DEF Spec
<1> QED
  BY <1>2 DEF CommittedStands

================================================================================
