----------------------------- MODULE DeskProofs -----------------------------
(***************************************************************************)
(* Proofs about the watchlist (Watchlist), the settings (ProviderChoice),  *)
(* the calls of the public data providers (Providers), matching and        *)
(* scoring (Events) and the monitoring database (Monitor), for every       *)
(* number of companies, settings, providers, news, contents and threads.   *)
(***************************************************************************)
EXTENDS Watchlist, ProviderChoice, Providers, Events, Monitor, DataFacts, SequenceTheorems, FiniteSetTheorems, TLAPS

-----------------------------------------------------------------------------
(* Watchlist.                                                              *)

RowsAre(s) == s \in Seq(Row)

LEMMA SeqOfRows ==
  ASSUME NEW s \in Seq(Row)
  PROVE  /\ DOMAIN s = 1..Len(s) /\ Len(s) \in Nat
         /\ \A i \in 1..Len(s) : s[i] \in Row
         /\ Whos(s) = {s[i].who : i \in 1..Len(s)}
         /\ RowKeys(s) = {RowKey(s[i]) : i \in 1..Len(s)}
         /\ Whos(s) \subseteq Watched
  <1>1. DOMAIN s = 1..Len(s) /\ Len(s) \in Nat /\ \A i \in 1..Len(s) : s[i] \in Row
    OBVIOUS
  <1>2. Whos(s) = {s[i].who : i \in 1..Len(s)} /\ RowKeys(s) = {RowKey(s[i]) : i \in 1..Len(s)}
    BY <1>1 DEF Whos, RowKeys
  <1>3. \A i \in 1..Len(s) : s[i].who \in Watched
    BY <1>1 DEF Row
  <1> QED
    BY <1>1, <1>2, <1>3

LEMMA KeyOfRow ==
  ASSUME NEW r \in Row
  PROVE  RowKey(r) \in Key /\ RowKey(r).who = r.who
  BY DEF Row, Key, RowKey

LEMMA WhosFromElements ==
  ASSUME NEW s \in Seq(Row)
  PROVE  Whos(s) = {e.who : e \in Elements(s)}
  BY SeqOfRows DEF Elements

LEMMA WithoutHolds ==
  ASSUME NEW s \in Seq(Row), NEW k
  PROVE  /\ Without(s, k) \in Seq(Row)
         /\ Whos(Without(s, k)) = {s[i].who : i \in {n \in 1..Len(s) : RowKey(s[n]) # k}}
  <1> DEFINE places == {i \in 1..Len(s) : RowKey(s[i]) # k}
             some == RowsAt(s, places)
  <1>1. Without(s, k) = some
    BY SeqOfRows DEF Without
  <1>2. some \in Seq(Row) /\ Elements(some) = {s[i] : i \in places}
    <2>1. places \in SUBSET (1..Len(s))
      OBVIOUS
    <2> HIDE DEF places
    <2> QED
      BY <2>1, RowsAtHolds
  <1> HIDE DEF some
  <1>3. Whos(some) = {e.who : e \in Elements(some)}
    BY <1>2, WhosFromElements
  <1> QED
    BY <1>1, <1>2, <1>3

(* A set of places has a last one. *)
LEMMA GreatestPlace ==
  ASSUME NEW n \in Nat, NEW T \in SUBSET (1..n), T # {}
  PROVE  \E m \in T : \A j \in T : j <= m
  <1> DEFINE down == {n - t : t \in T}
             least == Min(down)
  <1>1. \A t \in T : t \in Nat /\ n - t \in Nat
    OBVIOUS
  <1>2. down \in SUBSET Nat /\ down # {}
    BY <1>1
  <1>3. least \in down /\ \A y \in down : least <= y
    <2> HIDE DEF down
    <2> QED
      BY <1>2, LeastOfSet
  <1> HIDE DEF least
  <1>4. PICK m \in T : least = n - m
    BY <1>3
  <1>5. \A j \in T : n - m <= n - j
    BY <1>3, <1>4
  <1>6. \A j \in T : j <= m
    BY <1>1, <1>5
  <1> QED
    BY <1>6

(* The first place of a list with some key. *)
LEMMA FirstPlace ==
  ASSUME NEW s \in Seq(Row), NEW k \in RowKeys(s)
  PROVE  \E i \in 1..Len(s) : RowKey(s[i]) = k /\ \A j \in 1..(i - 1) : RowKey(s[j]) # k
  <1> DEFINE T == {i \in 1..Len(s) : RowKey(s[i]) = k}
             first == Min(T)
  <1>1. Len(s) \in Nat
    OBVIOUS
  <1>2. T # {} /\ T \in SUBSET Nat
    BY <1>1, SeqOfRows
  <1>3. first \in T /\ \A j \in T : first <= j
    <2> HIDE DEF T
    <2> QED
      BY <1>2, LeastOfSet
  <1> HIDE DEF first
  <1>4. \A j \in 1..(first - 1) : j \in 1..Len(s) /\ ~(first <= j)
    BY <1>1, <1>3
  <1>5. \A j \in 1..(first - 1) : RowKey(s[j]) # k
    BY <1>3, <1>4
  <1> QED
    BY <1>3, <1>5

LEMMA TargetHolds ==
  ASSUME NEW s \in Seq(Row), NEW k \in RowKeys(s)
  PROVE  Target(s, k) \in Row /\ RowKey(Target(s, k)) = k /\ Target(s, k).who = k.who
  <1> DEFINE i == CHOOSE i \in DOMAIN s : RowKey(s[i]) = k /\ \A j \in 1..(i - 1) : RowKey(s[j]) # k
  <1>1. DOMAIN s = 1..Len(s)
    BY SeqOfRows
  <1>2. i \in 1..Len(s) /\ RowKey(s[i]) = k
    BY <1>1, FirstPlace
  <1>3. Target(s, k) = s[i]
    BY DEF Target
  <1> HIDE DEF i
  <1>4. s[i] \in Row
    BY <1>2
  <1> QED
    BY <1>2, <1>3, <1>4, KeyOfRow

LEMMA LastOfHolds ==
  ASSUME NEW s \in Seq(Row), NEW k \in RowKeys(s)
  PROVE  LastOf(s, k) \in Row /\ LastOf(s, k).who = k.who
  <1> DEFINE T == {i \in 1..Len(s) : RowKey(s[i]) = k}
             last == CHOOSE i \in DOMAIN s : RowKey(s[i]) = k /\ \A j \in DOMAIN s : RowKey(s[j]) = k => j <= i
  <1>1. DOMAIN s = 1..Len(s) /\ Len(s) \in Nat
    BY SeqOfRows
  <1>2. T # {} /\ T \in SUBSET (1..Len(s))
    BY SeqOfRows
  <1>3. PICK m \in T : \A j \in T : j <= m
    <2> HIDE DEF T
    <2> QED
      BY <1>1, <1>2, GreatestPlace
  <1>4. last \in 1..Len(s) /\ RowKey(s[last]) = k
    BY <1>1, <1>3
  <1>5. LastOf(s, k) = s[last]
    BY DEF LastOf
  <1> HIDE DEF last
  <1>6. s[last] \in Row
    BY <1>4
  <1> QED
    BY <1>4, <1>5, <1>6, KeyOfRow

(* The dictionary of a list has its companies. *)
LEMMA OnePerKeyHolds ==
  ASSUME NEW s \in Seq(Row)
  PROVE  OnePerKey(s) \in Seq(Row) /\ Whos(OnePerKey(s)) = Whos(s)
  <1> DEFINE latest == [i \in 1..Len(s) |-> LastOf(s, RowKey(s[i]))]
             places == {i \in 1..Len(s) : \A j \in 1..(i - 1) : RowKey(s[j]) # RowKey(s[i])}
             some == RowsAt(latest, places)
  <1>1. Len(s) \in Nat /\ \A i \in 1..Len(s) : s[i] \in Row /\ RowKey(s[i]) \in RowKeys(s)
    BY SeqOfRows
  <1>2. OnePerKey(s) = some
    BY SeqOfRows DEF OnePerKey
  <1>3. \A i \in 1..Len(s) : latest[i] \in Row /\ latest[i].who = s[i].who
    BY <1>1, LastOfHolds, KeyOfRow
  <1>4. latest \in Seq(Row) /\ Len(latest) = Len(s)
    <2>1. latest \in [1..Len(s) -> Row]
      BY <1>1, <1>3
    <2> QED
      BY <1>1, <2>1
  <1>5. places \in SUBSET (1..Len(s))
    OBVIOUS
  <1>6. \A i \in 1..Len(s) : \E n \in places : s[n].who = s[i].who
    <2> SUFFICES ASSUME NEW i \in 1..Len(s)
                 PROVE  \E n \in places : s[n].who = s[i].who
      OBVIOUS
    <2>1. PICK n \in 1..Len(s) : RowKey(s[n]) = RowKey(s[i]) /\ \A j \in 1..(n - 1) : RowKey(s[j]) # RowKey(s[i])
      BY <1>1, FirstPlace
    <2>2. n \in places
      BY <2>1
    <2> QED
      BY <1>1, <2>1, <2>2, KeyOfRow
  <1> HIDE DEF latest, places
  <1>7. some \in Seq(Row) /\ Elements(some) = {latest[i] : i \in places}
    BY <1>4, <1>5, RowsAtHolds
  <1> HIDE DEF some
  <1>8. Whos(some) = {e.who : e \in Elements(some)}
    BY <1>7, WhosFromElements
  <1>9. Whos(some) = {s[i].who : i \in places}
    BY <1>3, <1>5, <1>7, <1>8
  <1>10. Whos(s) = {s[i].who : i \in 1..Len(s)}
    BY SeqOfRows
  <1>11. Whos(some) \subseteq Whos(s)
    BY <1>5, <1>9, <1>10
  <1>12. ASSUME NEW who \in Whos(s)
         PROVE  who \in Whos(some)
    <2>1. PICK i \in 1..Len(s) : who = s[i].who
      BY ONLY <1>10, <1>12
    <2>2. PICK n \in places : s[n].who = s[i].who
      BY ONLY <1>6, <2>1
    <2> QED
      BY ONLY <1>9, <2>1, <2>2
  <1>13. Whos(some) = Whos(s)
    BY ONLY <1>11, <1>12
  <1> QED
    BY <1>2, <1>7, <1>13

(* A row in place of those with its key: the companies stay, and so does   *)
(* every other key.                                                        *)
LEMMA ReplacedHolds ==
  ASSUME NEW s \in Seq(Row), NEW k, NEW r \in Row, r.who = k.who
  PROVE  /\ Replaced(s, k, r) \in Seq(Row) /\ Len(Replaced(s, k, r)) = Len(s)
         /\ Whos(Replaced(s, k, r)) = Whos(s)
         /\ \A o \in RowKeys(s) : o # k => o \in RowKeys(Replaced(s, k, r))
         /\ \A i \in 1..Len(s) : RowKey(s[i]) = k => Replaced(s, k, r)[i] = r
  <1> DEFINE new == Replaced(s, k, r)
  <1>1. DOMAIN s = 1..Len(s) /\ Len(s) \in Nat /\ \A i \in 1..Len(s) : s[i] \in Row
    BY SeqOfRows
  <1>2. new = [i \in 1..Len(s) |-> IF RowKey(s[i]) = k THEN r ELSE s[i]]
    BY <1>1 DEF Replaced
  <1>3. new \in [1..Len(s) -> Row]
    BY <1>1, <1>2
  <1>4. new \in Seq(Row) /\ Len(new) = Len(s)
    BY <1>1, <1>3
  <1>5. \A i \in 1..Len(s) : new[i] = IF RowKey(s[i]) = k THEN r ELSE s[i]
    BY <1>2
  <1> HIDE DEF new
  <1>6. \A i \in 1..Len(s) : new[i].who = s[i].who
    BY <1>1, <1>5, KeyOfRow
  <1>7. Whos(new) = {new[i].who : i \in 1..Len(s)} /\ RowKeys(new) = {RowKey(new[i]) : i \in 1..Len(s)}
    BY <1>4, SeqOfRows
  <1>8. Whos(new) = Whos(s)
    BY <1>6, <1>7, SeqOfRows
  <1>9. \A o \in RowKeys(s) : o # k => o \in RowKeys(new)
    BY <1>5, <1>7, SeqOfRows
  <1> QED
    BY <1>4, <1>5, <1>8, <1>9 DEF new

Asking == {"openMark", "writeMark", "ask", "openMerged", "writeMerged"}

Rewriting == {"openMark", "writeMark", "openMerged", "writeMerged"}

Filling == {"write", "writeMark", "writeMerged", "writeAll"}

ActorRecord ==
    [op: {"none", "add", "remove", "one", "all"},
     at: {"idle", "open", "write", "listAll", "list", "openMark", "writeMark",
          "ask", "openMerged", "writeMerged", "openAll", "writeAll"},
     key: Key, seen: Seq(Row), out: Seq(Row), todo: Seq(Key), kept: Seq(Row)]

(* What a refresh has listed holds the row it is about, and what it writes *)
(* is that list with another row in its place.                             *)
ActorOK(k) ==
    /\ k \in ActorRecord
    /\ k.at \in Asking => k.key \in RowKeys(k.seen)
    /\ k.at \in Rewriting => \E r \in Row : r.who = k.key.who /\ k.out = Replaced(k.seen, k.key, r)

(* The rows a refresh of all of them still has to go through are in the    *)
(* list, or one of their company has been kept.                            *)
Remaining(k, list) ==
    \A i \in 1..Len(k.todo) : k.todo[i] \in RowKeys(list) \/ k.todo[i].who \in Whos(k.kept)

AllOf(k) == Whos(k.kept) \cup {k.key.who} \cup {k.todo[i].who : i \in 1..Len(k.todo)}

(* What an actor at work will write is what the user wants, and after the  *)
(* write of the user himself what he will want.                            *)
Carries(k, list, wants) ==
    /\ k.at \in {"open", "write"} =>
         Whos(k.out) = IF k.op = "add" THEN wants \cup {k.key.who} ELSE wants \ {k.key.who}
    /\ k.at \in Asking => Whos(k.seen) = wants
    /\ k.op = "all" /\ k.at \in Asking \cup {"list"} => AllOf(k) = wants
    /\ k.op = "all" /\ k.at \in Asking => Remaining(k, k.seen)
    /\ k.op = "all" /\ k.at = "list" =>
         Remaining(k, list) /\ (k.key \in RowKeys(list) \/ k.key.who \in Whos(k.kept))
    /\ k.at = "listAll" => k.kept = <<>>
    /\ k.at \in {"openAll", "writeAll"} => Whos(k.out) = wants

(* Undisturbed: one actor at a time. *)
Quiet ==
    /\ \A a, b \in Actors : Busy(a) /\ Busy(b) => a = b
    /\ spoilt = {}
    /\ Whos(rows) = wanted
    /\ torn => Writing # {}
    /\ \A a \in Actors : Carries(actor[a], rows, wanted)

WatchlistInv ==
    /\ WatchlistTypeOK
    /\ \A a \in Actors : ActorOK(actor[a])
    /\ ~disturbed => Quiet

LEMMA AtRestOK == ActorOK(AtRest) /\ AtRest.at = "idle" /\ AtRest.todo = <<>> /\ AtRest.kept = <<>>
  <1> DEFINE c == CHOOSE c \in Watched : TRUE
  <1>1. c \in Watched
    BY WatchlistAssumption
  <1> HIDE DEF c
  <1>2. Added(c) \in Row
    BY <1>1 DEF Added, Row
  <1>3. RowKey(Added(c)) \in Key
    BY <1>2, KeyOfRow
  <1>4. AtRest = [op |-> "none", at |-> "idle", key |-> RowKey(Added(c)), seen |-> <<>>, out |-> <<>>,
                  todo |-> <<>>, kept |-> <<>>]
    BY DEF AtRest, c
  <1>5. <<>> \in Seq(Row) /\ <<>> \in Seq(Key)
    OBVIOUS
  <1>6. AtRest \in ActorRecord
    BY <1>3, <1>4, <1>5 DEF ActorRecord
  <1> QED
    BY <1>4, <1>6 DEF ActorOK, Asking, Rewriting

LEMMA InitWatchlistInv == WatchlistInit => WatchlistInv
  <1> SUFFICES ASSUME WatchlistInit
               PROVE  WatchlistInv
    OBVIOUS
  <1>1. \A a \in Actors : actor[a] = AtRest
    BY DEF WatchlistInit
  <1>2. actor \in [Actors -> ActorRecord]
    BY <1>1, AtRestOK DEF ActorOK, WatchlistInit
  <1>3. WatchlistTypeOK
    <2>1. <<>> \in Seq(Row) /\ 0 \in 0..MaxEdits /\ 0 \in 0..MaxCrashes
      BY WatchlistAssumption
    <2> QED
      BY <1>2, <2>1 DEF WatchlistInit, WatchlistTypeOK, ActorRecord
  <1>4. Quiet
    <2>1. Whos(rows) = {} /\ wanted = {} /\ spoilt = {} /\ torn = FALSE
      BY DEF WatchlistInit, Whos
    <2>2. \A a \in Actors : ~Busy(a)
      BY <1>1, AtRestOK DEF Busy
    <2>3. \A a \in Actors : Carries(actor[a], rows, wanted)
      BY <1>1, AtRestOK DEF Carries, Asking
    <2> QED
      BY <2>1, <2>2, <2>3 DEF Quiet
  <1> QED
    BY <1>1, <1>3, <1>4, AtRestOK DEF WatchlistInv

(* A step after which one actor is at k.  Undisturbed, the others are idle.*)
LEMMA ActorStep ==
  ASSUME WatchlistInv, NEW a \in Actors, NEW k, ActorOK(k),
         actor' = [actor EXCEPT ![a] = k],
         rows' \in Seq(Row), shown' \in Seq(Row), torn' \in BOOLEAN, disturbed' \in BOOLEAN,
         spoilt' \subseteq Actors, signals' \in Nat, requests' \in 0..MaxEdits, crashes' = crashes,
         wanted' \subseteq Watched,
         ~disturbed' =>
           /\ \A b \in Actors : b # a => ~Busy(b)
           /\ spoilt' = {}
           /\ Whos(rows') = wanted'
           /\ torn' => k.at \in Filling
           /\ Carries(k, rows', wanted')
  PROVE  WatchlistInv'
  <1>1. actor \in [Actors -> ActorRecord] /\ k \in ActorRecord
    BY DEF WatchlistInv, WatchlistTypeOK, ActorRecord, ActorOK
  <1>2. actor'[a] = k /\ \A b \in Actors : b # a => actor'[b] = actor[b]
    BY <1>1
  <1>3. WatchlistTypeOK'
    <2>1. actor' \in [Actors -> ActorRecord]
      BY <1>1
    <2>2. crashes' \in 0..MaxCrashes
      BY DEF WatchlistInv, WatchlistTypeOK
    <2> QED
      BY <2>1, <2>2 DEF WatchlistTypeOK, ActorRecord
  <1>4. \A b \in Actors : ActorOK(actor'[b])
    BY <1>2 DEF WatchlistInv
  <1>5. ASSUME ~disturbed'
        PROVE  Quiet'
    <2>1. \A b \in Actors : b # a => actor'[b].at = "idle"
      BY <1>2, <1>5 DEF Busy
    <2>2. \A b \in Actors : Carries(actor'[b], rows', wanted')
      <3> SUFFICES ASSUME NEW b \in Actors
                   PROVE  Carries(actor'[b], rows', wanted')
        OBVIOUS
      <3>1. CASE b = a
        BY <1>2, <1>5, <3>1
      <3>2. CASE b # a
        BY <2>1, <3>2 DEF Carries, Asking
      <3> QED
        BY <3>1, <3>2
    <2>3. torn' => Writing' # {}
      BY <1>2, <1>5 DEF Writing, Filling
    <2>4. \A b, c \in Actors : Busy(b)' /\ Busy(c)' => b = c
      BY <2>1 DEF Busy
    <2> QED
      BY <1>5, <2>2, <2>3, <2>4 DEF Quiet
  <1> QED
    BY <1>3, <1>4, <1>5 DEF WatchlistInv

LEMMA WatchlistTypes ==
  ASSUME WatchlistInv, NEW a \in Actors
  PROVE  /\ actor \in [Actors -> ActorRecord] /\ ActorOK(actor[a])
         /\ actor[a].key \in Key /\ actor[a].key.who \in Watched
         /\ actor[a].seen \in Seq(Row) /\ actor[a].out \in Seq(Row) /\ actor[a].kept \in Seq(Row)
         /\ actor[a].todo \in Seq(Key)
         /\ rows \in Seq(Row) /\ shown \in Seq(Row) /\ ListItems \in Seq(Row)
         /\ torn \in BOOLEAN /\ disturbed \in BOOLEAN /\ spoilt \subseteq Actors /\ signals \in Nat
         /\ requests \in 0..MaxEdits /\ wanted \subseteq Watched
  <1>1. actor \in [Actors -> ActorRecord] /\ ActorOK(actor[a]) /\ actor[a] \in ActorRecord
    BY DEF WatchlistInv, WatchlistTypeOK, ActorRecord, ActorOK
  <1>2. /\ rows \in Seq(Row) /\ shown \in Seq(Row)
        /\ torn \in BOOLEAN /\ disturbed \in BOOLEAN /\ spoilt \subseteq Actors /\ signals \in Nat
        /\ requests \in 0..MaxEdits /\ wanted \subseteq Watched
    BY DEF WatchlistInv, WatchlistTypeOK
  <1>3. ListItems \in Seq(Row)
    <2>1. <<>> \in Seq(Row)
      OBVIOUS
    <2> QED
      BY <1>2, <2>1 DEF ListItems
  <1>4. /\ actor[a].key \in Key
        /\ actor[a].seen \in Seq(Row) /\ actor[a].out \in Seq(Row) /\ actor[a].kept \in Seq(Row)
        /\ actor[a].todo \in Seq(Key)
    BY <1>1 DEF ActorRecord
  <1>5. actor[a].key.who \in Watched
    BY <1>4 DEF Key
  <1> QED
    BY <1>1, <1>2, <1>3, <1>4, <1>5

(* What the interface thread and the workers find when nobody disturbs.    *)
LEMMA QuietFacts ==
  ASSUME WatchlistInv, ~disturbed, NEW a \in Actors
  PROVE  /\ spoilt = {} /\ Whos(rows) = wanted /\ Carries(actor[a], rows, wanted)
         /\ Busy(a) => \A b \in Actors : b # a => ~Busy(b)
         /\ (\A b \in Actors : b # a => ~Busy(b)) /\ actor[a].at \notin Filling => ~torn /\ ListItems = rows
  <1>1. Quiet
    BY DEF WatchlistInv
  <1>2. ASSUME \A b \in Actors : b # a => ~Busy(b), actor[a].at \notin Filling
        PROVE  ~torn
    <2>1. Writing = {}
      BY <1>2 DEF Writing, Filling, Busy
    <2> QED
      BY <1>1, <2>1 DEF Quiet
  <1> QED
    BY <1>1, <1>2 DEF Quiet, ListItems

LEMMA WhosOfAppend ==
  ASSUME NEW s \in Seq(Row), NEW r \in Row
  PROVE  Append(s, r) \in Seq(Row) /\ Whos(Append(s, r)) = Whos(s) \cup {r.who}
  <1>1. Append(s, r) \in Seq(Row) /\ Elements(Append(s, r)) = Elements(s) \cup {r}
    BY ElementsOfAppend
  <1> QED
    BY <1>1, WhosFromElements

LEMMA HeadAndTail ==
  ASSUME NEW S, NEW s \in Seq(S), s # <<>>
  PROVE  /\ Head(s) \in S /\ Head(s) = s[1] /\ Tail(s) \in Seq(S) /\ Len(Tail(s)) = Len(s) - 1
         /\ \A i \in 1..Len(s) - 1 : Tail(s)[i] = s[i + 1]
         /\ Len(s) \in Nat /\ Len(s) >= 1
  OBVIOUS

LEMMA ElementsOfTail ==
  ASSUME NEW S, NEW s \in Seq(S), s # <<>>
  PROVE  Elements(s) = {Head(s)} \cup Elements(Tail(s))
  <1>1. /\ Head(s) = s[1] /\ Len(Tail(s)) = Len(s) - 1
        /\ \A i \in 1..Len(s) - 1 : Tail(s)[i] = s[i + 1]
        /\ Len(s) \in Nat /\ Len(s) >= 1
    BY HeadAndTail
  <1>2. \A e : e \in Elements(s) <=> \E i \in 1..Len(s) : e = s[i]
    BY DEF Elements
  <1>3. \A e : e \in Elements(Tail(s)) <=> \E i \in 1..Len(s) - 1 : e = s[i + 1]
    BY <1>1 DEF Elements
  <1>4. \A i \in 1..Len(s) : i = 1 \/ (i - 1 \in 1..Len(s) - 1 /\ (i - 1) + 1 = i)
    BY <1>1
  <1>5. 1 \in 1..Len(s) /\ \A i \in 1..Len(s) - 1 : i + 1 \in 1..Len(s)
    BY <1>1
  <1>6. ASSUME NEW e
        PROVE  e \in Elements(s) <=> e \in {Head(s)} \cup Elements(Tail(s))
    <2>1. ASSUME NEW i \in 1..Len(s), e = s[i]
          PROVE  e \in {Head(s)} \cup Elements(Tail(s))
      BY <1>1, <1>3, <1>4, <2>1
    <2>2. ASSUME e \in {Head(s)} \cup Elements(Tail(s))
          PROVE  e \in Elements(s)
      BY <1>1, <1>2, <1>3, <1>5, <2>2
    <2> QED
      BY <1>2, <2>1, <2>2
  <1> QED
    BY <1>6

(* The user. *)
LEMMA AddCompanyStep ==
  ASSUME WatchlistInv, NEW c \in Watched, AddCompany(c)
  PROVE  WatchlistInv'
  <1> DEFINE listed == Append(ListItems, Added(c))
             k == [AtRest EXCEPT !.op = "add", !.at = "open", !.key = RowKey(Added(c)), !.out = OnePerKey(listed)]
  <1>0. "ui" \in Actors
    BY DEF Actors
  <1>1. Added(c) \in Row /\ Added(c).who = c
    BY DEF Added, Row
  <1>2. listed \in Seq(Row) /\ Whos(listed) = Whos(ListItems) \cup {c}
    BY <1>0, <1>1, WatchlistTypes, WhosOfAppend
  <1> HIDE DEF listed
  <1>3. OnePerKey(listed) \in Seq(Row) /\ Whos(OnePerKey(listed)) = Whos(ListItems) \cup {c}
    BY <1>2, OnePerKeyHolds
  <1>4. RowKey(Added(c)) \in Key /\ RowKey(Added(c)).who = c
    BY <1>1, KeyOfRow
  <1>5. /\ AtRest \in ActorRecord
        /\ ~Busy("ui") /\ requests < MaxEdits /\ requests' = requests + 1
        /\ actor' = [actor EXCEPT !["ui"] = k]
        /\ UNCHANGED <<fileVars, shown, signals, crashes, wanted>>
        /\ disturbed' = (disturbed \/ Overlaps("ui"))
    BY AtRestOK DEF AddCompany, Begins, ActorOK, listed
  <1>6. /\ k \in ActorRecord /\ k.op = "add" /\ k.at = "open" /\ k.key = RowKey(Added(c))
        /\ k.out = OnePerKey(listed)
    BY <1>3, <1>4, <1>5 DEF ActorRecord
  <1> HIDE DEF k
  <1>7. ActorOK(k)
    BY <1>6 DEF ActorOK, Asking, Rewriting
  <1>8. requests' \in 0..MaxEdits /\ disturbed' \in BOOLEAN
    BY <1>0, <1>5, WatchlistTypes, WatchlistAssumption
  <1>9. ASSUME ~disturbed'
        PROVE  /\ \A b \in Actors : b # "ui" => ~Busy(b)
               /\ spoilt' = {} /\ Whos(rows') = wanted' /\ ~torn'
               /\ Carries(k, rows', wanted')
    <2>1. ~disturbed /\ \A b \in Actors : b # "ui" => ~Busy(b)
      BY <1>5, <1>9 DEF Overlaps
    <2>2. spoilt = {} /\ Whos(rows) = wanted /\ ~torn /\ ListItems = rows
      BY <1>0, <1>5, <2>1, QuietFacts DEF Busy, Filling
    <2>3. UNCHANGED <<rows, torn, spoilt, wanted>>
      BY <1>5 DEF fileVars
    <2>4. Carries(k, rows', wanted')
      BY <1>3, <1>4, <1>6, <2>2, <2>3 DEF Carries, Asking
    <2> QED
      BY <2>1, <2>2, <2>3, <2>4
  <1> QED
    BY <1>0, <1>5, <1>7, <1>8, <1>9, WatchlistTypes, ActorStep DEF fileVars

LEMMA RemoveCompanyStep ==
  ASSUME WatchlistInv, NEW i \in DOMAIN shown, RemoveCompany(shown[i])
  PROVE  WatchlistInv'
  <1> DEFINE r == shown[i]
             left == Without(ListItems, RowKey(r))
             k == [AtRest EXCEPT !.op = "remove", !.at = "open", !.key = RowKey(r), !.out = left]
  <1>0. "ui" \in Actors
    BY DEF Actors
  <1>1. r \in Row /\ RowKey(r) \in Key /\ RowKey(r).who = r.who
    BY <1>0, WatchlistTypes, SeqOfRows, KeyOfRow
  <1>2. left \in Seq(Row)
    BY <1>0, WatchlistTypes, WithoutHolds
  <1>3. /\ AtRest \in ActorRecord
        /\ ~Busy("ui") /\ requests < MaxEdits /\ requests' = requests + 1
        /\ actor' = [actor EXCEPT !["ui"] = k]
        /\ UNCHANGED <<fileVars, shown, signals, crashes, wanted>>
        /\ disturbed' = (disturbed \/ Overlaps("ui") \/ r.who \in Whos(left))
    BY AtRestOK DEF RemoveCompany, Begins, ActorOK
  <1> HIDE DEF left
  <1>4. k \in ActorRecord /\ k.op = "remove" /\ k.at = "open" /\ k.key = RowKey(r) /\ k.out = left
    BY <1>1, <1>2, <1>3 DEF ActorRecord
  <1> HIDE DEF k
  <1>5. ActorOK(k)
    BY <1>4 DEF ActorOK, Asking, Rewriting
  <1>6. requests' \in 0..MaxEdits /\ disturbed' \in BOOLEAN
    BY <1>0, <1>3, WatchlistTypes, WatchlistAssumption
  <1>7. ASSUME ~disturbed'
        PROVE  /\ \A b \in Actors : b # "ui" => ~Busy(b)
               /\ spoilt' = {} /\ Whos(rows') = wanted' /\ ~torn'
               /\ Carries(k, rows', wanted')
    <2>1. ~disturbed /\ r.who \notin Whos(left) /\ \A b \in Actors : b # "ui" => ~Busy(b)
      BY <1>3, <1>7 DEF Overlaps
    <2>2. spoilt = {} /\ Whos(rows) = wanted /\ ~torn /\ ListItems = rows
      BY <1>0, <1>3, <2>1, QuietFacts DEF Busy, Filling
    <2>3. UNCHANGED <<rows, torn, spoilt, wanted>>
      BY <1>3 DEF fileVars
    <2>4. Whos(left) = wanted \ {r.who}
      <3>1. rows \in Seq(Row)
        BY <1>0, WatchlistTypes
      <3>2. Whos(left) = {rows[n].who : n \in {m \in 1..Len(rows) : RowKey(rows[m]) # RowKey(r)}}
        BY <2>2, <3>1, WithoutHolds DEF left
      <3>3. Whos(rows) = {rows[n].who : n \in 1..Len(rows)}
        BY <3>1, SeqOfRows
      <3>4. \A n \in 1..Len(rows) : RowKey(rows[n]).who = rows[n].who
        BY <3>1, SeqOfRows, KeyOfRow
      <3>5. \A n \in 1..Len(rows) : RowKey(rows[n]) = RowKey(r) => rows[n].who = r.who
        BY <1>1, <3>4
      <3> QED
        BY <2>1, <2>2, <3>2, <3>3, <3>5
    <2>5. Carries(k, rows', wanted')
      BY <1>1, <1>4, <2>3, <2>4 DEF Carries, Asking
    <2> QED
      BY <2>1, <2>2, <2>3, <2>5
  <1> QED
    BY <1>0, <1>3, <1>5, <1>6, <1>7, WatchlistTypes, ActorStep DEF fileVars

(* A worker is handed a refresh. *)
LEMMA RefreshStep ==
  ASSUME WatchlistInv, NEW j \in Jobs, NEW op \in {"one", "all"}, NEW at \in {"list", "listAll"}, NEW key \in Key,
         at = "list" => op = "one",
         Begins(j, [AtRest EXCEPT !.op = op, !.at = at, !.key = key]),
         disturbed' = (disturbed \/ Overlaps(j))
  PROVE  WatchlistInv'
  <1> DEFINE k == [AtRest EXCEPT !.op = op, !.at = at, !.key = key]
  <1>0. j \in Actors
    BY DEF Actors
  <1>1. /\ AtRest \in ActorRecord /\ AtRest.kept = <<>>
        /\ requests < MaxEdits /\ requests' = requests + 1
        /\ actor' = [actor EXCEPT ![j] = k]
        /\ UNCHANGED <<fileVars, shown, signals, crashes, wanted>>
    BY AtRestOK DEF Begins, ActorOK
  <1>2. k \in ActorRecord /\ k.op = op /\ k.at = at /\ k.kept = <<>>
    BY <1>1 DEF ActorRecord
  <1>3. ~Busy(j)
    BY DEF Begins
  <1> HIDE DEF k
  <1>4. ActorOK(k)
    BY <1>2 DEF ActorOK, Asking, Rewriting
  <1>5. requests' \in 0..MaxEdits /\ disturbed' \in BOOLEAN
    BY <1>0, <1>1, WatchlistTypes, WatchlistAssumption
  <1>6. ASSUME ~disturbed'
        PROVE  /\ \A b \in Actors : b # j => ~Busy(b)
               /\ spoilt' = {} /\ Whos(rows') = wanted' /\ ~torn'
               /\ Carries(k, rows', wanted')
    <2>1. ~disturbed /\ \A b \in Actors : b # j => ~Busy(b)
      BY <1>6 DEF Overlaps
    <2>2. spoilt = {} /\ Whos(rows) = wanted /\ ~torn /\ ListItems = rows
      BY <1>0, <1>3, <2>1, QuietFacts DEF Busy, Filling
    <2>3. UNCHANGED <<rows, torn, spoilt, wanted>>
      BY <1>1 DEF fileVars
    <2>4. Carries(k, rows', wanted')
      BY <1>2 DEF Carries, Asking
    <2> QED
      BY <2>1, <2>2, <2>3, <2>4
  <1> QED
    BY <1>0, <1>1, <1>4, <1>5, <1>6, WatchlistTypes, ActorStep DEF fileVars

LEMMA RefreshCompanyStep ==
  ASSUME WatchlistInv, NEW j \in Jobs, NEW i \in DOMAIN shown, RefreshCompany(j, shown[i])
  PROVE  WatchlistInv'
  <1>1. j \in Actors
    BY DEF Actors
  <1>2. RowKey(shown[i]) \in Key
    BY <1>1, WatchlistTypes, SeqOfRows, KeyOfRow
  <1>3. /\ Begins(j, [AtRest EXCEPT !.op = "one", !.at = "list", !.key = RowKey(shown[i])])
        /\ disturbed' = (disturbed \/ Overlaps(j))
    BY DEF RefreshCompany
  <1> QED
    BY <1>2, <1>3, RefreshStep

LEMMA RefreshAllStep ==
  ASSUME WatchlistInv, NEW j \in Jobs, RefreshAll(j)
  PROVE  WatchlistInv'
  <1>1. AtRest \in ActorRecord
    BY AtRestOK DEF ActorOK
  <1>2. AtRest.key \in Key
    BY <1>1 DEF ActorRecord
  <1>3. [AtRest EXCEPT !.op = "all", !.at = "listAll"] = [AtRest EXCEPT !.op = "all", !.at = "listAll", !.key = AtRest.key]
    BY <1>1 DEF ActorRecord
  <1>4. /\ Begins(j, [AtRest EXCEPT !.op = "all", !.at = "listAll"])
        /\ disturbed' = (disturbed \/ Overlaps(j))
    BY DEF RefreshAll
  <1>5. Begins(j, [AtRest EXCEPT !.op = "all", !.at = "listAll", !.key = AtRest.key])
    BY <1>3, <1>4
  <1> QED
    BY <1>2, <1>4, <1>5, RefreshStep

-----------------------------------------------------------------------------
(* Writing the file. *)

LEMMA OpensFileStep ==
  ASSUME WatchlistInv, NEW a \in Actors, OpensFile(a)
  PROVE  WatchlistInv'
  <1> DEFINE at == CASE actor[a].at = "open" -> "write"
                     [] actor[a].at = "openMark" -> "writeMark"
                     [] actor[a].at = "openMerged" -> "writeMerged"
                     [] actor[a].at = "openAll" -> "writeAll"
             old == actor[a]
             k == [old EXCEPT !.at = at]
  <1>1. old.at \in {"open", "openMark", "openMerged", "openAll"}
    BY DEF OpensFile
  <1>2. /\ old.at = "open" => at = "write"
        /\ old.at = "openMark" => at = "writeMark"
        /\ old.at = "openMerged" => at = "writeMerged"
        /\ old.at = "openAll" => at = "writeAll"
    OBVIOUS
  <1>3. /\ torn' = TRUE /\ spoilt' = spoilt \ {a}
        /\ UNCHANGED <<rows, shown, signals, requests, crashes, wanted, disturbed>>
    BY DEF OpensFile
  <1>4. actor' = [actor EXCEPT ![a] = k]
    BY WatchlistTypes DEF OpensFile
  <1> HIDE DEF at
  <1>5. old \in ActorRecord /\ ActorOK(old)
    BY WatchlistTypes DEF ActorOK
  <1>6. /\ k \in ActorRecord /\ k.at = at /\ k.op = old.op /\ k.key = old.key /\ k.seen = old.seen
        /\ k.out = old.out /\ k.todo = old.todo /\ k.kept = old.kept
    BY <1>1, <1>2, <1>5 DEF ActorRecord
  <1> HIDE DEF k, old
  <1>7. ActorOK(k)
    BY <1>1, <1>2, <1>5, <1>6 DEF ActorOK, Asking, Rewriting
  <1>8. k.at \in Filling
    BY <1>1, <1>2, <1>6 DEF Filling
  <1>9. ASSUME ~disturbed'
        PROVE  /\ \A b \in Actors : b # a => ~Busy(b)
               /\ spoilt' = {} /\ Whos(rows') = wanted'
               /\ Carries(k, rows', wanted')
    <2>1. ~disturbed
      BY <1>3, <1>9
    <2>2. Busy(a)
      BY <1>1 DEF Busy, old
    <2>3. /\ spoilt = {} /\ Whos(rows) = wanted /\ Carries(old, rows, wanted)
          /\ \A b \in Actors : b # a => ~Busy(b)
      BY <2>1, <2>2, QuietFacts DEF old
    <2>4. Carries(k, rows, wanted)
      BY <1>1, <1>2, <1>6, <2>3 DEF Carries, Asking, Remaining, AllOf
    <2> QED
      BY <1>3, <2>3, <2>4
  <1> QED
    BY <1>3, <1>4, <1>7, <1>8, <1>9, WatchlistTypes, ActorStep

LEMMA LandsHolds ==
  ASSUME WatchlistInv, NEW a \in Actors, Lands(a)
  PROVE  /\ Busy(a) /\ rows' = actor[a].out /\ rows' \in Seq(Row) /\ torn' \in BOOLEAN /\ spoilt' \subseteq Actors
         /\ ~disturbed => /\ \A b \in Actors : b # a => ~Busy(b)
                          /\ spoilt' = {} /\ ~torn'
                          /\ Whos(rows) = wanted /\ Carries(actor[a], rows, wanted)
  <1>1. a \in Writing /\ rows' = actor[a].out /\ torn' \in BOOLEAN /\ spoilt' = (spoilt \cup Writing) \ {a}
    BY DEF Lands
  <1>2. Busy(a)
    BY <1>1 DEF Busy, Writing
  <1>3. rows' \in Seq(Row)
    BY <1>1, WatchlistTypes
  <1>4. spoilt' \subseteq Actors
    BY <1>1, WatchlistTypes DEF Writing
  <1>5. ASSUME ~disturbed
        PROVE  /\ \A b \in Actors : b # a => ~Busy(b)
               /\ spoilt' = {} /\ ~torn'
               /\ Whos(rows) = wanted /\ Carries(actor[a], rows, wanted)
    <2>1. /\ \A b \in Actors : b # a => ~Busy(b)
          /\ spoilt = {} /\ Whos(rows) = wanted /\ Carries(actor[a], rows, wanted)
      BY <1>2, <1>5, QuietFacts
    <2>2. Writing \subseteq {a}
      BY <2>1 DEF Writing, Busy
    <2>3. torn' = FALSE
      BY <2>1 DEF Lands
    <2> QED
      BY <1>1, <2>1, <2>2, <2>3
  <1> QED
    BY <1>1, <1>2, <1>3, <1>4, <1>5

LEMMA UserWritesStep ==
  ASSUME WatchlistInv, UserWrites
  PROVE  WatchlistInv'
  <1> DEFINE old == actor["ui"]
  <1>0. "ui" \in Actors
    BY DEF Actors
  <1>1. /\ old.at = "write" /\ Lands("ui") /\ actor' = [actor EXCEPT !["ui"] = AtRest]
        /\ shown' = IF torn' THEN <<>> ELSE rows'
        /\ wanted' = IF old.op = "add" THEN wanted \cup {old.key.who} ELSE wanted \ {old.key.who}
        /\ UNCHANGED <<signals, requests, crashes, disturbed>>
    BY DEF UserWrites, Ends
  <1>2. /\ rows' = old.out /\ rows' \in Seq(Row) /\ torn' \in BOOLEAN /\ spoilt' \subseteq Actors
        /\ ~disturbed => /\ \A b \in Actors : b # "ui" => ~Busy(b)
                         /\ spoilt' = {} /\ ~torn' /\ Carries(old, rows, wanted)
    BY <1>0, <1>1, LandsHolds
  <1>3. shown' \in Seq(Row)
    <2>1. <<>> \in Seq(Row)
      OBVIOUS
    <2> QED
      BY <1>1, <1>2, <2>1
  <1>4. wanted' \subseteq Watched
    BY <1>0, <1>1, WatchlistTypes
  <1>5. ASSUME ~disturbed'
        PROVE  Whos(rows') = wanted' /\ Carries(AtRest, rows', wanted')
    <2>1. Whos(old.out) = wanted'
      BY <1>1, <1>2, <1>5 DEF Carries
    <2>2. Carries(AtRest, rows', wanted')
      BY AtRestOK DEF Carries, Asking
    <2> QED
      BY <1>2, <2>1, <2>2
  <1> HIDE DEF old
  <1> QED
    BY <1>0, <1>1, <1>2, <1>3, <1>4, <1>5, WatchlistTypes, AtRestOK, ActorStep

-----------------------------------------------------------------------------
(* A refresh. *)

LEMMA ListsAllStep ==
  ASSUME WatchlistInv, NEW j \in Jobs, ListsAll(j)
  PROVE  WatchlistInv'
  <1> DEFINE old == actor[j]
             list == ListItems
             rowkeys == [i \in DOMAIN list |-> RowKey(list[i])]
             k == [old EXCEPT !.at = "list", !.key = Head(rowkeys), !.todo = Tail(rowkeys)]
  <1>0. j \in Actors
    BY DEF Actors
  <1>1. /\ old.at = "listAll"
        /\ UNCHANGED <<fileVars, shown, requests, crashes, wanted, disturbed>>
        /\ IF rowkeys = <<>> THEN actor' = [actor EXCEPT ![j] = AtRest] /\ signals' = signals + 1
           ELSE actor' = [actor EXCEPT ![j] = [@ EXCEPT !.at = "list", !.key = Head(rowkeys), !.todo = Tail(rowkeys)]]
                /\ UNCHANGED signals
    BY DEF ListsAll, Ends
  <1>2. list \in Seq(Row) /\ DOMAIN list = 1..Len(list)
    BY <1>0, WatchlistTypes, SeqOfRows
  <1>3. rowkeys \in Seq(Key) /\ Len(rowkeys) = Len(list) /\ \A i \in 1..Len(list) : rowkeys[i] = RowKey(list[i])
    <2>1. \A i \in 1..Len(list) : RowKey(list[i]) \in Key
      BY <1>2, SeqOfRows, KeyOfRow
    <2>2. rowkeys = [i \in 1..Len(list) |-> RowKey(list[i])]
      BY <1>2
    <2>3. rowkeys \in [1..Len(list) -> Key]
      BY <2>1, <2>2
    <2> QED
      BY <1>2, <2>2, <2>3, SeqOfRows
  <1>4. old \in ActorRecord
    BY <1>0, WatchlistTypes DEF ActorOK
  <1>5. ASSUME ~disturbed
        PROVE  /\ \A b \in Actors : b # j => ~Busy(b)
               /\ spoilt = {} /\ Whos(rows) = wanted /\ ~torn /\ list = rows /\ old.kept = <<>>
    <2>1. Busy(j) /\ old.at \notin Filling
      BY <1>1 DEF Busy, Filling
    <2> QED
      BY <1>0, <1>1, <1>5, <2>1, QuietFacts DEF Carries
  <1> HIDE DEF rowkeys
  <1>6. Elements(rowkeys) = RowKeys(list)
    <2>1. RowKeys(list) = {RowKey(list[i]) : i \in 1..Len(list)}
      BY ONLY <1>2, SeqOfRows
    <2>2. Elements(rowkeys) = {rowkeys[i] : i \in 1..Len(list)}
      BY ONLY <1>3 DEF Elements
    <2> QED
      BY ONLY <1>3, <2>1, <2>2
  <1>7. CASE rowkeys = <<>>
    <2>1. ~disturbed' => Carries(AtRest, rows', wanted')
      BY AtRestOK DEF Carries, Asking
    <2>2. signals' \in Nat
      BY <1>0, <1>1, <1>7, WatchlistTypes
    <2> QED
      BY <1>0, <1>1, <1>5, <1>7, <2>1, <2>2, WatchlistTypes, AtRestOK, ActorStep DEF fileVars
  <1>8. CASE rowkeys # <<>>
    <2>1. Head(rowkeys) \in Key /\ Tail(rowkeys) \in Seq(Key)
      BY <1>3, <1>8, HeadAndTail
    <2>2. Elements(rowkeys) = {Head(rowkeys)} \cup Elements(Tail(rowkeys))
      BY <1>3, <1>8, ElementsOfTail
    <2>3. /\ k \in ActorRecord /\ k.at = "list" /\ k.op = old.op /\ k.key = Head(rowkeys) /\ k.todo = Tail(rowkeys)
          /\ k.kept = old.kept
      BY <1>4, <2>1 DEF ActorRecord
    <2>4. actor' = [actor EXCEPT ![j] = k]
      BY <1>0, <1>1, <1>8, WatchlistTypes
    <2> HIDE DEF k
    <2>5. ActorOK(k)
      BY <2>3 DEF ActorOK, Asking, Rewriting
    <2>6. ASSUME ~disturbed
          PROVE  Carries(k, rows, wanted)
      <3>1. Whos(rows) = {o.who : o \in RowKeys(rows)}
        <4>1. Whos(rows) = {rows[i].who : i \in 1..Len(rows)} /\ RowKeys(rows) = {RowKey(rows[i]) : i \in 1..Len(rows)}
          BY <1>0, WatchlistTypes, SeqOfRows
        <4>2. \A i \in 1..Len(rows) : RowKey(rows[i]).who = rows[i].who
          BY <1>0, WatchlistTypes, SeqOfRows, KeyOfRow
        <4> QED
          BY <4>1, <4>2
      <3>2. Whos(k.kept) = {}
        BY <1>5, <2>3, <2>6 DEF Whos
      <3>3. {k.todo[i].who : i \in 1..Len(k.todo)} = {o.who : o \in Elements(k.todo)}
        BY DEF Elements
      <3>4. AllOf(k) = wanted
        <4>1. RowKeys(rows) = {k.key} \cup Elements(k.todo)
          BY <1>5, <1>6, <2>2, <2>3, <2>6
        <4>2. {o.who : o \in RowKeys(rows)} = {k.key.who} \cup {o.who : o \in Elements(k.todo)}
          BY ONLY <4>1
        <4> QED
          BY <1>5, <2>6, <3>1, <3>2, <3>3, <4>2 DEF AllOf
      <3>5. Remaining(k, rows) /\ k.key \in RowKeys(rows)
        BY <1>5, <1>6, <2>2, <2>3, <2>6 DEF Remaining, Elements
      <3> QED
        BY <2>3, <3>4, <3>5 DEF Carries, Asking
    <2>7. UNCHANGED <<rows, torn, spoilt, wanted, shown, signals, requests, crashes, disturbed>>
      BY <1>1, <1>8 DEF fileVars
    <2> QED
      BY <1>0, <1>5, <2>4, <2>5, <2>6, <2>7, WatchlistTypes, ActorStep
  <1> QED
    BY <1>7, <1>8

(* What a refresh of all rows does when it is done with one.               *)
NextRecord(k, kept) ==
    IF k.todo # <<>> THEN [k EXCEPT !.at = "list", !.key = Head(k.todo), !.todo = Tail(k.todo), !.kept = kept]
    ELSE IF kept # <<>> THEN [k EXCEPT !.at = "openAll", !.out = kept, !.kept = <<>>]
    ELSE AtRest

LEMMA NextRecordHolds ==
  ASSUME WatchlistInv, NEW j \in Actors, NEW kept \in Seq(Row), NEW list, NEW wants,
         actor[j].op = "all"
  PROVE  /\ NextOfAll(j, kept) = [actor EXCEPT ![j] = NextRecord(actor[j], kept)]
         /\ NextOfAll(j, kept)[j] = NextRecord(actor[j], kept)
         /\ ActorOK(NextRecord(actor[j], kept))
         /\ NextRecord(actor[j], kept).at \notin Filling
         /\ (/\ Whos(kept) \cup {actor[j].todo[i].who : i \in 1..Len(actor[j].todo)} = wants
             /\ \A i \in 1..Len(actor[j].todo) :
                  actor[j].todo[i] \in RowKeys(list) \/ actor[j].todo[i].who \in Whos(kept))
            => Carries(NextRecord(actor[j], kept), list, wants)
  <1> DEFINE old == actor[j]
             k == NextRecord(old, kept)
  <1>1. /\ actor \in [Actors -> ActorRecord] /\ old \in ActorRecord /\ old.todo \in Seq(Key)
    BY WatchlistTypes DEF ActorOK
  <1>2. NextOfAll(j, kept) = [actor EXCEPT ![j] = k] /\ NextOfAll(j, kept)[j] = k
    <2>1. NextOfAll(j, kept) = [actor EXCEPT ![j] = k]
      BY <1>1 DEF NextOfAll, NextRecord
    <2> HIDE DEF k
    <2> QED
      BY <1>1, <2>1
  <1>3. CASE old.todo # <<>>
    <2>1. Head(old.todo) \in Key /\ Tail(old.todo) \in Seq(Key)
      BY <1>1, <1>3, HeadAndTail
    <2>2. Elements(old.todo) = {Head(old.todo)} \cup Elements(Tail(old.todo))
      BY <1>1, <1>3, ElementsOfTail
    <2>3. /\ k \in ActorRecord /\ k.at = "list" /\ k.op = "all" /\ k.key = Head(old.todo) /\ k.todo = Tail(old.todo)
          /\ k.kept = kept
      BY <1>1, <1>3, <2>1 DEF ActorRecord, NextRecord
    <2> HIDE DEF k
    <2>4. ActorOK(k) /\ k.at \notin Filling
      BY <2>3 DEF ActorOK, Asking, Rewriting, Filling
    <2>5. ASSUME Whos(kept) \cup {old.todo[i].who : i \in 1..Len(old.todo)} = wants,
                 \A i \in 1..Len(old.todo) : old.todo[i] \in RowKeys(list) \/ old.todo[i].who \in Whos(kept)
          PROVE  Carries(k, list, wants)
      <3>1. {old.todo[i].who : i \in 1..Len(old.todo)} = {o.who : o \in Elements(old.todo)}
        BY DEF Elements
      <3>2. {k.todo[i].who : i \in 1..Len(k.todo)} = {o.who : o \in Elements(k.todo)}
        BY DEF Elements
      <3>3. {o.who : o \in Elements(old.todo)} = {k.key.who} \cup {o.who : o \in Elements(k.todo)}
        BY <2>2, <2>3
      <3>4. AllOf(k) = wants
        BY <2>3, <2>5, <3>1, <3>2, <3>3 DEF AllOf
      <3>5. \A o \in Elements(old.todo) : o \in RowKeys(list) \/ o.who \in Whos(k.kept)
        BY <2>3, <2>5 DEF Elements
      <3>6. Remaining(k, list) /\ (k.key \in RowKeys(list) \/ k.key.who \in Whos(k.kept))
        BY <2>2, <2>3, <3>5 DEF Remaining, Elements
      <3> QED
        BY <2>3, <3>4, <3>6 DEF Carries, Asking
    <2> QED
      BY <1>2, <2>4, <2>5 DEF k
  <1>4. CASE old.todo = <<>> /\ kept # <<>>
    <2>1. k \in ActorRecord /\ k.at = "openAll" /\ k.out = kept
      <3>1. <<>> \in Seq(Row)
        OBVIOUS
      <3>2. k = [old EXCEPT !.at = "openAll", !.out = kept, !.kept = <<>>]
        BY <1>4 DEF NextRecord
      <3> HIDE DEF k
      <3> QED
        BY <1>1, <3>1, <3>2 DEF ActorRecord
    <2> HIDE DEF k
    <2>2. ActorOK(k) /\ k.at \notin Filling
      BY <2>1 DEF ActorOK, Asking, Rewriting, Filling
    <2>3. {old.todo[i].who : i \in 1..Len(old.todo)} = {}
      BY <1>4
    <2>4. Whos(kept) = wants => Carries(k, list, wants)
      BY <2>1 DEF Carries, Asking
    <2> QED
      BY <1>2, <2>2, <2>3, <2>4 DEF k
  <1>5. CASE old.todo = <<>> /\ kept = <<>>
    <2>1. k = AtRest
      BY <1>5 DEF NextRecord
    <2>2. AtRest.at \notin Filling /\ Carries(AtRest, list, wants)
      BY AtRestOK DEF Carries, Asking, Filling
    <2> HIDE DEF k
    <2> QED
      BY <1>2, <2>1, <2>2, AtRestOK DEF k
  <1> QED
    BY <1>3, <1>4, <1>5

LEMMA ListsRowStep ==
  ASSUME WatchlistInv, NEW j \in Jobs, ListsRow(j)
  PROVE  WatchlistInv'
  <1> DEFINE old == actor[j]
             list == ListItems
             next == IF old.op = "all" THEN NextOfAll(j, old.kept) ELSE Ends(j)
             marked == [Target(list, old.key) EXCEPT !.refreshing = TRUE]
             k == [old EXCEPT !.at = "openMark", !.seen = list, !.out = Replaced(list, old.key, marked)]
  <1>0. j \in Actors
    BY DEF Actors
  <1>1. /\ old.at = "list"
        /\ UNCHANGED <<fileVars, shown, requests, crashes, wanted, disturbed>>
        /\ old.key \notin RowKeys(list) =>
             actor' = next /\ signals' = IF next[j] = AtRest THEN signals + 1 ELSE signals
    BY DEF ListsRow
  <1>2. old.key \in RowKeys(list) => UNCHANGED signals /\ actor' = [actor EXCEPT ![j] = k]
    BY <1>0, WatchlistTypes DEF ListsRow
  <1>3. UNCHANGED <<rows, torn, spoilt, shown, requests, crashes, wanted, disturbed>>
    BY <1>1 DEF fileVars
  <1>4. old \in ActorRecord /\ list \in Seq(Row) /\ old.kept \in Seq(Row) /\ old.key \in Key
    BY <1>0, WatchlistTypes DEF ActorOK
  <1>5. ASSUME ~disturbed
        PROVE  /\ \A b \in Actors : b # j => ~Busy(b)
               /\ spoilt = {} /\ Whos(rows) = wanted /\ ~torn /\ list = rows /\ Carries(old, rows, wanted)
    <2>1. Busy(j) /\ old.at \notin Filling
      BY <1>1 DEF Busy, Filling
    <2> QED
      BY <1>0, <1>5, <2>1, QuietFacts
  <1>6. CASE old.key \notin RowKeys(list) /\ old.op = "all"
    <2> DEFINE n == NextRecord(old, old.kept)
    <2>1. /\ actor' = [actor EXCEPT ![j] = n] /\ ActorOK(n)
          /\ (/\ Whos(old.kept) \cup {old.todo[i].who : i \in 1..Len(old.todo)} = wanted
              /\ \A i \in 1..Len(old.todo) : old.todo[i] \in RowKeys(rows) \/ old.todo[i].who \in Whos(old.kept))
             => Carries(n, rows, wanted)
      BY <1>0, <1>1, <1>4, <1>6, NextRecordHolds
    <2> HIDE DEF n
    <2>2. ASSUME ~disturbed
          PROVE  Carries(n, rows, wanted)
      <3>1. AllOf(old) = wanted /\ Remaining(old, rows) /\ old.key.who \in Whos(old.kept)
        BY <1>1, <1>5, <1>6, <2>2 DEF Carries
      <3>2. Whos(old.kept) \cup {old.todo[i].who : i \in 1..Len(old.todo)} = wanted
        BY <3>1 DEF AllOf
      <3> QED
        BY <2>1, <3>1, <3>2 DEF Remaining
    <2>3. signals' \in Nat
      BY <1>0, <1>1, <1>6, WatchlistTypes
    <2> QED
      BY <1>0, <1>3, <1>5, <2>1, <2>2, <2>3, WatchlistTypes, ActorStep
  <1>7. CASE old.key \notin RowKeys(list) /\ old.op # "all"
    <2>1. actor' = [actor EXCEPT ![j] = AtRest]
      BY <1>1, <1>7 DEF Ends
    <2>2. Carries(AtRest, rows, wanted)
      BY AtRestOK DEF Carries, Asking
    <2>3. signals' \in Nat
      BY <1>0, <1>1, <1>7, WatchlistTypes
    <2> QED
      BY <1>0, <1>3, <1>5, <2>1, <2>2, <2>3, WatchlistTypes, AtRestOK, ActorStep
  <1>8. CASE old.key \in RowKeys(list)
    <2>1. Target(list, old.key) \in Row /\ Target(list, old.key).who = old.key.who
      BY <1>4, <1>8, TargetHolds
    <2>2. marked \in Row /\ marked.who = old.key.who
      BY <2>1 DEF Row
    <2> HIDE DEF marked
    <2>3. Replaced(list, old.key, marked) \in Seq(Row)
      BY <1>4, <2>2, ReplacedHolds
    <2>4. /\ k \in ActorRecord /\ k.at = "openMark" /\ k.seen = list /\ k.out = Replaced(list, old.key, marked)
          /\ k.op = old.op /\ k.key = old.key /\ k.todo = old.todo /\ k.kept = old.kept
      BY <1>4, <2>3 DEF ActorRecord
    <2> HIDE DEF k
    <2>5. ActorOK(k)
      BY <1>8, <2>2, <2>4 DEF ActorOK, Asking, Rewriting
    <2>6. ~disturbed => Carries(k, rows, wanted)
      BY <1>1, <1>5, <2>4 DEF Carries, Asking, AllOf, Remaining
    <2> QED
      BY <1>0, <1>2, <1>3, <1>5, <1>8, <2>5, <2>6, WatchlistTypes, ActorStep
  <1> QED
    BY <1>6, <1>7, <1>8

LEMMA MarksRowStep ==
  ASSUME WatchlistInv, NEW j \in Jobs, MarksRow(j)
  PROVE  WatchlistInv'
  <1> DEFINE old == actor[j]
             k == [old EXCEPT !.at = "ask"]
  <1>0. j \in Actors
    BY DEF Actors
  <1>1. /\ old.at = "writeMark" /\ Lands(j)
        /\ UNCHANGED <<shown, signals, requests, crashes, wanted, disturbed>>
    BY DEF MarksRow
  <1>2. actor' = [actor EXCEPT ![j] = k]
    BY <1>0, WatchlistTypes DEF MarksRow
  <1>3. /\ rows' = old.out /\ rows' \in Seq(Row) /\ torn' \in BOOLEAN /\ spoilt' \subseteq Actors
        /\ ~disturbed => /\ \A b \in Actors : b # j => ~Busy(b)
                         /\ spoilt' = {} /\ ~torn' /\ Whos(rows) = wanted /\ Carries(old, rows, wanted)
    BY <1>0, <1>1, LandsHolds
  <1>4. old \in ActorRecord /\ ActorOK(old) /\ old.seen \in Seq(Row)
    BY <1>0, WatchlistTypes DEF ActorOK
  <1>5. /\ k \in ActorRecord /\ k.at = "ask" /\ k.seen = old.seen
        /\ k.op = old.op /\ k.key = old.key /\ k.todo = old.todo /\ k.kept = old.kept
    BY <1>4 DEF ActorRecord
  <1> HIDE DEF k
  <1>6. ActorOK(k)
    BY <1>1, <1>4, <1>5 DEF ActorOK, Asking, Rewriting
  <1>7. PICK r \in Row : r.who = old.key.who /\ old.out = Replaced(old.seen, old.key, r)
    BY <1>1, <1>4 DEF ActorOK, Rewriting
  <1>8. Whos(old.out) = Whos(old.seen)
    BY <1>4, <1>7, ReplacedHolds
  <1>9. ASSUME ~disturbed
        PROVE  Whos(rows') = wanted /\ Carries(k, rows', wanted)
    <2>1. Whos(old.seen) = wanted
      BY <1>1, <1>3, <1>9 DEF Carries, Asking
    <2>2. Carries(k, rows', wanted)
      BY <1>1, <1>3, <1>5, <1>9, <2>1 DEF Carries, Asking, AllOf, Remaining
    <2> QED
      BY <1>3, <1>8, <2>1, <2>2
  <1> QED
    BY <1>0, <1>1, <1>2, <1>3, <1>6, <1>9, WatchlistTypes, ActorStep

LEMMA ProfileArrivesStep ==
  ASSUME WatchlistInv, NEW j \in Jobs, ProfileArrives(j)
  PROVE  WatchlistInv'
  <1> DEFINE old == actor[j]
             target == Target(old.seen, old.key)
  <1>0. j \in Actors
    BY DEF Actors
  <1>1. old.at = "ask" /\ UNCHANGED <<rows, torn, spoilt, shown, signals, requests, crashes, wanted, disturbed>>
    BY DEF ProfileArrives, fileVars
  <1>2. old \in ActorRecord /\ ActorOK(old) /\ old.seen \in Seq(Row) /\ old.key \in RowKeys(old.seen)
    BY <1>0, <1>1, WatchlistTypes DEF ActorOK, Asking
  <1>3. target \in Row /\ target.who = old.key.who
    BY <1>2, TargetHolds
  <1> DEFINE new(found) == [target EXCEPT !.profiled = @ \/ found, !.refreshing = FALSE]
             k(found) == [old EXCEPT !.at = "openMerged", !.out = Replaced(old.seen, old.key, new(found))]
  <1>4. PICK found \in BOOLEAN : actor' = [actor EXCEPT ![j] = k(found)]
    BY <1>0, WatchlistTypes DEF ProfileArrives
  <1> DEFINE row == new(found)
             rec == k(found)
  <1>5. row \in Row /\ row.who = old.key.who
    BY <1>3 DEF Row
  <1>6. rec = [old EXCEPT !.at = "openMerged", !.out = Replaced(old.seen, old.key, row)]
    OBVIOUS
  <1> HIDE DEF row, target
  <1>7. Replaced(old.seen, old.key, row) \in Seq(Row)
    BY <1>2, <1>5, ReplacedHolds
  <1>8. actor' = [actor EXCEPT ![j] = rec]
    BY <1>4
  <1> HIDE DEF rec, k, new
  <1>9. /\ rec \in ActorRecord /\ rec.at = "openMerged" /\ rec.seen = old.seen
        /\ rec.out = Replaced(old.seen, old.key, row)
        /\ rec.op = old.op /\ rec.key = old.key /\ rec.todo = old.todo /\ rec.kept = old.kept
    BY <1>2, <1>6, <1>7 DEF ActorRecord
  <1>10. ActorOK(rec)
    BY <1>2, <1>5, <1>9 DEF ActorOK, Asking, Rewriting
  <1>11. ASSUME ~disturbed
         PROVE  /\ \A b \in Actors : b # j => ~Busy(b)
                /\ spoilt = {} /\ Whos(rows) = wanted /\ ~torn /\ Carries(rec, rows, wanted)
    <2>1. Busy(j) /\ old.at \notin Filling
      BY <1>1 DEF Busy, Filling
    <2>2. /\ \A b \in Actors : b # j => ~Busy(b)
          /\ spoilt = {} /\ Whos(rows) = wanted /\ ~torn /\ Carries(old, rows, wanted)
      BY <1>0, <1>11, <2>1, QuietFacts
    <2>3. Carries(rec, rows, wanted)
      BY <1>1, <1>9, <2>2 DEF Carries, Asking, AllOf, Remaining
    <2> QED
      BY <2>2, <2>3
  <1> QED
    BY <1>0, <1>1, <1>8, <1>10, <1>11, WatchlistTypes, ActorStep

LEMMA MergesRowStep ==
  ASSUME WatchlistInv, NEW j \in Jobs, MergesRow(j)
  PROVE  WatchlistInv'
  <1> DEFINE old == actor[j]
             place == CHOOSE i \in DOMAIN old.seen :
                        /\ RowKey(old.seen[i]) = old.key
                        /\ \A n \in 1..(i - 1) : RowKey(old.seen[n]) # old.key
             kept == Append(old.kept, old.out[place])
             next == IF old.op = "all" THEN NextOfAll(j, kept) ELSE Ends(j)
  <1>0. j \in Actors
    BY DEF Actors
  <1>1. /\ old.at = "writeMerged" /\ Lands(j)
        /\ actor' = next /\ signals' = IF next[j] = AtRest THEN signals + 1 ELSE signals
        /\ UNCHANGED <<shown, requests, crashes, wanted, disturbed>>
    BY DEF MergesRow
  <1>2. /\ rows' = old.out /\ rows' \in Seq(Row) /\ torn' \in BOOLEAN /\ spoilt' \subseteq Actors
        /\ ~disturbed => /\ \A b \in Actors : b # j => ~Busy(b)
                         /\ spoilt' = {} /\ ~torn' /\ Whos(rows) = wanted /\ Carries(old, rows, wanted)
    BY <1>0, <1>1, LandsHolds
  <1>3. /\ old \in ActorRecord /\ ActorOK(old) /\ old.seen \in Seq(Row) /\ old.kept \in Seq(Row)
        /\ old.key \in RowKeys(old.seen)
    BY <1>0, <1>1, WatchlistTypes DEF ActorOK, Asking
  <1>4. PICK r \in Row : r.who = old.key.who /\ old.out = Replaced(old.seen, old.key, r)
    BY <1>1, <1>3 DEF ActorOK, Rewriting
  <1>5. place \in 1..Len(old.seen) /\ RowKey(old.seen[place]) = old.key
    <2>1. DOMAIN old.seen = 1..Len(old.seen)
      BY <1>3, SeqOfRows
    <2> QED
      BY <1>3, <2>1, FirstPlace
  <1> HIDE DEF place
  <1>6. /\ Whos(old.out) = Whos(old.seen) /\ old.out[place] = r
        /\ \A o \in RowKeys(old.seen) : o # old.key => o \in RowKeys(old.out)
    BY <1>3, <1>4, <1>5, ReplacedHolds
  <1>7. kept \in Seq(Row) /\ Whos(kept) = Whos(old.kept) \cup {old.key.who}
    BY <1>3, <1>4, <1>6, WhosOfAppend
  <1> HIDE DEF kept
  <1>8. signals' \in Nat
    <2> HIDE DEF next
    <2> QED
      BY <1>0, <1>1, WatchlistTypes
  <1>9. ~disturbed => Whos(rows') = wanted
    BY <1>1, <1>2, <1>6 DEF Carries, Asking
  <1>10. CASE old.op = "all"
    <2> DEFINE n == NextRecord(old, kept)
    <2>1. /\ actor' = [actor EXCEPT ![j] = n] /\ ActorOK(n)
          /\ (/\ Whos(kept) \cup {old.todo[i].who : i \in 1..Len(old.todo)} = wanted
              /\ \A i \in 1..Len(old.todo) : old.todo[i] \in RowKeys(rows') \/ old.todo[i].who \in Whos(kept))
             => Carries(n, rows', wanted)
      BY <1>0, <1>1, <1>7, <1>10, NextRecordHolds
    <2> HIDE DEF n
    <2>2. ASSUME ~disturbed
          PROVE  Carries(n, rows', wanted)
      <3>1. AllOf(old) = wanted /\ Remaining(old, old.seen)
        BY <1>1, <1>2, <1>10, <2>2 DEF Carries, Asking
      <3>2. Whos(kept) \cup {old.todo[i].who : i \in 1..Len(old.todo)} = wanted
        BY <1>7, <3>1 DEF AllOf
      <3>3. \A i \in 1..Len(old.todo) : old.todo[i] \in RowKeys(rows') \/ old.todo[i].who \in Whos(kept)
        BY <1>2, <1>6, <1>7, <3>1 DEF Remaining
      <3> QED
        BY <2>1, <3>2, <3>3
    <2> QED
      BY <1>0, <1>1, <1>2, <1>8, <1>9, <2>1, <2>2, WatchlistTypes, ActorStep
  <1>11. CASE old.op # "all"
    <2>1. actor' = [actor EXCEPT ![j] = AtRest]
      BY <1>1, <1>11 DEF Ends
    <2>2. Carries(AtRest, rows', wanted)
      BY AtRestOK DEF Carries, Asking
    <2> QED
      BY <1>0, <1>1, <1>2, <1>8, <1>9, <2>1, <2>2, WatchlistTypes, AtRestOK, ActorStep
  <1> QED
    BY <1>10, <1>11

LEMMA WritesAllStep ==
  ASSUME WatchlistInv, NEW j \in Jobs, WritesAll(j)
  PROVE  WatchlistInv'
  <1> DEFINE old == actor[j]
  <1>0. j \in Actors
    BY DEF Actors
  <1>1. /\ old.at = "writeAll" /\ Lands(j) /\ actor' = [actor EXCEPT ![j] = AtRest] /\ signals' = signals + 1
        /\ UNCHANGED <<shown, requests, crashes, wanted, disturbed>>
    BY DEF WritesAll, Ends
  <1>2. /\ rows' = old.out /\ rows' \in Seq(Row) /\ torn' \in BOOLEAN /\ spoilt' \subseteq Actors
        /\ ~disturbed => /\ \A b \in Actors : b # j => ~Busy(b)
                         /\ spoilt' = {} /\ ~torn' /\ Carries(old, rows, wanted)
    BY <1>0, <1>1, LandsHolds
  <1>3. signals' \in Nat
    BY <1>0, <1>1, WatchlistTypes
  <1>4. ~disturbed => Whos(rows') = wanted
    BY <1>1, <1>2 DEF Carries
  <1>5. Carries(AtRest, rows', wanted)
    BY AtRestOK DEF Carries, Asking
  <1> HIDE DEF old
  <1> QED
    BY <1>0, <1>1, <1>2, <1>3, <1>4, <1>5, WatchlistTypes, AtRestOK, ActorStep

(* The actors and the file as they are. *)
LEMMA WatchlistRests ==
  ASSUME WatchlistInv, UNCHANGED <<rows, torn, spoilt, actor, requests, crashes, wanted, disturbed>>,
         shown' \in Seq(Row), signals' \in Nat
  PROVE  WatchlistInv'
  <1>1. WatchlistTypeOK'
    BY DEF WatchlistInv, WatchlistTypeOK
  <1>2. Quiet => Quiet'
    BY DEF Quiet, Writing, Busy
  <1> QED
    BY <1>1, <1>2 DEF WatchlistInv

LEMMA RefreshPageStep ==
  ASSUME WatchlistInv, RefreshPage
  PROVE  WatchlistInv'
  <1>1. "ui" \in Actors
    BY DEF Actors
  <1>2. shown' \in Seq(Row) /\ signals' \in Nat
    BY <1>1, WatchlistTypes DEF RefreshPage
  <1> QED
    BY <1>2, WatchlistRests DEF RefreshPage, fileVars

LEMMA CrashesAndStartsStep ==
  ASSUME WatchlistInv, CrashesAndStarts
  PROVE  WatchlistInv'
  <1>1. /\ crashes < MaxCrashes /\ crashes' = crashes + 1 /\ spoilt' = {} /\ shown' = ListItems /\ signals' = 0
        /\ disturbed' = (disturbed \/ torn) /\ UNCHANGED <<rows, torn, requests, wanted>>
        /\ actor' = [a \in Actors |-> AtRest]
    BY DEF CrashesAndStarts
  <1>2. "ui" \in Actors
    BY DEF Actors
  <1>3. \A a \in Actors : actor'[a] = AtRest
    BY <1>1
  <1>4. actor' \in [Actors -> ActorRecord]
    BY <1>1, AtRestOK DEF ActorOK
  <1>5. WatchlistTypeOK'
    <2>1. crashes' \in 0..MaxCrashes
      BY <1>1, WatchlistAssumption DEF WatchlistInv, WatchlistTypeOK
    <2> QED
      BY <1>1, <1>2, <1>4, <2>1, WatchlistTypes DEF WatchlistTypeOK, ActorRecord
  <1>6. \A a \in Actors : ActorOK(actor'[a])
    BY <1>3, AtRestOK
  <1>7. ASSUME ~disturbed'
        PROVE  Quiet'
    <2>1. ~disturbed /\ ~torn
      BY <1>1, <1>7
    <2>2. Whos(rows) = wanted
      BY <1>2, <2>1, QuietFacts
    <2>3. \A a \in Actors : Carries(actor'[a], rows', wanted') /\ actor'[a].at = "idle"
      BY <1>3, AtRestOK DEF Carries, Asking
    <2> QED
      BY <1>1, <2>1, <2>2, <2>3 DEF Quiet, Busy
  <1> QED
    BY <1>5, <1>6, <1>7 DEF WatchlistInv

LEMMA WatchlistStep == WatchlistInv /\ [WatchlistNext]_watchlistVars => WatchlistInv'
  <1> SUFFICES ASSUME WatchlistInv, [WatchlistNext]_watchlistVars
               PROVE  WatchlistInv'
    OBVIOUS
  <1>1. ASSUME NEW c \in Watched, AddCompany(c)
        PROVE  WatchlistInv'
    BY <1>1, AddCompanyStep
  <1>2. ASSUME NEW i \in DOMAIN shown, RemoveCompany(shown[i])
        PROVE  WatchlistInv'
    BY <1>2, RemoveCompanyStep
  <1>3. ASSUME NEW i \in DOMAIN shown, NEW j \in Jobs, RefreshCompany(j, shown[i])
        PROVE  WatchlistInv'
    BY <1>3, RefreshCompanyStep
  <1>4. CASE UserWrites
    BY <1>4, UserWritesStep
  <1>5. ASSUME NEW a \in Actors, OpensFile(a)
        PROVE  WatchlistInv'
    BY <1>5, OpensFileStep
  <1>6. ASSUME NEW j \in Jobs,
               \/ RefreshAll(j) \/ ListsAll(j) \/ ListsRow(j) \/ MarksRow(j)
               \/ ProfileArrives(j) \/ MergesRow(j) \/ WritesAll(j)
        PROVE  WatchlistInv'
    BY <1>6, RefreshAllStep, ListsAllStep, ListsRowStep, MarksRowStep, ProfileArrivesStep, MergesRowStep,
       WritesAllStep
  <1>7. CASE RefreshPage
    BY <1>7, RefreshPageStep
  <1>8. CASE CrashesAndStarts
    BY <1>8, CrashesAndStartsStep
  <1>9. CASE UNCHANGED watchlistVars
    <2>1. "ui" \in Actors
      BY DEF Actors
    <2> QED
      BY <1>9, <2>1, WatchlistTypes, WatchlistRests DEF watchlistVars, fileVars
  <1> QED
    BY <1>1, <1>2, <1>3, <1>4, <1>5, <1>6, <1>7, <1>8, <1>9 DEF WatchlistNext

(* The inductive invariant of the watchlist (watchlist_store.py and the    *)
(* handlers of ui/pages/watchlist.py): types, what a refresh has listed,   *)
(* and, undisturbed, that whoever is at work carries the wanted list.      *)
THEOREM WatchlistInvariant == WatchlistSpec => []WatchlistInv
  BY InitWatchlistInv, WatchlistStep, PTL DEF WatchlistSpec

(* Unless actors overlapped, a write was cut off or a row had lost its     *)
(* key, the file holds the companies the user added and did not remove,    *)
(* whatever refreshes and restarts came between, for any number of         *)
(* companies, workers, edits and restarts.                                 *)
THEOREM WatchlistStaysWanted == WatchlistSpec => []ListIsWanted
  <1>1. WatchlistInv => ListIsWanted
    BY DEF WatchlistInv, Quiet, ListIsWanted
  <1> QED
    BY <1>1, WatchlistInvariant, PTL

-----------------------------------------------------------------------------
(* ProviderChoice: the files of the settings page.                         *)

SettingsRecord == [advanced: BOOLEAN, limit: RawLimits]

Limits == {n \in RawLimits : LeastLimit <= n /\ n <= MostLimit}

(* A file is truncated only while it is open, and the write at work is the *)
(* one that opened it.                                                     *)
ChoiceInv ==
    /\ settings \in SettingsRecord
    /\ form.limit \in Limits
    /\ opened \in BOOLEAN /\ cutOff \in BOOLEAN
    /\ opened => ~Resting
    /\ ~cutOff => /\ broken = IF opened THEN {FileOf(Head(saving))} ELSE {}
                  /\ settings.advanced = chosen.advanced
                  /\ Clamp(settings.limit) = chosen.limit
                  /\ keys = chosen.keys

LEMMA ClampHolds ==
  ASSUME NEW n \in RawLimits
  PROVE  Clamp(n) \in Limits /\ (n \in Limits => Clamp(n) = n)
  <1>1. /\ n \in Nat /\ LeastLimit \in RawLimits /\ MostLimit \in RawLimits
        /\ LeastLimit \in Nat /\ MostLimit \in Nat /\ UsualLimit \in Nat
        /\ LeastLimit <= UsualLimit /\ UsualLimit <= MostLimit
    BY ChoiceAssumption
  <1>2. LeastLimit <= MostLimit
    BY <1>1
  <1> QED
    BY <1>1, <1>2 DEF Clamp, Limits

LEMMA NoSettingsOK == NoSettings \in SettingsRecord
  BY ChoiceAssumption DEF NoSettings, SettingsRecord

LEMMA ReadSettingsOK ==
  ASSUME settings \in SettingsRecord
  PROVE  ReadSettings \in SettingsRecord /\ Policy \in Limits
  <1>1. ReadSettings \in SettingsRecord
    BY NoSettingsOK DEF ReadSettings
  <1>2. ReadSettings.limit \in RawLimits
    BY <1>1 DEF SettingsRecord
  <1> QED
    BY <1>1, <1>2, ClampHolds DEF Policy

LEMMA InitChoiceInv == ChoiceInit => ChoiceInv
  <1> SUFFICES ASSUME ChoiceInit
               PROVE  ChoiceInv
    OBVIOUS
  <1>1. settings \in SettingsRecord /\ settings.advanced = FALSE
    <2>1. \A n \in RawLimits : [advanced |-> FALSE, limit |-> n] \in SettingsRecord
      BY DEF SettingsRecord
    <2>2. NoSettings.advanced = FALSE
      BY DEF NoSettings
    <2> QED
      BY <2>1, <2>2, NoSettingsOK DEF ChoiceInit
  <1>2. ReadSettings = settings
    BY DEF ChoiceInit, ReadSettings
  <1>3. form.limit \in Limits
    BY <1>1, ReadSettingsOK DEF ChoiceInit, FreshForm
  <1>4. chosen.advanced = FALSE /\ chosen.limit = Clamp(settings.limit) /\ chosen.keys = {}
    BY <1>2 DEF ChoiceInit, Policy
  <1> QED
    BY <1>1, <1>3, <1>4 DEF ChoiceInv, ChoiceInit, Resting

LEMMA AfterWriteHolds ==
  ASSUME NEW write, NEW state \in SettingsRecord, form.limit \in Limits
  PROVE  /\ AfterWrite(write, state) \in SettingsRecord
         /\ AfterWrite(write, state).advanced =
              IF write.field = "advanced" THEN write.value = "on" ELSE state.advanced
         /\ AfterWrite(write, state).limit =
              IF write.field = "limit" THEN form.limit ELSE state.limit
  <1>1. CASE write.field = "advanced"
    <2>1. AfterWrite(write, state) = [state EXCEPT !.advanced = (write.value = "on")]
      BY <1>1 DEF AfterWrite
    <2>2. (write.value = "on") \in BOOLEAN
      OBVIOUS
    <2> QED
      BY <1>1, <2>1, <2>2 DEF SettingsRecord
  <1>2. CASE write.field = "limit"
    <2>1. AfterWrite(write, state) = [state EXCEPT !.limit = form.limit]
      BY <1>2 DEF AfterWrite
    <2> QED
      BY <1>2, <2>1 DEF SettingsRecord, Limits
  <1>3. CASE write.field \notin {"advanced", "limit"}
    <2>1. AfterWrite(write, state) = state
      BY <1>3 DEF AfterWrite
    <2> QED
      BY <1>3, <2>1
  <1> QED
    BY <1>1, <1>2, <1>3

LEMMA FillFileStep ==
  ASSUME ChoiceInv, FillFile
  PROVE  ChoiceInv'
  <1> DEFINE write == Head(saving)
             seen == [advanced |-> chosen.advanced, limit |-> chosen.limit]
             read == AfterWrite(write, seen)
  <1>0. /\ opened /\ opened' = FALSE /\ cutOff' = cutOff /\ cutOff \in BOOLEAN
        /\ settings' = AfterWrite(write, settings) /\ keys' = KeysAfter(write, keys)
        /\ broken' = broken \ {FileOf(write)}
        /\ chosen' = [advanced |-> read.advanced, limit |-> read.limit, keys |-> KeysAfter(write, chosen.keys)]
        /\ form' = form \/ form'.limit = Clamp(settings'.limit)
    BY DEF FillFile, ChoiceInv
  <1>1. /\ settings \in SettingsRecord /\ form.limit \in Limits
        /\ ~cutOff => /\ broken = {FileOf(write)} /\ settings.advanced = chosen.advanced
                      /\ Clamp(settings.limit) = chosen.limit /\ keys = chosen.keys
    BY <1>0 DEF ChoiceInv
  <1>2. /\ settings' \in SettingsRecord
        /\ settings'.advanced = IF write.field = "advanced" THEN write.value = "on" ELSE settings.advanced
        /\ settings'.limit = IF write.field = "limit" THEN form.limit ELSE settings.limit
    BY <1>0, <1>1, AfterWriteHolds
  <1>3. settings'.limit \in RawLimits
    BY <1>2 DEF SettingsRecord
  <1>4. form'.limit \in Limits
    BY <1>0, <1>1, <1>3, ClampHolds
  <1>5. ASSUME ~cutOff
        PROVE  /\ broken' = {} /\ settings'.advanced = chosen'.advanced
               /\ Clamp(settings'.limit) = chosen'.limit /\ keys' = chosen'.keys
    <2>1. form.limit \in RawLimits /\ Clamp(form.limit) = form.limit
      BY <1>1, ClampHolds DEF Limits
    <2>2. settings.limit \in RawLimits /\ settings.advanced \in BOOLEAN
      BY <1>1 DEF SettingsRecord
    <2>3. chosen.limit \in RawLimits /\ chosen.advanced \in BOOLEAN
      BY <1>1, <1>5, <2>2, ClampHolds DEF Limits
    <2>4. seen \in SettingsRecord
      BY <2>3 DEF SettingsRecord
    <2>5. seen.advanced = chosen.advanced /\ seen.limit = chosen.limit
      OBVIOUS
    <2> HIDE DEF seen
    <2>6. /\ read.advanced = IF write.field = "advanced" THEN write.value = "on" ELSE chosen.advanced
          /\ read.limit = IF write.field = "limit" THEN form.limit ELSE chosen.limit
      BY <1>1, <2>4, <2>5, AfterWriteHolds
    <2> HIDE DEF read, write
    <2>7. chosen'.advanced = read.advanced /\ chosen'.limit = read.limit /\ chosen'.keys = KeysAfter(write, chosen.keys)
      BY <1>0
    <2>8. settings'.advanced = chosen'.advanced
      BY <1>1, <1>2, <1>5, <2>6, <2>7
    <2>9. Clamp(settings'.limit) = chosen'.limit
      BY <1>1, <1>2, <1>5, <2>1, <2>6, <2>7
    <2> QED
      BY <1>0, <1>1, <1>5, <2>7, <2>8, <2>9
  <1> QED
    BY <1>0, <1>2, <1>4, <1>5 DEF ChoiceInv

LEMMA OpenFileStep ==
  ASSUME ChoiceInv, OpenFile
  PROVE  ChoiceInv'
  <1> DEFINE opening == FileOf(Head(saving))
  <1>1. /\ ~Resting /\ ~opened /\ opened' = TRUE /\ broken' = broken \cup {opening}
        /\ settings' = IF opening = "settings" THEN ReadSettings ELSE settings
        /\ keys' = IF opening = "keys" THEN ReadKeys ELSE keys
        /\ UNCHANGED <<form, saving, chosen, saves, cutOff>>
    BY DEF OpenFile
  <1>2. settings' \in SettingsRecord
    BY <1>1, ReadSettingsOK DEF ChoiceInv
  <1>3. ASSUME ~cutOff
        PROVE  broken = {} /\ settings' = settings /\ keys' = keys
    BY <1>1, <1>3 DEF ChoiceInv, ReadSettings, ReadKeys
  <1> QED
    BY <1>1, <1>2, <1>3 DEF ChoiceInv, Resting

LEMMA BeginStep ==
  ASSUME ChoiceInv, NEW writes, Begin(writes)
  PROVE  ChoiceInv'
  BY DEF ChoiceInv, Begin, Resting

LEMMA ProcessEndsStep ==
  ASSUME ChoiceInv, ProcessEnds
  PROVE  ChoiceInv'
  <1>1. /\ opened' = FALSE /\ form' = FreshForm /\ cutOff' = (cutOff \/ opened)
        /\ UNCHANGED <<settings, keys, broken, chosen, saves>>
    BY DEF ProcessEnds
  <1>2. form'.limit \in Limits
    BY <1>1, ReadSettingsOK DEF FreshForm, ChoiceInv
  <1> QED
    BY <1>1, <1>2 DEF ChoiceInv

(* A step that changes the form at most. *)
LEMMA FormStep ==
  ASSUME ChoiceInv, form'.limit \in Limits,
         UNCHANGED <<settings, keys, broken, saving, opened, chosen, saves, cutOff>>
  PROVE  ChoiceInv'
  BY DEF ChoiceInv, Resting

LEMMA ChoiceStep == ChoiceInv /\ [ChoiceNext]_choiceVars => ChoiceInv'
  <1> SUFFICES ASSUME ChoiceInv, [ChoiceNext]_choiceVars
               PROVE  ChoiceInv'
    OBVIOUS
  <1>0. form.limit \in Limits /\ Policy \in Limits
    BY ReadSettingsOK DEF ChoiceInv
  <1>1. ASSUME NEW p \in KeyNames, TypeKey(p)
        PROVE  ChoiceInv'
    <2>1. form'.limit = form.limit
      BY <1>1 DEF TypeKey
    <2> QED
      BY <1>0, <1>1, <2>1, FormStep DEF TypeKey
  <1>2. ASSUME NEW p \in KeyNames, ClearKey(p)
        PROVE  ChoiceInv'
    BY <1>2, BeginStep DEF ClearKey
  <1>3. ASSUME NEW n \in RawLimits, SpinLimit(n)
        PROVE  ChoiceInv'
    <2>1. n \in Limits
      <3>1. n \in LeastLimit..MostLimit
        BY <1>3 DEF SpinLimit
      <3> QED
        BY <3>1 DEF Limits
    <2>2. form'.limit \in {n, form.limit}
      BY <1>3 DEF SpinLimit
    <2> QED
      BY <1>0, <1>3, <2>1, <2>2, FormStep DEF SpinLimit
  <1>4. CASE ToggleAdvanced \/ SaveKeys \/ SaveSettings
    BY <1>4, BeginStep DEF ToggleAdvanced, SaveKeys, SaveSettings
  <1>5. CASE OpenFile
    BY <1>5, OpenFileStep
  <1>6. CASE FillFile
    BY <1>6, FillFileStep
  <1>7. CASE OpenPage
    <2>1. form'.limit = Policy
      BY <1>7 DEF OpenPage, FreshForm
    <2> QED
      BY <1>0, <1>7, <2>1, FormStep DEF OpenPage
  <1>8. CASE ProcessEnds
    BY <1>8, ProcessEndsStep
  <1>9. CASE UNCHANGED choiceVars
    BY <1>0, <1>9, FormStep DEF choiceVars
  <1> QED
    BY <1>1, <1>2, <1>3, <1>4, <1>5, <1>6, <1>7, <1>8, <1>9 DEF ChoiceNext

(* Unless the process ended in the middle of a write, the two files hold   *)
(* what the user last chose for every field (settings_store.py,            *)
(* key_store.py, ui/pages/settings.py), for any number of saves, keys and  *)
(* limits.                                                                 *)
THEOREM SettingsRemain == ChoiceSpec => []SettingsStay
  <1>1. ChoiceInv => SettingsStay
    BY DEF ChoiceInv, SettingsStay
  <1> QED
    BY <1>1, InitChoiceInv, ChoiceStep, PTL DEF ChoiceSpec

(* What a handler still has to write: only keys of providers are written   *)
(* to the file of keys.                                                    *)
WriteRecord ==
    {w \in [field: {"advanced", "limit", "key", "clear"}, value: KeyNames \cup {"on", "off", "form"}] :
       w.field \in {"key", "clear"} => w.value \in KeyNames}

ChoiceTypes ==
    /\ ChoiceTypeOK
    /\ IsFiniteSet(form.typed)
    /\ saving \in Seq(WriteRecord)
    /\ opened => saving # <<>>

LEMMA KeyWriteOK ==
  ASSUME NEW p \in KeyNames
  PROVE  Write("key", p) \in WriteRecord /\ Write("clear", p) \in WriteRecord
  BY DEF Write, WriteRecord

LEMMA OtherWritesOK ==
  /\ Write("advanced", "on") \in WriteRecord /\ Write("advanced", "off") \in WriteRecord
  /\ Write("limit", "form") \in WriteRecord
  BY DEF Write, WriteRecord

LEMMA KeyWritesOK ==
  ASSUME ChoiceTypes
  PROVE  KeyWrites \in Seq(WriteRecord)
  <1> DEFINE W == {Write("key", p) : p \in form.typed}
  <1>1. form.typed \subseteq KeyNames /\ IsFiniteSet(form.typed)
    BY DEF ChoiceTypes, ChoiceTypeOK
  <1>2. IsFiniteSet(W)
    <2> DEFINE keyWrite == [p \in form.typed |-> Write("key", p)]
    <2>1. keyWrite \in [form.typed -> W] /\ \A p \in form.typed : keyWrite[p] = Write("key", p)
      OBVIOUS
    <2>2. keyWrite \in Surjection(form.typed, W)
      BY <2>1 DEF Surjection
    <2> HIDE DEF keyWrite, W
    <2> QED
      BY <1>1, <2>2, FS_Surjection
  <1>3. W \subseteq WriteRecord
    BY <1>1, KeyWriteOK
  <1>4. KeyWrites = SetToSeq(W)
    BY DEF KeyWrites
  <1> HIDE DEF W
  <1> QED
    BY <1>2, <1>3, <1>4, EnumeratedOnce, SeqOfMore

LEMMA LimitsAre == Limits \subseteq LeastLimit..MostLimit
  <1>1. RawLimits \subseteq Nat /\ LeastLimit \in RawLimits /\ MostLimit \in RawLimits
    BY ChoiceAssumption
  <1>2. LeastLimit \in Nat /\ MostLimit \in Nat
    BY <1>1
  <1>3. ASSUME NEW n \in Limits
        PROVE  n \in LeastLimit..MostLimit
    <2>1. n \in Nat /\ LeastLimit <= n /\ n <= MostLimit
      BY <1>1 DEF Limits
    <2> QED
      BY <1>2, <2>1
  <1> QED
    BY <1>3

LEMMA TypesInit == ChoiceInit => ChoiceTypes
  <1> SUFFICES ASSUME ChoiceInit
               PROVE  ChoiceTypes
    OBVIOUS
  <1>1. settings \in SettingsRecord /\ Policy \in Limits
    BY InitChoiceInv, ReadSettingsOK DEF ChoiceInv
  <1>2. form = [limit |-> Policy, typed |-> {}]
    BY DEF ChoiceInit, FreshForm
  <1>3. form \in [limit: LeastLimit..MostLimit, typed: SUBSET KeyNames]
    BY <1>1, <1>2, LimitsAre
  <1>4. IsFiniteSet(form.typed)
    BY <1>2, FS_EmptySet
  <1>5. saving \in Seq(WriteRecord) /\ opened = FALSE
    BY DEF ChoiceInit
  <1>6. keys = {} /\ broken = {} /\ cutOff = FALSE /\ saves \in 0..MaxSaves
    BY ChoiceAssumption DEF ChoiceInit
  <1>7. settings \in [advanced: BOOLEAN, limit: RawLimits]
    BY <1>1 DEF SettingsRecord
  <1>8. ChoiceTypeOK
    BY ONLY <1>3, <1>5, <1>6, <1>7 DEF ChoiceTypeOK
  <1> QED
    BY ONLY <1>4, <1>5, <1>8 DEF ChoiceTypes

(* A handler that begins.                                                  *)
LEMMA BeginTypes ==
  ASSUME ChoiceTypes, NEW writes \in Seq(WriteRecord), Begin(writes)
  PROVE  ChoiceTypes'
  <1>1. /\ saves < MaxSaves /\ saves' = saves + 1 /\ saving' = writes
        /\ UNCHANGED <<settings, keys, broken, form, opened, chosen, cutOff>> /\ ~opened
    BY DEF Begin, Resting, ChoiceTypes
  <1>2. saves' \in 0..MaxSaves
    BY <1>1, ChoiceAssumption DEF ChoiceTypes, ChoiceTypeOK
  <1> QED
    BY <1>1, <1>2 DEF ChoiceTypes, ChoiceTypeOK

(* A step of the widgets alone.                                            *)
LEMMA FormTypes ==
  ASSUME ChoiceTypes, form' \in [limit: LeastLimit..MostLimit, typed: SUBSET KeyNames], IsFiniteSet(form'.typed),
         UNCHANGED <<settings, keys, broken, saving, opened, saves, cutOff>>
  PROVE  ChoiceTypes'
  BY DEF ChoiceTypes, ChoiceTypeOK

LEMMA NewFormOK ==
  ASSUME NEW n \in Limits, NEW f, f = [limit |-> n, typed |-> {}]
  PROVE  f \in [limit: LeastLimit..MostLimit, typed: SUBSET KeyNames] /\ IsFiniteSet(f.typed)
  BY LimitsAre, FS_EmptySet

LEMMA TypesStep == ChoiceTypes /\ ChoiceInv /\ [ChoiceNext]_choiceVars => ChoiceTypes'
  <1> SUFFICES ASSUME ChoiceTypes, ChoiceInv, [ChoiceNext]_choiceVars
               PROVE  ChoiceTypes'
    OBVIOUS
  <1> DEFINE write == Head(saving)
             Forms == [limit: LeastLimit..MostLimit, typed: SUBSET KeyNames]
  <1>0. /\ form \in Forms /\ IsFiniteSet(form.typed) /\ Policy \in Limits
        /\ settings \in SettingsRecord /\ ReadSettings \in SettingsRecord
    BY ReadSettingsOK DEF ChoiceInv, ChoiceTypes, ChoiceTypeOK
  <1>1. ASSUME NEW p \in KeyNames, TypeKey(p)
        PROVE  ChoiceTypes'
    <2>1. form' = [form EXCEPT !.typed = form.typed \cup {p}]
      BY <1>1 DEF TypeKey
    <2>2. form' \in Forms /\ form'.typed = form.typed \cup {p}
      BY <1>0, <2>1
    <2>3. IsFiniteSet(form'.typed)
      BY <1>0, <2>2, FS_AddElement
    <2> QED
      BY <1>1, <2>2, <2>3, FormTypes DEF TypeKey
  <1>2. ASSUME NEW p \in KeyNames, ClearKey(p)
        PROVE  ChoiceTypes'
    <2>1. <<Write("clear", p)>> \in Seq(WriteRecord)
      BY KeyWriteOK
    <2> QED
      BY <1>2, <2>1, BeginTypes DEF ClearKey
  <1>3. ASSUME NEW n \in RawLimits, SpinLimit(n)
        PROVE  ChoiceTypes'
    <2>1. form' = [form EXCEPT !.limit = n] /\ n \in LeastLimit..MostLimit
      BY <1>3 DEF SpinLimit
    <2>2. form' \in Forms /\ form'.typed = form.typed
      BY <1>0, <2>1
    <2> QED
      BY <1>0, <1>3, <2>2, FormTypes DEF SpinLimit
  <1>4. CASE ToggleAdvanced
    <2>1. <<Write("advanced", IF Advanced THEN "off" ELSE "on")>> \in Seq(WriteRecord)
      BY OtherWritesOK
    <2> QED
      BY <1>4, <2>1, BeginTypes DEF ToggleAdvanced
  <1>5. CASE SaveKeys
    BY <1>5, KeyWritesOK, BeginTypes DEF SaveKeys
  <1>6. CASE SaveSettings
    <2> DEFINE first == <<Write("limit", "form")>>
    <2>1. first \in Seq(WriteRecord) /\ KeyWrites \in Seq(WriteRecord)
      BY OtherWritesOK, KeyWritesOK
    <2>2. Begin(first \o KeyWrites)
      BY <1>6 DEF SaveSettings
    <2> HIDE DEF first
    <2>3. first \o KeyWrites \in Seq(WriteRecord)
      BY <2>1
    <2> QED
      BY <2>2, <2>3, BeginTypes
  <1>7. CASE OpenFile
    <2>1. /\ ~Resting /\ opened' = TRUE /\ broken' = broken \cup {FileOf(write)}
          /\ settings' = IF FileOf(write) = "settings" THEN ReadSettings ELSE settings
          /\ keys' = IF FileOf(write) = "keys" THEN ReadKeys ELSE keys
          /\ UNCHANGED <<form, saving, chosen, saves, cutOff>>
      BY <1>7 DEF OpenFile
    <2>2. FileOf(write) \in {"settings", "keys"}
      BY DEF FileOf
    <2>3. ReadKeys \subseteq KeyNames
      BY DEF ReadKeys, ChoiceTypes, ChoiceTypeOK
    <2>4. settings' \in SettingsRecord /\ keys' \subseteq KeyNames /\ broken' \subseteq {"settings", "keys"}
      BY <1>0, <2>1, <2>2, <2>3 DEF ChoiceTypes, ChoiceTypeOK
    <2> QED
      BY <2>1, <2>4 DEF ChoiceTypes, ChoiceTypeOK, SettingsRecord, Resting
  <1>8. CASE FillFile
    <2>1. /\ opened /\ opened' = FALSE /\ settings' = AfterWrite(write, settings)
          /\ keys' = KeysAfter(write, keys) /\ broken' = broken \ {FileOf(write)} /\ saving' = Tail(saving)
          /\ form' = form \/ form' = [limit |-> Clamp(settings'.limit), typed |-> {}]
          /\ UNCHANGED <<saves, cutOff>>
      BY <1>8 DEF FillFile
    <2>2. saving \in Seq(WriteRecord) /\ saving # <<>>
      BY <2>1 DEF ChoiceTypes
    <2>3. write \in WriteRecord /\ saving' \in Seq(WriteRecord)
      BY <2>1, <2>2
    <2> HIDE DEF write
    <2>4. settings' \in SettingsRecord
      BY <1>0, <2>1, AfterWriteHolds DEF ChoiceInv
    <2>5. keys' \subseteq KeyNames
      BY <2>1, <2>3 DEF KeysAfter, WriteRecord, ChoiceTypes, ChoiceTypeOK
    <2>6. Clamp(settings'.limit) \in Limits
      BY <2>4, ClampHolds DEF SettingsRecord
    <2>7. form' \in Forms /\ IsFiniteSet(form'.typed)
      BY <1>0, <2>1, <2>6, NewFormOK
    <2> QED
      BY <2>1, <2>3, <2>4, <2>5, <2>7 DEF ChoiceTypes, ChoiceTypeOK, SettingsRecord
  <1>9. CASE OpenPage
    <2>1. form' = [limit |-> Policy, typed |-> {}]
      BY <1>9 DEF OpenPage, FreshForm
    <2> QED
      BY <1>0, <1>9, <2>1, NewFormOK, FormTypes DEF OpenPage
  <1>10. CASE ProcessEnds
    <2>1. /\ saving' = <<>> /\ opened' = FALSE /\ cutOff' = (cutOff \/ opened)
          /\ UNCHANGED <<settings, keys, broken, chosen, saves>>
      BY <1>10 DEF ProcessEnds
    <2>2. form' = FreshForm
      BY <1>10 DEF ProcessEnds
    <2>3. form' \in Forms /\ IsFiniteSet(form'.typed)
      BY <1>0, <2>2, NewFormOK DEF FreshForm
    <2>4. cutOff' \in BOOLEAN
      BY <2>1 DEF ChoiceTypes, ChoiceTypeOK
    <2>5. ChoiceTypeOK'
      BY <2>1, <2>3, <2>4 DEF ChoiceTypes, ChoiceTypeOK
    <2>6. saving' \in Seq(WriteRecord)
      BY <2>1
    <2> QED
      BY ONLY <2>1, <2>3, <2>5, <2>6 DEF ChoiceTypes
  <1>11. CASE UNCHANGED choiceVars
    BY <1>11 DEF choiceVars, ChoiceTypes, ChoiceTypeOK
  <1> QED
    BY <1>1, <1>2, <1>3, <1>4, <1>5, <1>6, <1>7, <1>8, <1>9, <1>10, <1>11 DEF ChoiceNext

(* Types of the settings page and its files (settings_store.py,            *)
(* key_store.py): in particular the widgets hold a limit within bounds     *)
(* whatever number the file was given, and no key of anything but a        *)
(* provider is written.                                                    *)
THEOREM SettingsTypes == ChoiceSpec => []ChoiceTypeOK
  <1>1. ChoiceTypes => ChoiceTypeOK
    BY DEF ChoiceTypes
  <1> QED
    BY <1>1, InitChoiceInv, ChoiceStep, TypesInit, TypesStep, PTL DEF ChoiceSpec

(* ProviderChoice: the registry.                                           *)
Metas == {Registry[i] : i \in 1..23}

LEMMA RegistryIs ==
  /\ Registry \in Seq(Metas) /\ Len(Registry) = 23 /\ DOMAIN Registry = 1..23
  /\ Metas = Range(Registry) /\ Metas = Elements(Registry)
  /\ \A i, j \in 1..23 : Registry[i].id = Registry[j].id => i = j
  /\ \A p, q \in Metas : p.id = q.id => p = q
  <1>1. Len(Registry) = 23 /\ DOMAIN Registry = 1..23
    BY DEF Registry
  <1>2. Registry \in Seq(Metas) /\ Metas = Range(Registry) /\ Metas = Elements(Registry)
    <2>1. Registry = [i \in 1..23 |-> Registry[i]]
      BY DEF Registry
    <2>2. Registry \in [1..23 -> Metas]
      BY <2>1 DEF Metas
    <2> QED
      BY <1>1, <2>2, SeqDef DEF Metas, Range, Elements
  <1>3. 1..23 = {1, 2, 3, 4, 5, 6, 7, 8, 9, 10, 11, 12, 13, 14, 15, 16, 17, 18, 19, 20, 21, 22, 23}
    OBVIOUS
  <1>4. ASSUME NEW i \in 1..23, NEW j \in 1..23, Registry[i].id = Registry[j].id
        PROVE  i = j
    BY <1>3, <1>4 DEF Registry, Meta
  <1> QED
    BY <1>1, <1>2, <1>4 DEF Metas

(* What the user switched on is offered, and each source once.             *)
LEMMA CandidatesAre ==
  ASSUME NEW on \in BOOLEAN
  PROVE  /\ Candidates(on) \in Seq(Metas)
         /\ \A p \in Metas : p.id \in Offered(on) <=> SwitchedOn(p, on)
         /\ Offered(on) \subseteq {p.id : p \in Metas}
         /\ \A i, j \in 1..Len(Candidates(on)) : i < j => Candidates(on)[i].id # Candidates(on)[j].id
  <1> DEFINE places == {i \in DOMAIN Registry : SwitchedOn(Registry[i], on)}
             some == RowsAt(Registry, places)
  <1>1. places \in SUBSET (1..Len(Registry)) /\ some = Candidates(on)
    BY RegistryIs DEF Candidates
  <1>2. some \in Seq(Metas) /\ Elements(some) = {Registry[i] : i \in places}
    <2>1. Registry \in Seq(Metas) /\ places \in SUBSET (1..Len(Registry))
      BY <1>1, RegistryIs
    <2> HIDE DEF places
    <2> QED
      BY <2>1, RowsAtHolds
  <1>3. \A i, j \in 1..Len(some) : i < j => \E a, b \in places : a < b /\ some[i] = Registry[a] /\ some[j] = Registry[b]
    <2>1. Registry \in Seq(Metas) /\ places \in SUBSET (1..Len(Registry))
      BY <1>1, RegistryIs
    <2> HIDE DEF places
    <2> QED
      BY <2>1, RowsAtOrder
  <1>4. Offered(on) = {p.id : p \in Elements(some)}
    <2>1. DOMAIN some = 1..Len(some)
      BY <1>2
    <2> QED
      BY <1>1, <2>1 DEF Offered, Ids, Range, Elements
  <1>5. places \subseteq 1..23
    BY RegistryIs
  <1> HIDE DEF some
  <1>6. ASSUME NEW p \in Metas
        PROVE  p.id \in Offered(on) <=> SwitchedOn(p, on)
    <2>1. PICK k \in 1..23 : p = Registry[k]
      BY DEF Metas
    <2>2. CASE SwitchedOn(p, on)
      <3>1. k \in places
        BY <2>1, <2>2, RegistryIs
      <3> QED
        BY <1>2, <1>4, <2>1, <2>2, <3>1
    <2>3. CASE p.id \in Offered(on)
      <3>1. PICK i \in places : Registry[i].id = p.id
        BY <1>2, <1>4, <2>3
      <3>2. i = k
        BY <1>5, <2>1, <3>1, RegistryIs
      <3> QED
        BY <2>1, <2>3, <3>1, <3>2
    <2> QED
      BY <2>2, <2>3
  <1>7. Offered(on) \subseteq {p.id : p \in Metas}
    BY <1>2, <1>4, <1>5 DEF Metas
  <1>8. ASSUME NEW i \in 1..Len(some), NEW j \in 1..Len(some), i < j
        PROVE  some[i].id # some[j].id
    <2>1. PICK a \in places, b \in places : a < b /\ some[i] = Registry[a] /\ some[j] = Registry[b]
      BY <1>3, <1>8
    <2>2. a \in 1..23 /\ b \in 1..23 /\ a # b
      BY <1>5, <2>1
    <2> QED
      BY <2>1, <2>2, RegistryIs
  <1> QED
    BY <1>1, <1>2, <1>6, <1>7, <1>8

(* The lists of each region, and what they name.                           *)
LocalNames == {"china_hk_symbol_index", "symbol_universe", "nasdaq_directory"}
OnlineNames == {"akshare", "wikidata", "gleif", "norway_brreg"}
LastNames == {"rss", "xueqiu_external"}
AdvancedNames == {"fmp", "alpha_vantage", "marketaux", "companies_house", "opencorporates"}
Names == LocalNames \cup OnlineNames \cup LastNames \cup AdvancedNames

LEMMA NamesDiffer ==
  /\ LocalNames \cap OnlineNames = {} /\ LocalNames \cap LastNames = {} /\ OnlineNames \cap LastNames = {}
  /\ (LocalNames \cup OnlineNames \cup LastNames) \cap AdvancedNames = {}
  BY DEF LocalNames, OnlineNames, LastNames, AdvancedNames

LEMMA LocalListIs ==
  ASSUME NEW region
  PROVE  /\ LocalOfRegion(region) \in Seq(LocalNames) /\ Distinct(LocalOfRegion(region))
         /\ Elements(LocalOfRegion(region)) \subseteq LocalNames
         /\ "symbol_universe" \in Elements(LocalOfRegion(region))
         /\ region = "all" => Elements(LocalOfRegion(region)) = LocalNames
  <1>1. CASE region \in {"cn", "hk"}
    <2> DEFINE s == <<"china_hk_symbol_index", "symbol_universe">>
    <2>1. s \in Seq({"china_hk_symbol_index", "symbol_universe"}) /\ Distinct(s)
          /\ Elements(s) = {"china_hk_symbol_index", "symbol_universe"}
      BY ListOf2
    <2>2. LocalOfRegion(region) = s
      BY <1>1 DEF LocalOfRegion
    <2> HIDE DEF s
    <2> QED
      BY <1>1, <2>1, <2>2, SeqOfMore DEF LocalNames
  <1>2. CASE region = "all"
    <2> DEFINE s == <<"china_hk_symbol_index", "symbol_universe", "nasdaq_directory">>
    <2>1. s \in Seq(LocalNames) /\ Distinct(s) /\ Elements(s) = LocalNames
      BY ListOf3 DEF LocalNames
    <2>2. LocalOfRegion(region) = s
      BY <1>2 DEF LocalOfRegion
    <2> HIDE DEF s
    <2> QED
      BY <2>1, <2>2 DEF LocalNames
  <1>3. CASE region = "us"
    <2> DEFINE s == <<"symbol_universe", "nasdaq_directory">>
    <2>1. s \in Seq({"symbol_universe", "nasdaq_directory"}) /\ Distinct(s)
          /\ Elements(s) = {"symbol_universe", "nasdaq_directory"}
      BY ListOf2
    <2>2. LocalOfRegion(region) = s
      BY <1>3 DEF LocalOfRegion
    <2> HIDE DEF s
    <2> QED
      BY <1>3, <2>1, <2>2, SeqOfMore DEF LocalNames
  <1>4. CASE region \notin {"cn", "hk", "all", "us"}
    <2> DEFINE s == <<"symbol_universe">>
    <2>1. s \in Seq({"symbol_universe"}) /\ Distinct(s) /\ Elements(s) = {"symbol_universe"}
      BY ListOf1
    <2>2. LocalOfRegion(region) = s
      BY <1>4 DEF LocalOfRegion
    <2> HIDE DEF s
    <2> QED
      BY <1>4, <2>1, <2>2, SeqOfMore DEF LocalNames
  <1> QED
    BY <1>1, <1>2, <1>3, <1>4

LEMMA OnlineListIs ==
  ASSUME NEW region
  PROVE  /\ OnlineOf(region) \in Seq(OnlineNames) /\ Distinct(OnlineOf(region))
         /\ Elements(OnlineOf(region)) \subseteq OnlineNames
         /\ {"wikidata", "gleif"} \subseteq Elements(OnlineOf(region))
         /\ region = "cn" => Elements(OnlineOf(region)) = {"akshare", "wikidata", "gleif"}
         /\ region = "global" => Elements(OnlineOf(region)) = {"wikidata", "gleif"}
         /\ region = "no" => OnlineOf(region) = <<"norway_brreg", "wikidata", "gleif">>
  <1>1. CASE region \in {"cn", "hk"}
    <2> DEFINE s == <<"akshare", "wikidata", "gleif">>
    <2>1. s \in Seq({"akshare", "wikidata", "gleif"}) /\ Distinct(s) /\ Elements(s) = {"akshare", "wikidata", "gleif"}
      BY ListOf3
    <2>2. OnlineOf(region) = s
      BY <1>1 DEF OnlineOf
    <2> HIDE DEF s
    <2> QED
      BY <1>1, <2>1, <2>2, SeqOfMore DEF OnlineNames
  <1>2. CASE region = "no"
    <2> DEFINE s == <<"norway_brreg", "wikidata", "gleif">>
    <2>1. /\ s \in Seq({"norway_brreg", "wikidata", "gleif"}) /\ Distinct(s)
          /\ Elements(s) = {"norway_brreg", "wikidata", "gleif"}
      BY ListOf3
    <2>2. OnlineOf(region) = s
      BY <1>2 DEF OnlineOf
    <2>3. OnlineOf(region) = <<"norway_brreg", "wikidata", "gleif">>
      BY <2>2
    <2> HIDE DEF s
    <2>4. s \in Seq(OnlineNames)
      BY <2>1, SeqOfMore DEF OnlineNames
    <2> QED
      BY ONLY <1>2, <2>1, <2>2, <2>3, <2>4 DEF OnlineNames
  <1>3. CASE region = "all"
    <2> DEFINE s == <<"akshare", "wikidata", "gleif", "norway_brreg">>
    <2>1. s \in Seq(OnlineNames) /\ Distinct(s) /\ Elements(s) = OnlineNames
      BY ListOf4 DEF OnlineNames
    <2>2. OnlineOf(region) = s
      BY <1>3 DEF OnlineOf
    <2> HIDE DEF s
    <2> QED
      BY <1>3, <2>1, <2>2 DEF OnlineNames
  <1>4. CASE region \notin {"cn", "hk", "no", "all"}
    <2> DEFINE s == <<"wikidata", "gleif">>
    <2>1. s \in Seq({"wikidata", "gleif"}) /\ Distinct(s) /\ Elements(s) = {"wikidata", "gleif"}
      BY ListOf2
    <2>2. OnlineOf(region) = s
      BY <1>4 DEF OnlineOf
    <2> HIDE DEF s
    <2> QED
      BY <1>4, <2>1, <2>2, SeqOfMore DEF OnlineNames
  <1> QED
    BY <1>1, <1>2, <1>3, <1>4

(* Each region has its sources once, the advanced ones after them.         *)
LEMMA RegionListIs ==
  ASSUME NEW region
  PROVE  /\ PriorityOf(region) \in Seq(Names) /\ Distinct(PriorityOf(region))
         /\ Elements(PriorityOf(region)) \cap AdvancedNames = {}
         /\ region # "news" =>
              Elements(PriorityOf(region))
                = Elements(LocalOfRegion(region)) \cup Elements(OnlineOf(region)) \cup LastNames
  <1> DEFINE local == LocalOfRegion(region)
             online == OnlineOf(region)
             last == <<"rss", "xueqiu_external">>
  <1>1. /\ local \in Seq(LocalNames) /\ Distinct(local) /\ Elements(local) \subseteq LocalNames
        /\ online \in Seq(OnlineNames) /\ Distinct(online) /\ Elements(online) \subseteq OnlineNames
    BY LocalListIs, OnlineListIs
  <1>2. last \in Seq(LastNames) /\ Distinct(last) /\ Elements(last) = LastNames
    BY ListOf2 DEF LastNames
  <1>3. local \in Seq(Names) /\ online \in Seq(Names) /\ last \in Seq(Names)
    <2>1. LocalNames \subseteq Names /\ OnlineNames \subseteq Names /\ LastNames \subseteq Names
      BY DEF Names
    <2> HIDE DEF local, online, last
    <2> QED
      BY <1>1, <1>2, <2>1, SeqOfMore
  <1> HIDE DEF last
  <1>4. CASE region = "news"
    <2> DEFINE s == <<"rss">>
    <2>1. s \in Seq({"rss"}) /\ Distinct(s) /\ Elements(s) = {"rss"}
      BY ListOf1
    <2>2. PriorityOf(region) = s
      BY <1>4 DEF PriorityOf
    <2>3. {"rss"} \subseteq Names
      BY DEF Names, LastNames
    <2>4. {"rss"} \cap AdvancedNames = {}
      BY DEF AdvancedNames
    <2> HIDE DEF s
    <2>5. s \in Seq(Names)
      BY <2>1, <2>3, SeqOfMore
    <2> QED
      BY <1>4, <2>1, <2>2, <2>4, <2>5
  <1>5. CASE region # "news"
    <2> DEFINE first == local \o online
               all == first \o last
    <2>1. PriorityOf(region) = all
      BY <1>5 DEF PriorityOf, last
    <2> HIDE DEF local, online
    <2>2. Elements(local) \cap Elements(online) = {} /\ (Elements(local) \cup Elements(online)) \cap Elements(last) = {}
      BY <1>1, <1>2, NamesDiffer
    <2>3. first \in Seq(Names) /\ Elements(first) = Elements(local) \cup Elements(online)
      BY <1>3, ElementsOfConcat
    <2>4. Distinct(first)
      BY <1>1, <1>3, <2>2, ConcatDistinct
    <2> HIDE DEF first
    <2>5. all \in Seq(Names) /\ Elements(all) = Elements(first) \cup Elements(last)
      BY <1>3, <2>3, ElementsOfConcat
    <2>6. Distinct(all)
      BY <1>2, <1>3, <2>2, <2>3, <2>4, ConcatDistinct
    <2> HIDE DEF all
    <2>7. Elements(all) \cap AdvancedNames = {}
      BY <1>1, <1>2, <2>3, <2>5, NamesDiffer
    <2> QED
      BY <1>2, <2>1, <2>3, <2>5, <2>6, <2>7 DEF local, online
  <1> QED
    BY <1>4, <1>5

LEMMA PriorityIs ==
  ASSUME NEW on \in BOOLEAN, NEW region
  PROVE  /\ PriorityWith(on, region) \in Seq(Names) /\ Distinct(PriorityWith(on, region))
         /\ Elements(PriorityWith(on, region)) = Elements(PriorityOf(region)) \cup (IF on THEN AdvancedNames ELSE {})
  <1> DEFINE more == IF on THEN AdvancedPriority ELSE <<>>
             own == PriorityOf(region)
  <1>1. more \in Seq(AdvancedNames) /\ Distinct(more) /\ Elements(more) = IF on THEN AdvancedNames ELSE {}
    <2>1. CASE on
      <3> DEFINE s == <<"fmp", "alpha_vantage", "marketaux", "companies_house", "opencorporates">>
      <3>1. s \in Seq(AdvancedNames) /\ Distinct(s) /\ Elements(s) = AdvancedNames
        BY ListOf5 DEF AdvancedNames
      <3>2. more = s
        BY <2>1 DEF AdvancedPriority
      <3> HIDE DEF s, more
      <3> QED
        BY <2>1, <3>1, <3>2
    <2>2. CASE ~on
      <3>1. more = <<>>
        BY <2>2
      <3>2. <<>> \in Seq(AdvancedNames) /\ Distinct(<<>>) /\ Elements(<<>>) = {}
        BY DEF Distinct, Elements
      <3> HIDE DEF more
      <3> QED
        BY <2>2, <3>1, <3>2
    <2> QED
      BY <2>1, <2>2
  <1>2. own \in Seq(Names) /\ Distinct(own) /\ Elements(own) \cap AdvancedNames = {}
    BY RegionListIs
  <1>3. PriorityWith(on, region) = own \o more
    BY DEF PriorityWith
  <1>4. more \in Seq(Names)
    <2>1. AdvancedNames \subseteq Names
      BY DEF Names
    <2> HIDE DEF more
    <2> QED
      BY <1>1, <2>1, SeqOfMore
  <1> HIDE DEF more, own
  <1>5. Elements(own) \cap Elements(more) = {}
    BY <1>1, <1>2
  <1>6. Distinct(own \o more)
    BY <1>1, <1>2, <1>4, <1>5, ConcatDistinct
  <1>7. own \o more \in Seq(Names) /\ Elements(own \o more) = Elements(own) \cup Elements(more)
    BY <1>2, <1>4, ElementsOfConcat
  <1> QED
    BY <1>1, <1>3, <1>6, <1>7 DEF own

(* The sources of a search, by the three ways they are told: the list of   *)
(* the region, the sources of the type, and the list of all regions.       *)
LEMMA InOrderIs ==
  ASSUME NEW on \in BOOLEAN, NEW region, NEW scope
  PROVE  /\ InOrder(on, region, scope) \in Seq(Names) /\ Distinct(InOrder(on, region, scope))
         /\ Elements(InOrder(on, region, scope))
              = {id \in Elements(PriorityWith(on, region)) : id \in Offered(on) /\ Fits(id, scope)}
         /\ \A i, j \in 1..Len(InOrder(on, region, scope)) : i < j =>
              \E a, b \in 1..Len(PriorityWith(on, region)) :
                a < b /\ InOrder(on, region, scope)[i] = PriorityWith(on, region)[a]
                      /\ InOrder(on, region, scope)[j] = PriorityWith(on, region)[b]
  <1> DEFINE ids == PriorityWith(on, region)
             places == {i \in DOMAIN ids : ids[i] \in Offered(on) /\ Fits(ids[i], scope)}
             some == RowsAt(ids, places)
  <1>1. ids \in Seq(Names) /\ Distinct(ids) /\ DOMAIN ids = 1..Len(ids)
    BY PriorityIs
  <1>2. places \in SUBSET (1..Len(ids)) /\ some = InOrder(on, region, scope)
    BY <1>1 DEF InOrder
  <1>3. Elements(ids) = {ids[i] : i \in 1..Len(ids)}
    BY DEF Elements
  <1> HIDE DEF ids
  <1>4. {ids[i] : i \in places} = {id \in Elements(ids) : id \in Offered(on) /\ Fits(id, scope)}
    BY <1>1, <1>3
  <1> HIDE DEF places
  <1>5. some \in Seq(Names) /\ Elements(some) = {ids[i] : i \in places}
    BY <1>1, <1>2, RowsAtHolds
  <1>6. Distinct(some)
    BY <1>1, <1>2, RowsAtDistinct
  <1>7. ASSUME NEW i \in 1..Len(some), NEW j \in 1..Len(some), i < j
        PROVE  \E a, b \in places : a < b /\ some[i] = ids[a] /\ some[j] = ids[b]
    <2>1. PICK a \in places, b \in places : a < b /\ some[i] = ids[a] /\ some[j] = ids[b]
      <3>1. ids \in Seq(Names) /\ places \in SUBSET (1..Len(ids))
        BY <1>1, <1>2
      <3>2. i \in 1..Len(RowsAt(ids, places)) /\ j \in 1..Len(RowsAt(ids, places)) /\ i < j
        BY <1>7
      <3> QED
        BY ONLY <3>1, <3>2, RowsAtOrder
    <2> QED
      BY <2>1
  <1> HIDE DEF some
  <1>8. \A i, j \in 1..Len(some) : i < j =>
          \E a, b \in 1..Len(ids) : a < b /\ some[i] = ids[a] /\ some[j] = ids[b]
    BY <1>2, <1>7
  <1> QED
    BY <1>2, <1>4, <1>5, <1>6, <1>8 DEF ids

LEMMA OfCategoryIs ==
  ASSUME NEW on \in BOOLEAN, NEW scope
  PROVE  /\ OfCategory(on, scope) \in Seq(Metas)
         /\ \A p \in Elements(OfCategory(on, scope)) : p.id \in Offered(on)
         /\ Len(Ids(OfCategory(on, scope))) = Len(OfCategory(on, scope))
         /\ DOMAIN Ids(OfCategory(on, scope)) = 1..Len(OfCategory(on, scope))
         /\ IsInjective(Ids(OfCategory(on, scope)))
         /\ Range(Ids(OfCategory(on, scope))) \subseteq Offered(on)
  <1> DEFINE all == Candidates(on)
             places == {i \in DOMAIN all : all[i].category \in CategoriesOf(scope)}
             some == RowsAt(all, places)
             ids == Ids(some)
  <1>1. /\ all \in Seq(Metas)
        /\ \A i, j \in 1..Len(all) : i < j => all[i].id # all[j].id
        /\ Offered(on) = Range(Ids(all))
    BY CandidatesAre DEF Offered
  <1>2. some = OfCategory(on, scope)
    BY DEF OfCategory
  <1> HIDE DEF all
  <1>3. DOMAIN all = 1..Len(all) /\ places \in SUBSET (1..Len(all))
    BY <1>1
  <1> HIDE DEF places
  <1>4. some \in Seq(Metas) /\ Elements(some) = {all[i] : i \in places}
    BY <1>1, <1>3, RowsAtHolds
  <1>5. ASSUME NEW i \in 1..Len(some), NEW j \in 1..Len(some), i < j
        PROVE  some[i].id # some[j].id
    <2>1. PICK a \in places, b \in places : a < b /\ some[i] = all[a] /\ some[j] = all[b]
      BY <1>1, <1>3, <1>5, RowsAtOrder
    <2> QED
      BY <1>1, <1>3, <2>1
  <1>6. \A i \in 1..Len(all) : all[i].id \in Offered(on)
    BY <1>1, <1>3 DEF Ids, Range
  <1>7. \A p \in Elements(some) : p.id \in Offered(on)
    BY <1>3, <1>4, <1>6
  <1> HIDE DEF some
  <1>8. DOMAIN some = 1..Len(some) /\ Len(some) \in Nat
    BY <1>4
  <1>9. ids = [i \in 1..Len(some) |-> some[i].id]
    BY <1>8 DEF Ids
  <1>10. DOMAIN ids = 1..Len(some) /\ Len(ids) = Len(some)
    <2>1. ids \in Seq({some[i].id : i \in 1..Len(some)})
      <3>1. ids \in [1..Len(some) -> {some[i].id : i \in 1..Len(some)}]
        BY <1>9
      <3> QED
        BY <1>8, <3>1, SeqDef
    <2>2. DOMAIN ids = 1..Len(some)
      BY <1>9
    <2> HIDE DEF ids
    <2> QED
      BY <1>8, <2>1, <2>2, LenOfDomain
  <1>11. IsInjective(ids)
    <2>1. ASSUME NEW i \in 1..Len(some), NEW j \in 1..Len(some), ids[i] = ids[j]
          PROVE  i = j
      <3>1. some[i].id = some[j].id
        BY <1>9, <2>1
      <3>2. ~(i < j) /\ ~(j < i)
        BY <1>5, <3>1
      <3> QED
        BY <1>8, <3>2
    <2> QED
      BY <1>10, <2>1 DEF IsInjective
  <1>12. Range(ids) \subseteq Offered(on)
    BY <1>7, <1>9, <1>10 DEF Range, Elements
  <1> QED
    BY <1>2, <1>4, <1>7, <1>10, <1>11, <1>12

(* Whatever is chosen, there is a source, each once, and on offer.         *)
LEMMA SelectedIs ==
  ASSUME NEW on \in BOOLEAN, NEW region, NEW scope
  PROVE  /\ Selected(on, region, scope) # <<>> /\ IsInjective(Selected(on, region, scope))
         /\ Range(Selected(on, region, scope)) \subseteq Offered(on)
         /\ DOMAIN Selected(on, region, scope) \subseteq Nat
  <1> DEFINE own == InOrder(on, region, scope)
             ofKind == OfCategory(on, scope)
             kindIds == Ids(ofKind)
             ids == PriorityOf("all")
             places == {i \in DOMAIN ids : ids[i] \in Offered(on)}
             rest == RowsAt(ids, places)
  <1>1. own \in Seq(Names) /\ Distinct(own) /\ Elements(own) \subseteq Offered(on)
    BY InOrderIs
  <1>2. IsInjective(own) /\ Range(own) \subseteq Offered(on) /\ DOMAIN own \subseteq Nat
    <2> HIDE DEF own
    <2> QED
      BY <1>1, DistinctIs
  <1>3. /\ IsInjective(kindIds) /\ Range(kindIds) \subseteq Offered(on) /\ (ofKind # <<>> => kindIds # <<>>)
        /\ DOMAIN kindIds \subseteq Nat
    <2>1. /\ IsInjective(kindIds) /\ Range(kindIds) \subseteq Offered(on)
          /\ ofKind \in Seq(Metas) /\ Len(kindIds) = Len(ofKind) /\ DOMAIN kindIds = 1..Len(ofKind)
      BY OfCategoryIs
    <2> HIDE DEF kindIds, ofKind
    <2>2. ofKind # <<>> => Len(ofKind) # 0
      BY <2>1
    <2>3. Len(<<>>) = 0
      OBVIOUS
    <2> QED
      BY <2>1, <2>2, <2>3
  <1>4. IsInjective(rest) /\ Range(rest) \subseteq Offered(on) /\ rest # <<>> /\ DOMAIN rest \subseteq Nat
    <2>1. ids \in Seq(Names) /\ Distinct(ids) /\ "symbol_universe" \in Elements(ids)
      BY RegionListIs, LocalListIs
    <2> HIDE DEF ids
    <2>2. DOMAIN ids = 1..Len(ids) /\ places \in SUBSET (1..Len(ids))
      BY <2>1
    <2>3. rest \in Seq(Names) /\ Elements(rest) = {ids[i] : i \in places} /\ Distinct(rest)
      <3> HIDE DEF places
      <3> QED
        BY <2>1, <2>2, RowsAtHolds, RowsAtDistinct
    <2>4. \A i \in places : ids[i] \in Offered(on)
      OBVIOUS
    <2>5. PICK k \in 1..Len(ids) : ids[k] = "symbol_universe"
      BY <2>1 DEF Elements
    <2>6. "symbol_universe" \in Offered(on)
      <3>1. Registry[2].id = "symbol_universe" /\ SwitchedOn(Registry[2], on)
        BY DEF Registry, Meta, SwitchedOn
      <3>2. Registry[2] \in Metas
        BY DEF Metas
      <3> QED
        BY <3>1, <3>2, CandidatesAre
    <2>7. k \in places
      BY <2>2, <2>5, <2>6
    <2> HIDE DEF places
    <2> HIDE DEF rest
    <2>8. ids[k] \in Elements(rest)
      BY <2>3, <2>7
    <2>9. rest # <<>>
      BY <2>8 DEF Elements
    <2>10. Range(rest) \subseteq Offered(on) /\ IsInjective(rest)
      BY <2>3, <2>4, DistinctIs
    <2>11. DOMAIN rest \subseteq Nat
      BY <2>3
    <2> QED
      BY <2>9, <2>10, <2>11
  <1>5. Selected(on, region, scope) = IF own # <<>> THEN own ELSE IF ofKind # <<>> THEN kindIds ELSE rest
    BY DEF Selected
  <1> HIDE DEF own, ofKind, kindIds, rest
  <1> QED
    BY <1>2, <1>3, <1>4, <1>5

(* Categories; what is online and switched on.                             *)
LEMMA CategoryIs ==
  ASSUME NEW p \in Metas
  PROVE  CategoryOf(p.id) = p.category
  <1> DEFINE q == CHOOSE r \in Range(Registry) : r.id = p.id
  <1>1. q \in Metas /\ q.id = p.id
    BY RegistryIs
  <1>2. q = p
    BY <1>1, RegistryIs
  <1> QED
    BY <1>2 DEF CategoryOf

LEMMA CategoriesAre ==
  /\ CategoryOf("wikidata") = "global" /\ CategoryOf("gleif") = "global"
  /\ CategoryOf("opencorporates") = "global" /\ CategoryOf("companies_house") = "registry"
  /\ CategoryOf("fmp") = "financial" /\ CategoryOf("alpha_vantage") = "financial"
  /\ CategoryOf("akshare") = "experimental"
  <1>1. \A k \in 1..23 : Registry[k] \in Metas
    BY DEF Metas
  <1>2. 4 \in 1..23 /\ 5 \in 1..23 /\ 6 \in 1..23 /\ 7 \in 1..23 /\ 8 \in 1..23 /\ 11 \in 1..23 /\ 16 \in 1..23
    OBVIOUS
  <1>3. /\ Registry[4].id = "akshare" /\ Registry[4].category = "experimental"
        /\ Registry[5].id = "gleif" /\ Registry[5].category = "global"
        /\ Registry[6].id = "opencorporates" /\ Registry[6].category = "global"
        /\ Registry[7].id = "fmp" /\ Registry[7].category = "financial"
        /\ Registry[8].id = "alpha_vantage" /\ Registry[8].category = "financial"
        /\ Registry[11].id = "wikidata" /\ Registry[11].category = "global"
        /\ Registry[16].id = "companies_house" /\ Registry[16].category = "registry"
    BY DEF Registry, Meta
  <1> QED
    BY <1>1, <1>2, <1>3, CategoryIs

LEMMA SwitchedOnAre ==
  ASSUME NEW on \in BOOLEAN, NEW p \in Metas, SwitchedOn(p, on),
         p.id \notin ExcludedFromSearch, p.id # "finance_database"
  PROVE  /\ p.id \in LocalNames \cup OnlineNames \cup AdvancedNames
         /\ p.id \in AdvancedNames => on
  <1>1. PICK k \in 1..23 : p = Registry[k]
    BY DEF Metas
  <1>2. k \in {1, 2, 3, 4, 5, 6, 7, 8, 9, 10, 11, 12, 13, 14, 15, 16, 17, 18, 19, 20, 21, 22, 23}
    OBVIOUS
  <1> QED
    BY <1>1, <1>2 DEF Registry, Meta, SwitchedOn, ExcludedFromSearch, LocalNames, OnlineNames, AdvancedNames

(* A source that fits the type and is in the list of the region.           *)
LEMMA ListDecides ==
  ASSUME NEW on \in BOOLEAN, NEW region, NEW scope, NEW x \in Elements(PriorityWith(on, region)),
         x \in Offered(on), Fits(x, scope)
  PROVE  /\ Selected(on, region, scope) = InOrder(on, region, scope)
         /\ Range(Selected(on, region, scope))
              = {id \in Elements(PriorityWith(on, region)) : id \in Offered(on) /\ Fits(id, scope)}
         /\ x \in Range(Selected(on, region, scope))
  <1> DEFINE own == InOrder(on, region, scope)
             fitting == {id \in Elements(PriorityWith(on, region)) : id \in Offered(on) /\ Fits(id, scope)}
  <1>1. own \in Seq(Names) /\ Distinct(own) /\ Elements(own) = fitting
    BY InOrderIs
  <1>2. x \in fitting
    OBVIOUS
  <1>3. Selected(on, region, scope) = IF own # <<>> THEN own ELSE Selected(on, region, scope)
    BY DEF Selected
  <1> HIDE DEF own, fitting
  <1>4. own # <<>>
    BY <1>1, <1>2 DEF Elements
  <1>5. Range(own) = fitting
    BY <1>1, DistinctIs
  <1> QED
    BY <1>2, <1>3, <1>4, <1>5 DEF own, fitting

LEMMA AskedIs ==
  ASSUME NEW on \in BOOLEAN, NEW region \in Regions, NEW scope \in Scopes
  PROVE  AskedOf(on, region, scope) \subseteq Asked[on]
  <1>1. <<region, scope>> \in Regions \X Scopes
    OBVIOUS
  <1>2. Asked[on] = UNION {AskedOf(on, choice[1], choice[2]) : choice \in Regions \X Scopes}
    BY DEF Asked
  <1>3. AskedOf(on, region, scope) \in {AskedOf(on, choice[1], choice[2]) : choice \in Regions \X Scopes}
    BY <1>1
  <1> QED
    BY <1>2, <1>3

(* It is among the first when few others can come before it.               *)
LEMMA FewAreAsked ==
  ASSUME NEW on \in BOOLEAN, NEW region \in Regions, NEW scope \in Scopes, NEW id \in Online(on, region, scope),
         NEW few, IsFiniteSet(few), Cardinality(few) < 4,
         \A other \in Online(on, region, scope) : Precedes(other, id, Selected(on, region, scope)) => other \in few
  PROVE  id \in Asked[on]
  <1> DEFINE before == {other \in Online(on, region, scope) : Precedes(other, id, Selected(on, region, scope))}
  <1>1. before \subseteq few
    OBVIOUS
  <1>2. Cardinality(before) < MaxTasks
    <2> HIDE DEF before
    <2>1. IsFiniteSet(before) /\ Cardinality(before) <= Cardinality(few)
      BY <1>1, FS_Subset
    <2>2. Cardinality(before) \in Nat /\ Cardinality(few) \in Nat
      BY <2>1, FS_CardinalityType
    <2> QED
      BY <2>1, <2>2 DEF MaxTasks
  <1>3. id \in AskedOnline(on, region, scope)
    BY <1>2 DEF AskedOnline
  <1> QED
    BY <1>3, AskedIs DEF AskedOf

LEMMA FourAreFew ==
  ASSUME NEW a, NEW b, NEW c, NEW d, NEW x \in {a, b, c, d}
  PROVE  IsFiniteSet({a, b, c, d} \ {x}) /\ Cardinality({a, b, c, d} \ {x}) < 4
  <1> DEFINE one == {a} two == {a, b} three == {a, b, c} all == {a, b, c, d}
  <1>1. IsFiniteSet(one) /\ Cardinality(one) = 1
    BY FS_Singleton
  <1>2. two = one \cup {b} /\ three = two \cup {c} /\ all = three \cup {d} /\ x \in all
    OBVIOUS
  <1> HIDE DEF one, two, three, all
  <1>3. IsFiniteSet(two) /\ Cardinality(two) \in 1..2
    BY <1>1, <1>2, FS_AddElement
  <1>4. IsFiniteSet(three) /\ Cardinality(three) \in 1..3
    BY <1>2, <1>3, FS_AddElement
  <1>5. IsFiniteSet(all) /\ Cardinality(all) \in 1..4
    BY <1>2, <1>4, FS_AddElement
  <1>6. IsFiniteSet(all \ {x}) /\ Cardinality(all \ {x}) = Cardinality(all) - 1
    BY <1>2, <1>5, FS_RemoveElement
  <1>7. Cardinality(all \ {x}) < 4
    BY <1>5, <1>6
  <1> QED
    BY <1>6, <1>7 DEF all

LEMMA AmongFourIsAsked ==
  ASSUME NEW on \in BOOLEAN, NEW region \in Regions, NEW scope \in Scopes, NEW id \in Online(on, region, scope),
         NEW a, NEW b, NEW c, NEW d, Online(on, region, scope) \subseteq {a, b, c, d}
  PROVE  id \in Asked[on]
  <1> DEFINE few == {a, b, c, d} \ {id}
             s == Selected(on, region, scope)
  <1>1. IsFiniteSet(few) /\ Cardinality(few) < 4
    BY FourAreFew
  <1>2. IsInjective(s) /\ DOMAIN s \subseteq Nat
    BY SelectedIs
  <1>3. ASSUME NEW other \in Online(on, region, scope), Precedes(other, id, s)
        PROVE  other \in few
    <2>1. PICK i \in DOMAIN s, j \in DOMAIN s : i < j /\ s[i] = other /\ s[j] = id
      BY <1>3 DEF Precedes
    <2>2. i # j
      <3>1. i \in Nat /\ j \in Nat
        BY <1>2
      <3> QED
        BY <2>1, <3>1
    <2>3. other # id
      BY <1>2, <2>1, <2>2 DEF IsInjective
    <2> QED
      BY <2>3
  <1> HIDE DEF few, s
  <1> QED
    BY <1>1, <1>3, FewAreAsked DEF s

(* The second of the Norwegian list, after a source that is not online.    *)
LEMMA NorwayListIs ==
  ASSUME NEW on \in BOOLEAN
  PROVE  PriorityWith(on, "no")[1] = "symbol_universe" /\ PriorityWith(on, "no")[2] = "norway_brreg"
  <1> DEFINE first == <<"symbol_universe">> \o <<"norway_brreg", "wikidata", "gleif">>
             last == <<"rss", "xueqiu_external">>
             own == first \o last
             more == IF on THEN AdvancedPriority ELSE <<>>
  <1>1. PriorityWith(on, "no") = own \o more
    BY DEF PriorityWith, PriorityOf, LocalOfRegion, OnlineOf
  <1>2. /\ <<"symbol_universe">> \in Seq(Names) /\ <<"norway_brreg", "wikidata", "gleif">> \in Seq(Names)
        /\ last \in Seq(Names) /\ Len(last) = 2
    BY DEF Names, LocalNames, OnlineNames, LastNames
  <1>3. more \in Seq(Names)
    <2>1. AdvancedPriority \in Seq(AdvancedNames)
      BY ListOf5 DEF AdvancedPriority, AdvancedNames
    <2>2. AdvancedNames \subseteq Names
      BY DEF Names
    <2>3. AdvancedPriority \in Seq(Names)
      BY <2>1, <2>2, SeqOfMore
    <2> QED
      BY <2>3
  <1> HIDE DEF more, last
  <1>4. first \in Seq(Names) /\ Len(first) = 4 /\ first[1] = "symbol_universe" /\ first[2] = "norway_brreg"
    BY <1>2
  <1> HIDE DEF first
  <1>5. own \in Seq(Names) /\ Len(own) = 6 /\ own[1] = "symbol_universe" /\ own[2] = "norway_brreg"
    <2>1. own \in Seq(Names) /\ Len(own) = 6
      <3>1. Len(own) = Len(first) + Len(last)
        BY ONLY <1>2, <1>4, ConcatLen
      <3>2. own \in Seq(Names)
        BY <1>2, <1>4, ElementsOfConcat
      <3> QED
        BY ONLY <1>2, <1>4, <3>1, <3>2
    <2>2. own[1] = first[1] /\ own[2] = first[2]
      <3>1. 1 \in 1..Len(first) + Len(last) /\ 2 \in 1..Len(first) + Len(last) /\ 1 <= Len(first) /\ 2 <= Len(first)
        BY <1>2, <1>4
      <3> QED
        BY <1>2, <1>4, <3>1, ConcatAt
    <2> QED
      BY <1>4, <2>1, <2>2
  <1> HIDE DEF own
  <1>6. (own \o more)[1] = own[1] /\ (own \o more)[2] = own[2]
    <2>1. Len(more) \in Nat /\ 1 \in 1..Len(own) + Len(more) /\ 2 \in 1..Len(own) + Len(more)
      BY <1>3, <1>5
    <2> QED
      BY <1>3, <1>5, <2>1, ConcatAt
  <1> QED
    BY <1>1, <1>5, <1>6

LEMMA NorwayIsAsked ==
  ASSUME NEW on \in BOOLEAN, "norway_brreg" \in Offered(on)
  PROVE  "norway_brreg" \in Asked[on]
  <1> DEFINE s == Selected(on, "no", "all")
             ids == PriorityWith(on, "no")
             few == {}
             id == "norway_brreg"
  <1>1. ids \in Seq(Names) /\ Distinct(ids) /\ id \in Elements(ids)
    <2>1. id \in Elements(OnlineOf("no"))
      BY OnlineListIs, ListOf3
    <2> QED
      BY <2>1, PriorityIs, RegionListIs
  <1>2. Fits(id, "all")
    BY DEF Fits, CategoriesOf
  <1>3. s = InOrder(on, "no", "all") /\ id \in Range(s)
    BY <1>1, <1>2, ListDecides
  <1>4. id \in Online(on, "no", "all")
    BY <1>3 DEF Online, LocalIds, ExcludedFromSearch
  <1>5. s \in Seq(Names) /\ DOMAIN s = 1..Len(s)
    BY <1>3, InOrderIs
  <1>6. \A i, j \in 1..Len(s) : i < j => \E a, b \in 1..Len(ids) : a < b /\ s[i] = ids[a] /\ s[j] = ids[b]
    BY <1>3, InOrderIs
  <1>7. ids[1] = "symbol_universe" /\ ids[2] = id
    BY NorwayListIs
  <1>8. ASSUME NEW other \in Online(on, "no", "all"), Precedes(other, id, s)
        PROVE  other \in few
    <2>1. PICK i \in 1..Len(s), j \in 1..Len(s) : i < j /\ s[i] = other /\ s[j] = id
      BY <1>5, <1>8 DEF Precedes
    <2>2. PICK a \in 1..Len(ids), b \in 1..Len(ids) : a < b /\ s[i] = ids[a] /\ s[j] = ids[b]
      BY <1>6, <2>1
    <2> HIDE DEF ids, s
    <2>3. Len(ids) \in Nat /\ a \in Nat /\ b \in Nat /\ a >= 1 /\ 2 <= Len(ids)
      BY <1>1, <2>2
    <2>4. b = 2
      <3>1. 2 \in 1..Len(ids) /\ ids[b] = ids[2]
        BY <1>7, <2>1, <2>2, <2>3
      <3>2. ~(b < 2) /\ ~(2 < b)
        BY <1>1, <3>1 DEF Distinct
      <3> QED
        BY <2>3, <3>2
    <2>5. a = 1
      BY <2>2, <2>3, <2>4
    <2>6. other \in LocalIds
      BY <1>7, <2>1, <2>2, <2>5 DEF LocalIds
    <2>7. other \notin LocalIds
      BY <1>8 DEF Online
    <2> QED
      BY <2>6, <2>7
  <1>9. IsFiniteSet(few) /\ Cardinality(few) < 4
    BY FS_EmptySet
  <1>10. "no" \in Regions /\ "all" \in Scopes
    BY DEF Regions, Scopes
  <1> HIDE DEF few, s
  <1> QED
    BY <1>4, <1>8, <1>9, <1>10, FewAreAsked DEF s

(* What a search of a kind can ask online is little.                       *)
LEMMA EntitySearchIs ==
  ASSUME NEW on \in BOOLEAN, NEW x \in {"wikidata", "gleif", "opencorporates", "companies_house"}, x \in Offered(on),
         x \in AdvancedNames => on
  PROVE  x \in Asked[on]
  <1> DEFINE ids == PriorityWith(on, "global")
             few == {"wikidata", "gleif", "opencorporates", "companies_house"}
  <1>1. Elements(ids) = Elements(LocalOfRegion("global")) \cup {"wikidata", "gleif"} \cup LastNames
                        \cup (IF on THEN AdvancedNames ELSE {})
    BY PriorityIs, RegionListIs, OnlineListIs
  <1>2. Elements(LocalOfRegion("global")) \subseteq LocalIds
    BY LocalListIs DEF LocalNames, LocalIds
  <1>3. CategoriesOf("entity") = {"registry", "global"}
    BY DEF CategoriesOf
  <1>4. Fits(x, "entity")
    BY <1>3, CategoriesAre DEF Fits
  <1>5. x \in Elements(ids)
    BY <1>1 DEF AdvancedNames
  <1>6. /\ Range(Selected(on, "global", "entity"))
             = {id \in Elements(ids) : id \in Offered(on) /\ Fits(id, "entity")}
        /\ x \in Range(Selected(on, "global", "entity"))
    BY <1>4, <1>5, ListDecides
  <1>7. x \in Online(on, "global", "entity")
    BY <1>6 DEF Online, LocalIds, ExcludedFromSearch
  <1>8. ~Fits("fmp", "entity") /\ ~Fits("alpha_vantage", "entity")
    BY <1>3, CategoriesAre DEF Fits
  <1>9. ASSUME NEW id \in Online(on, "global", "entity")
        PROVE  id \in few
    <2>1. id \in Elements(ids) /\ id \notin LocalIds /\ id \notin ExcludedFromSearch /\ Fits(id, "entity")
      BY <1>6 DEF Online
    <2>2. id \in {"wikidata", "gleif"} \cup LastNames \cup AdvancedNames
      BY <1>1, <1>2, <2>1
    <2> QED
      BY <1>8, <2>1, <2>2 DEF LastNames, AdvancedNames, ExcludedFromSearch
  <1>10. "global" \in Regions /\ "entity" \in Scopes
    BY DEF Regions, Scopes
  <1> QED
    BY <1>7, <1>9, <1>10, AmongFourIsAsked

LEMMA FinancialSearchIs ==
  ASSUME NEW on \in BOOLEAN, NEW x \in {"akshare", "fmp", "alpha_vantage"}, x \in Offered(on),
         x \in AdvancedNames => on
  PROVE  x \in Asked[on]
  <1> DEFINE ids == PriorityWith(on, "cn")
             few == {"akshare", "fmp", "alpha_vantage", "akshare"}
  <1>1. Elements(ids) = Elements(LocalOfRegion("cn")) \cup {"akshare", "wikidata", "gleif"} \cup LastNames
                        \cup (IF on THEN AdvancedNames ELSE {})
    BY PriorityIs, RegionListIs, OnlineListIs
  <1>2. Elements(LocalOfRegion("cn")) \subseteq LocalIds
    BY LocalListIs DEF LocalNames, LocalIds
  <1>3. CategoriesOf("financial") = {"financial", "symbol_universe", "experimental"}
    BY DEF CategoriesOf
  <1>4. Fits(x, "financial")
    BY <1>3, CategoriesAre DEF Fits
  <1>5. x \in Elements(ids)
    BY <1>1 DEF AdvancedNames
  <1>6. /\ Range(Selected(on, "cn", "financial"))
             = {id \in Elements(ids) : id \in Offered(on) /\ Fits(id, "financial")}
        /\ x \in Range(Selected(on, "cn", "financial"))
    BY <1>4, <1>5, ListDecides
  <1>7. x \in Online(on, "cn", "financial")
    BY <1>6 DEF Online, LocalIds, ExcludedFromSearch
  <1>8. /\ ~Fits("wikidata", "financial") /\ ~Fits("gleif", "financial")
        /\ ~Fits("opencorporates", "financial") /\ ~Fits("companies_house", "financial")
    BY <1>3, CategoriesAre DEF Fits
  <1>9. ASSUME NEW id \in Online(on, "cn", "financial")
        PROVE  id \in few
    <2>1. id \in Elements(ids) /\ id \notin LocalIds /\ id \notin ExcludedFromSearch /\ Fits(id, "financial")
      BY <1>6 DEF Online
    <2>2. id \in {"akshare", "wikidata", "gleif"} \cup LastNames \cup AdvancedNames
      BY <1>1, <1>2, <2>1
    <2> QED
      BY <1>8, <2>1, <2>2 DEF LastNames, AdvancedNames, ExcludedFromSearch
  <1>10. "cn" \in Regions /\ "financial" \in Scopes
    BY DEF Regions, Scopes
  <1> QED
    BY <1>7, <1>9, <1>10, AmongFourIsAsked

LEMMA LocalIsAsked ==
  ASSUME NEW on \in BOOLEAN, NEW x \in LocalNames, x \in Offered(on)
  PROVE  x \in Asked[on]
  <1>1. x \in Elements(PriorityWith(on, "all"))
    BY PriorityIs, RegionListIs, LocalListIs
  <1>2. Fits(x, "all")
    BY DEF Fits, CategoriesOf
  <1>3. x \in Range(Selected(on, "all", "all"))
    BY <1>1, <1>2, ListDecides
  <1>4. x \in AskedOf(on, "all", "all")
    BY <1>3 DEF AskedOf, AskedLocally, LocalIds, LocalNames
  <1>5. "all" \in Regions /\ "all" \in Scopes
    BY DEF Regions, Scopes
  <1> QED
    BY <1>4, <1>5, AskedIs

LEMMA SwitchedOnIsAsked ==
  ASSUME NEW on \in BOOLEAN, NEW p \in Metas, SwitchedOn(p, on),
         p.id \notin ExcludedFromSearch, p.id # "finance_database"
  PROVE  p.id \in Asked[on]
  <1>1. p.id \in Offered(on)
    BY CandidatesAre
  <1>2. p.id \in LocalNames \cup OnlineNames \cup AdvancedNames /\ (p.id \in AdvancedNames => on)
    BY SwitchedOnAre
  <1>3. CASE p.id \in LocalNames
    BY <1>1, <1>3, LocalIsAsked
  <1>4. CASE p.id = "norway_brreg"
    BY <1>1, <1>4, NorwayIsAsked
  <1>5. CASE p.id \in {"wikidata", "gleif", "opencorporates", "companies_house"}
    BY <1>1, <1>2, <1>5, EntitySearchIs
  <1>6. CASE p.id \in {"akshare", "fmp", "alpha_vantage"}
    BY <1>1, <1>2, <1>6, FinancialSearchIs
  <1>7. p.id # "marketaux"
    BY DEF ExcludedFromSearch
  <1> QED
    BY <1>2, <1>3, <1>4, <1>5, <1>6, <1>7 DEF OnlineNames, AdvancedNames

LEMMA AskedIsOffered ==
  ASSUME NEW on \in BOOLEAN
  PROVE  Asked[on] \subseteq Offered(on)
  <1>1. ASSUME NEW id \in Asked[on]
        PROVE  id \in Offered(on)
    <2>1. PICK choice \in Regions \X Scopes : id \in AskedOf(on, choice[1], choice[2])
      BY <1>1 DEF Asked
    <2>2. id \in Range(Selected(on, choice[1], choice[2]))
      BY <2>1 DEF AskedOf, AskedLocally, AskedOnline, Online
    <2> QED
      BY <2>2, SelectedIs
  <1> QED
    BY <1>1

LEMMA SoundFor ==
  ASSUME Advanced \in BOOLEAN
  PROVE  ChoiceIsSound
  <1>1. EveryChoiceServed[Advanced]
    BY SelectedIs DEF EveryChoiceServed
  <1>2. ASSUME NEW p \in Metas, p.id \in Asked[Advanced]
        PROVE  ProviderState(p) # "disabled"
    <2>1. SwitchedOn(p, Advanced)
      BY <1>2, AskedIsOffered, CandidatesAre
    <2>2. p.implemented
      BY <2>1 DEF SwitchedOn
    <2>3. ProviderState(p) \in {"not_configured", "enabled"}
      BY <2>1, <2>2 DEF ProviderState
    <2> QED
      BY <2>3
  <1>3. ASSUME NEW p \in Metas, ProviderState(p) = "enabled"
        PROVE  p.id \in Asked[Advanced] \cup ExcludedFromSearch \cup {"finance_database"}
    <2>1. SwitchedOn(p, Advanced)
      <3>1. CASE ~p.implemented
        BY <1>3, <3>1 DEF ProviderState, SwitchedOn
      <3>2. CASE p.implemented /\ ~SwitchedOn(p, Advanced)
        BY <1>3, <3>2 DEF ProviderState
      <3> QED
        BY <3>1, <3>2
    <2> QED
      BY <2>1, SwitchedOnIsAsked
  <1> QED
    BY <1>1, <1>2, <1>3, RegistryIs DEF ChoiceIsSound

(* Whatever the settings, the registry, the lists of the regions and the    *)
(* switch of the advanced sources agree: every region and scope has a      *)
(* source, each once, none is asked that is switched off, and those the    *)
(* page shows as available are asked by some search within its four tasks  *)
(* (registry.py, search_service.py, ui/pages/settings.py).                 *)
THEOREM ChoiceStaysSound == ChoiceSpec => []ChoiceIsSound
  <1>1. ChoiceInv => ChoiceIsSound
    <2> SUFFICES ASSUME ChoiceInv
                 PROVE  ChoiceIsSound
      OBVIOUS
    <2>1. ReadSettings \in SettingsRecord
      BY ReadSettingsOK DEF ChoiceInv
    <2>2. Advanced \in BOOLEAN
      BY <2>1 DEF Advanced, SettingsRecord
    <2> QED
      BY <2>2, SoundFor
  <1> QED
    BY <1>1, InitChoiceInv, ChoiceStep, PTL DEF ChoiceSpec

-----------------------------------------------------------------------------
(* Providers.                                                              *)

CallRecord ==
    [who: ProviderFor, op: {"search", "profile", "news", "cached"}, facts: SUBSET {"symbol", "lei", "name"},
     step: Nat, rows: BOOLEAN, top: Nat, error: {"none", "empty", "provider_unavailable", "refused"},
     asked: Nat, last: {"ok", "fault", "refused"}, faults: Nat, old: Nat]

(* While a call that collects has no error to tell, every place it could   *)
(* not look at had an old copy; an index is never asked over the network.  *)
CallOK(c) ==
    /\ c \in CallRecord
    /\ c.who \in Collecting => c.error # "empty" /\ (c.error = "none" => c.faults = c.old)
    /\ c.who \in {"akshare", "nasdaq_directory"} /\ c.op # "search" => c.error = "none"
    /\ c.who \in {"symbol_universe", "china_hk_symbol_index"} => c.last = "ok"

ProvidersInv == (call = NoCall \/ CallOK(call)) /\ OutageIsToldApart

LEMMA InitProvidersInv == ProvidersInit => ProvidersInv
  BY DEF ProvidersInit, ProvidersInv, OutageIsToldApart, NoAnswer

(* What a call may end with. *)
LEMMA AnswerHolds ==
  ASSUME NEW c, NEW found \in BOOLEAN, NEW error, Answers(c, found, error),
         c.who = "xueqiu_external" \/ (found <=> error = "none"),
         error = "empty" => IF c.who \in Collecting THEN c.faults = c.old ELSE c.last = "ok",
         error = "not_configured" => c.asked = 0
  PROVE  ProvidersInv'
  <1>1. /\ call' = NoCall /\ answer'.who = c.who /\ answer'.found = found /\ answer'.error = error
        /\ answer'.asked = c.asked /\ answer'.last = c.last /\ answer'.faults = c.faults /\ answer'.old = c.old
    BY DEF Answers
  <1> QED
    BY <1>1 DEF ProvidersInv, OutageIsToldApart

LEMMA FoundOrHolds ==
  ASSUME NEW c, NEW found \in BOOLEAN, NEW error, FoundOr(c, found, error), error # "none",
         error = "empty" => IF c.who \in Collecting THEN c.faults = c.old ELSE c.last = "ok",
         error = "not_configured" => c.asked = 0
  PROVE  ProvidersInv'
  BY AnswerHolds DEF FoundOr

LEMMA GoesOn ==
  ASSUME ProvidersInv, NEW c, CallOK(c), call' = c, UNCHANGED answer
  PROVE  ProvidersInv'
  BY DEF ProvidersInv, OutageIsToldApart

LEMMA CallOfHolds ==
  ASSUME NEW who \in ProviderFor, NEW op \in {"search", "profile", "news", "cached"},
         NEW facts \in SUBSET {"symbol", "lei", "name"}
  PROVE  /\ CallOK(CallOf(who, op, facts)) /\ CallOf(who, op, facts).who = who /\ CallOf(who, op, facts).op = op
         /\ CallOf(who, op, facts).asked = 0 /\ CallOf(who, op, facts).last = "ok"
         /\ CallOf(who, op, facts).faults = CallOf(who, op, facts).old
  <1> DEFINE c == CallOf(who, op, facts)
  <1>1. /\ c.who = who /\ c.op = op /\ c.asked = 0 /\ c.last = "ok" /\ c.faults = 0 /\ c.old = 0 /\ c.error = "none"
    BY DEF CallOf
  <1>2. c \in CallRecord
    BY DEF CallOf, CallRecord
  <1> HIDE DEF c
  <1>3. CallOK(c)
    BY <1>1, <1>2 DEF CallOK
  <1> QED
    BY <1>1, <1>3 DEF c

LEMMA AfterRequestHolds ==
  ASSUME NEW c \in CallRecord, NEW o, o.kind \in {"ok", "fault", "refused"}
  PROVE  /\ AfterRequest(c, o) \in CallRecord
         /\ AfterRequest(c, o).who = c.who /\ AfterRequest(c, o).op = c.op /\ AfterRequest(c, o).step = c.step
         /\ AfterRequest(c, o).error = c.error /\ AfterRequest(c, o).top = c.top /\ AfterRequest(c, o).facts = c.facts
         /\ AfterRequest(c, o).rows = c.rows /\ AfterRequest(c, o).last = o.kind /\ AfterRequest(c, o).old = c.old
         /\ AfterRequest(c, o).faults = IF o.kind = "ok" THEN c.faults ELSE c.faults + 1
  <1>1. c.faults \in Nat /\ c.asked \in Nat
    BY DEF CallRecord
  <1>2. AfterRequest(c, o) = [c EXCEPT !.asked = c.asked + 1, !.last = o.kind,
                                       !.faults = c.faults + IF o.kind = "ok" THEN 0 ELSE 1]
    BY DEF AfterRequest
  <1>3. c.faults + (IF o.kind = "ok" THEN 0 ELSE 1) = IF o.kind = "ok" THEN c.faults ELSE c.faults + 1
    BY <1>1
  <1>4. AfterRequest(c, o) = [c EXCEPT !.asked = c.asked + 1, !.last = o.kind,
                                       !.faults = IF o.kind = "ok" THEN c.faults ELSE c.faults + 1]
    BY <1>2, <1>3
  <1>5. c.asked + 1 \in Nat /\ (IF o.kind = "ok" THEN c.faults ELSE c.faults + 1) \in Nat
    BY <1>1
  <1> QED
    BY <1>4, <1>5 DEF CallRecord

LEMMA OutcomeKinds ==
  ASSUME NEW c, NEW o \in Outcomes(c)
  PROVE  /\ o.kind \in {"ok", "fault", "refused"}
         /\ o.rows = {} \/ \E r \in Replied : o.rows = {r}
         /\ o.kind # "ok" => ErrorOf(o) \in {"provider_unavailable", "refused"}
  BY DEF Outcomes, ErrorOf

LEMMA StartCallStep ==
  ASSUME ProvidersInv, NEW who \in ProviderFor, NEW op \in {"search", "profile", "news", "cached"},
         NEW facts \in SUBSET {"symbol", "lei", "name"}, StartCall(who, op, facts)
  PROVE  ProvidersInv'
  <1> DEFINE c == CallOf(who, op, facts)
  <1>1. /\ CallOK(c) /\ c.who = who /\ c.op = op /\ c.asked = 0 /\ c.last = "ok" /\ c.faults = c.old
    BY CallOfHolds
  <1>2. CASE who = "xueqiu_external" /\ op = "search"
    <2>1. Answers(c, FALSE, "none")
      BY <1>2 DEF StartCall
    <2> HIDE DEF c
    <2> QED
      BY <1>1, <1>2, <2>1, AnswerHolds
  <1>3. CASE ~(who = "xueqiu_external" /\ op = "search") /\ Missing(c) # "none"
    <2>1. Answers(c, FALSE, Missing(c))
      BY <1>3 DEF StartCall
    <2> HIDE DEF c
    <2> QED
      BY <1>1, <1>3, <2>1, AnswerHolds
  <1>4. CASE ~(who = "xueqiu_external" /\ op = "search") /\ Missing(c) = "none"
    <2>1. call' = c /\ answer' = NoAnswer
      BY <1>4 DEF StartCall
    <2> HIDE DEF c
    <2> QED
      BY <1>1, <2>1 DEF ProvidersInv, OutageIsToldApart, NoAnswer
  <1> QED
    BY <1>2, <1>3, <1>4

LEMMA TestFormStep ==
  ASSUME ProvidersInv, NEW who \in {"fmp", "alpha_vantage"}, TestForm(who)
  PROVE  ProvidersInv'
  <1> DEFINE c == CallOf(who, "test", {})
  <1>1. c.who = who /\ c.asked = 0
    BY DEF CallOf
  <1>2. CASE who \notin keyed
    <2>1. Answers(c, FALSE, "not_configured")
      BY <1>2 DEF TestForm
    <2> HIDE DEF c
    <2> QED
      BY <1>1, <2>1, AnswerHolds
  <1>3. CASE who \in keyed
    <2>1. PICK o \in Outcomes(c) : Answers(AfterRequest(c, o), o.kind = "ok",
                                           IF o.kind = "ok" THEN "none" ELSE ErrorOf(o))
      BY <1>3 DEF TestForm
    <2> HIDE DEF c
    <2>2. o.kind # "ok" => ErrorOf(o) \in {"provider_unavailable", "refused"}
      BY OutcomeKinds
    <2>3. CASE o.kind = "ok"
      <3>1. Answers(AfterRequest(c, o), TRUE, "none")
        BY <2>1, <2>3
      <3> QED
        BY <3>1, AnswerHolds
    <2>4. CASE o.kind # "ok"
      <3>1. Answers(AfterRequest(c, o), FALSE, ErrorOf(o))
        BY <2>1, <2>4
      <3> QED
        BY <2>2, <2>4, <3>1, AnswerHolds
    <2> QED
      BY <2>3, <2>4
  <1> QED
    BY <1>2, <1>3

LEMMA CallFacts ==
  ASSUME ProvidersInv, call # NoCall
  PROVE  CallOK(call) /\ call \in CallRecord
  BY DEF ProvidersInv, CallOK

(* Such calls collect nothing. *)
LEMMA AskOnceStep ==
  ASSUME ProvidersInv, AskOnce
  PROVE  ProvidersInv'
  <1>1. call # NoCall /\ OneRequest(call) /\ CallOK(call) /\ call \in CallRecord
    BY CallFacts DEF AskOnce
  <1>2. call.who \notin Collecting \cup {"symbol_universe", "china_hk_symbol_index"}
    BY <1>1 DEF OneRequest, Collecting
  <1>3. PICK o \in Outcomes(call) :
          LET c == AfterRequest(call, o) IN
           IF o.kind = "fault" /\ c.who = "fmp" /\ c.op = "profile" /\ c.step = 1
           THEN call' = [c EXCEPT !.step = 2] /\ UNCHANGED answer
           ELSE IF o.kind # "ok" THEN Answers(c, FALSE, ErrorOf(o))
           ELSE FoundOr(c, Parsed(c.who, c.op, o.rows) # {}, "empty")
    BY DEF AskOnce
  <1> DEFINE c == AfterRequest(call, o)
             n == [c EXCEPT !.step = 2]
             found == Parsed(c.who, c.op, o.rows) # {}
  <1>4. o.kind \in {"ok", "fault", "refused"} /\ (o.kind # "ok" => ErrorOf(o) \in {"provider_unavailable", "refused"})
    BY OutcomeKinds
  <1>5. c \in CallRecord /\ c.who = call.who /\ c.last = o.kind
    BY <1>1, <1>4, AfterRequestHolds
  <1>6. \/ call' = n /\ UNCHANGED answer
        \/ o.kind # "ok" /\ Answers(c, FALSE, ErrorOf(o))
        \/ o.kind = "ok" /\ FoundOr(c, found, "empty")
    BY <1>3
  <1> HIDE DEF c
  <1>7. n \in CallRecord /\ n.who = call.who
    BY <1>5 DEF CallRecord
  <1>8. found \in BOOLEAN
    OBVIOUS
  <1> HIDE DEF n, found
  <1>9. CallOK(n)
    BY <1>2, <1>7 DEF CallOK, Collecting
  <1>10. CASE call' = n /\ UNCHANGED answer
    BY <1>9, <1>10, GoesOn
  <1>11. CASE o.kind # "ok" /\ Answers(c, FALSE, ErrorOf(o))
    BY <1>4, <1>11, AnswerHolds
  <1>12. CASE o.kind = "ok" /\ FoundOr(c, found, "empty")
    BY <1>2, <1>5, <1>8, <1>12, FoundOrHolds
  <1> QED
    BY <1>6, <1>10, <1>11, <1>12

LEMMA AskFeedStep ==
  ASSUME ProvidersInv, AskFeed
  PROVE  ProvidersInv'
  <1>0. call # NoCall /\ call.who = "rss"
    BY DEF AskFeed
  <1>1. call # NoCall /\ call.who = "rss" /\ CallOK(call) /\ call \in CallRecord
    BY <1>0, CallFacts
  <1>2. PICK o \in Outcomes(call), enough \in BOOLEAN :
         LET listed == call.rows \/ ParseRssNews(o.rows) # {}
             c == [AfterRequest(call, o) EXCEPT !.rows = listed,
                                         !.error = IF o.kind = "ok" \/ @ # "none" THEN @ ELSE ErrorOf(o)]
         IN  IF c.step < Feeds /\ ~(listed /\ enough)
             THEN call' = [c EXCEPT !.step = @ + 1] /\ UNCHANGED answer
             ELSE FoundOr(c, listed, IF c.error = "none" THEN "empty" ELSE c.error)
    BY DEF AskFeed
  <1> DEFINE listed == call.rows \/ ParseRssNews(o.rows) # {}
             after == AfterRequest(call, o)
             error == IF o.kind = "ok" \/ after.error # "none" THEN after.error ELSE ErrorOf(o)
             c == [after EXCEPT !.rows = listed, !.error = error]
             n == [c EXCEPT !.step = @ + 1]
  <1>3. \/ call' = n /\ UNCHANGED answer
        \/ FoundOr(c, listed, IF c.error = "none" THEN "empty" ELSE c.error)
    BY <1>2
  <1>4. o.kind \in {"ok", "fault", "refused"} /\ (o.kind # "ok" => ErrorOf(o) \in {"provider_unavailable", "refused"})
    BY OutcomeKinds
  <1>5. /\ after \in CallRecord /\ after.who = "rss" /\ after.error = call.error /\ after.old = call.old
        /\ after.faults = IF o.kind = "ok" THEN call.faults ELSE call.faults + 1
    BY <1>1, <1>4, AfterRequestHolds
  <1>6. listed \in BOOLEAN
    BY <1>1 DEF CallRecord
  <1> HIDE DEF after, listed
  <1>7. call.error \in {"none", "provider_unavailable", "refused"}
    BY <1>1 DEF CallOK, CallRecord, Collecting
  <1>8. /\ error \in {"none", "provider_unavailable", "refused"}
        /\ error = "none" => o.kind = "ok" /\ call.error = "none"
    BY <1>4, <1>5, <1>7
  <1>9. error = "none" => after.faults = after.old
    BY <1>1, <1>5, <1>8 DEF CallOK, Collecting
  <1> HIDE DEF error
  <1>10. c \in CallRecord /\ c.who = "rss" /\ c.error = error /\ c.faults = after.faults /\ c.old = after.old
    BY <1>5, <1>6, <1>8 DEF CallRecord
  <1> HIDE DEF c
  <1>11. n \in CallRecord /\ n.who = "rss" /\ n.error = error /\ n.faults = after.faults /\ n.old = after.old
    BY <1>10 DEF CallRecord
  <1> HIDE DEF n
  <1>12. CallOK(n)
    BY <1>8, <1>9, <1>11 DEF CallOK
  <1>13. CASE call' = n /\ UNCHANGED answer
    BY <1>12, <1>13, GoesOn
  <1>14. CASE FoundOr(c, listed, IF c.error = "none" THEN "empty" ELSE c.error)
    <2> DEFINE told == IF c.error = "none" THEN "empty" ELSE c.error
    <2>1. told \in {"empty", "provider_unavailable", "refused"} /\ (told = "empty" => c.faults = c.old)
      BY <1>8, <1>9, <1>10
    <2>2. c.who \in Collecting /\ FoundOr(c, listed, told)
      BY <1>10, <1>14 DEF Collecting
    <2> HIDE DEF told
    <2> QED
      BY <1>6, <2>1, <2>2, FoundOrHolds
  <1> QED
    BY <1>3, <1>13, <1>14

LEMMA IndexSteps ==
  ASSUME ProvidersInv, SearchIndex \/ ProfileFromIndex
  PROVE  ProvidersInv'
  <1>1. /\ call # NoCall /\ call.who \in {"symbol_universe", "china_hk_symbol_index"} /\ CallOK(call)
        /\ call \in CallRecord
    BY CallFacts DEF SearchIndex, ProfileFromIndex
  <1>2. call.last = "ok" /\ call.who \notin Collecting
    BY <1>1 DEF CallOK, Collecting
  <1>3. \/ \E error \in {"index_missing", "index_corrupted", "provider_unavailable"} : Answers(call, FALSE, error)
        \/ \E found \in BOOLEAN : FoundOr(call, found, "empty")
    BY DEF SearchIndex, ProfileFromIndex
  <1>4. ASSUME NEW error \in {"index_missing", "index_corrupted", "provider_unavailable"}, Answers(call, FALSE, error)
        PROVE  ProvidersInv'
    BY <1>4, AnswerHolds
  <1>5. ASSUME NEW found \in BOOLEAN, FoundOr(call, found, "empty")
        PROVE  ProvidersInv'
    BY <1>2, <1>5, FoundOrHolds
  <1> QED
    BY <1>3, <1>4, <1>5

LEMMA SearchPackageStep ==
  ASSUME ProvidersInv, SearchPackage
  PROVE  ProvidersInv'
  <1> DEFINE failed == AfterRequest(call, [kind |-> "fault"])
             asked == AfterRequest(call, [kind |-> "ok"])
  <1>1. call # NoCall /\ call.who = "finance_database" /\ call \in CallRecord
    BY CallFacts DEF SearchPackage
  <1>2. asked.who = call.who /\ asked.last = "ok"
    BY <1>1, AfterRequestHolds
  <1> HIDE DEF failed, asked
  <1>3. \/ Answers(call, FALSE, "dependency_missing")
        \/ Answers(failed, FALSE, "provider_unavailable")
        \/ \E found \in BOOLEAN : FoundOr(asked, found, "empty")
    BY DEF SearchPackage, failed, asked
  <1>4. CASE Answers(call, FALSE, "dependency_missing")
    BY <1>4, AnswerHolds
  <1>5. CASE Answers(failed, FALSE, "provider_unavailable")
    BY <1>5, AnswerHolds
  <1>6. ASSUME NEW found \in BOOLEAN, FoundOr(asked, found, "empty")
        PROVE  ProvidersInv'
    <2>1. asked.who \notin Collecting
      BY <1>1, <1>2 DEF Collecting
    <2> QED
      BY <1>2, <1>6, <2>1, FoundOrHolds
  <1> QED
    BY <1>3, <1>4, <1>5, <1>6

(* One file read: an error is noted unless there was an old copy.          *)
LEMMA ReadFileHolds ==
  ASSUME NEW c, CallOK(c), c.who \in {"akshare", "nasdaq_directory"}, NEW f, NEW o \in {"ok", "fault"}, NEW listed
  PROVE  /\ c.op = "search" => CallOK(ReadFile(c, f, o, listed))
         /\ ReadFile(c, f, o, listed) \in CallRecord
         /\ ReadFile(c, f, o, listed).who = c.who
         /\ ReadFile(c, f, o, listed).op = c.op
         /\ ReadFile(c, f, o, listed).error # "empty"
         /\ ReadFile(c, f, o, listed).error = "none" => ReadFile(c, f, o, listed).faults = ReadFile(c, f, o, listed).old
  <1> DEFINE kept == IF c.who = "akshare" THEN ParseAkshare(listed) ELSE ParseNasdaq(listed)
             more == c.rows \/ kept # {}
             answered == AfterRequest(c, [kind |-> "ok"])
             asked == AfterRequest(c, [kind |-> "fault"])
             n == ReadFile(c, f, o, listed)
  <1>1. c \in CallRecord /\ c.error # "empty" /\ (c.error = "none" => c.faults = c.old)
    BY DEF CallOK, Collecting
  <1>2. more \in BOOLEAN
    BY <1>1 DEF CallRecord
  <1>3. /\ answered \in CallRecord /\ answered.who = c.who /\ answered.op = c.op /\ answered.error = c.error
        /\ answered.faults = c.faults /\ answered.old = c.old
    BY <1>1, AfterRequestHolds
  <1>4. /\ asked \in CallRecord /\ asked.who = c.who /\ asked.op = c.op /\ asked.error = c.error
        /\ asked.faults = c.faults + 1 /\ asked.old = c.old
    BY <1>1, AfterRequestHolds
  <1>5. n = IF file[f] = "fresh" THEN [c EXCEPT !.rows = more]
            ELSE IF o = "ok" THEN [answered EXCEPT !.rows = more]
            ELSE IF file[f] = "stale" THEN [asked EXCEPT !.rows = more, !.old = asked.old + 1]
            ELSE [asked EXCEPT !.error = IF asked.error = "none" THEN "provider_unavailable" ELSE asked.error]
    BY DEF ReadFile
  <1> HIDE DEF kept, more, answered, asked, n
  <1>6. c.faults \in Nat /\ c.old \in Nat /\ c.old + 1 \in Nat
    BY <1>1 DEF CallRecord
  <1>7. /\ n \in CallRecord /\ n.who = c.who /\ n.op = c.op /\ n.error # "empty"
        /\ n.error = "none" => n.faults = n.old
    <2>1. CASE file[f] = "fresh"
      <3>1. n = [c EXCEPT !.rows = more]
        BY <1>5, <2>1
      <3> QED
        BY <1>1, <1>2, <3>1 DEF CallRecord
    <2>2. CASE file[f] # "fresh" /\ o = "ok"
      <3>1. n = [answered EXCEPT !.rows = more]
        BY <1>5, <2>2
      <3> QED
        BY <1>1, <1>2, <1>3, <3>1 DEF CallRecord
    <2>3. CASE file[f] = "stale" /\ o # "ok"
      <3>1. n = [asked EXCEPT !.rows = more, !.old = asked.old + 1]
        BY <1>5, <2>3
      <3>2. /\ n \in CallRecord /\ n.who = c.who /\ n.op = c.op /\ n.error = c.error
            /\ n.faults = c.faults + 1 /\ n.old = c.old + 1
        BY <1>2, <1>4, <1>6, <3>1 DEF CallRecord
      <3> QED
        BY <1>1, <3>2
    <2>4. CASE file[f] \notin {"fresh", "stale"} /\ o # "ok"
      <3> DEFINE told == IF asked.error = "none" THEN "provider_unavailable" ELSE asked.error
      <3>1. n = [asked EXCEPT !.error = told]
        BY <1>5, <2>4
      <3>2. told \in {"provider_unavailable", "refused"}
        BY <1>1, <1>4 DEF CallRecord
      <3> HIDE DEF told
      <3>3. n \in CallRecord /\ n.who = c.who /\ n.op = c.op /\ n.error = told
        BY <1>4, <3>1, <3>2 DEF CallRecord
      <3> QED
        BY <3>2, <3>3
    <2> QED
      BY <2>1, <2>2, <2>3, <2>4
  <1>8. c.op = "search" => CallOK(n)
    BY <1>7 DEF CallOK
  <1> QED
    BY <1>7, <1>8 DEF n

LEMMA SearchFilesStep ==
  ASSUME ProvidersInv, SearchFiles
  PROVE  ProvidersInv'
  <1>1. /\ call # NoCall /\ call.who \in {"akshare", "nasdaq_directory"} /\ call.op = "search" /\ CallOK(call)
        /\ call \in CallRecord
    BY CallFacts DEF SearchFiles
  <1>2. PICK o \in {"ok", "fault"}, listed \in {{}} \cup {{r} : r \in Replied} :
          LET c == ReadFile(call, FilesOf(call.who)[call.step], o, listed) IN
            IF c.step = 1 THEN call' = [c EXCEPT !.step = 2] /\ UNCHANGED answer
            ELSE FoundOr(c, c.rows, IF c.error = "none" THEN "empty" ELSE c.error)
    BY DEF SearchFiles
  <1> DEFINE c == ReadFile(call, FilesOf(call.who)[call.step], o, listed)
             n == [c EXCEPT !.step = 2]
             told == IF c.error = "none" THEN "empty" ELSE c.error
  <1>3. (call' = n /\ UNCHANGED answer) \/ FoundOr(c, c.rows, told)
    BY <1>2
  <1>4. /\ c \in CallRecord /\ CallOK(c) /\ c.who = call.who /\ c.op = "search" /\ c.error # "empty"
        /\ c.error = "none" => c.faults = c.old
    BY <1>1, ReadFileHolds
  <1> HIDE DEF c
  <1>5. /\ n \in CallRecord /\ n.who = c.who /\ n.op = c.op /\ n.error = c.error /\ n.faults = c.faults
        /\ n.old = c.old /\ n.last = c.last
    BY <1>4 DEF CallRecord
  <1> HIDE DEF n
  <1>6. CallOK(n)
    BY <1>4, <1>5 DEF CallOK
  <1>7. CASE call' = n /\ UNCHANGED answer
    BY <1>6, <1>7, GoesOn
  <1>8. CASE FoundOr(c, c.rows, told)
    <2>1. told \in {"empty", "provider_unavailable", "refused"} /\ (told = "empty" => c.faults = c.old) /\ c.rows \in BOOLEAN
      BY <1>4 DEF CallRecord
    <2>2. c.who \in Collecting
      BY <1>1, <1>4 DEF Collecting
    <2> HIDE DEF told
    <2> QED
      BY <1>8, <2>1, <2>2, FoundOrHolds
  <1> QED
    BY <1>3, <1>7, <1>8

LEMMA NoAkshareStep ==
  ASSUME ProvidersInv, NoAkshare
  PROVE  ProvidersInv'
  <1>1. Answers(call, FALSE, "dependency_missing")
    BY DEF NoAkshare
  <1> QED
    BY <1>1, AnswerHolds

LEMMA SearchCachedFilesStep ==
  ASSUME ProvidersInv, SearchCachedFiles
  PROVE  ProvidersInv'
  <1>1. call # NoCall /\ call.who = "nasdaq_directory" /\ call.op = "cached" /\ CallOK(call)
    BY CallFacts DEF SearchCachedFiles
  <1>2. call.who \in Collecting /\ call.faults = call.old
    BY <1>1 DEF CallOK, Collecting
  <1>3. PICK found \in BOOLEAN, error \in {"empty", "cache_miss"} : FoundOr(call, found, error)
    BY DEF SearchCachedFiles
  <1> QED
    BY <1>2, <1>3, FoundOrHolds

LEMMA AkshareProfileStep ==
  ASSUME ProvidersInv, AkshareProfile
  PROVE  ProvidersInv'
  <1>1. call # NoCall /\ call.who = "akshare" /\ call.op = "profile" /\ CallOK(call) /\ call \in CallRecord
    BY CallFacts DEF AkshareProfile
  <1>2. call.who \in Collecting /\ call.faults = call.old
    BY <1>1 DEF CallOK, Collecting
  <1>3. PICK o \in Outcomes(call) :
         IF file["cn_profile"] = "fresh" THEN Answers(call, TRUE, "none")
         ELSE LET c == AfterRequest(call, o) IN
              IF o.kind = "ok" THEN FoundOr(c, ParseAkshareProfile(o.rows) # {}, "empty")
              ELSE FoundOr([c EXCEPT !.old = 1], file["cn_profile"] = "stale", "provider_unavailable")
    BY DEF AkshareProfile
  <1> DEFINE c == AfterRequest(call, o)
             aged == [c EXCEPT !.old = 1]
             found == ParseAkshareProfile(o.rows) # {}
             stale == file["cn_profile"] = "stale"
  <1>4. \/ Answers(call, TRUE, "none")
        \/ o.kind = "ok" /\ FoundOr(c, found, "empty")
        \/ FoundOr(aged, stale, "provider_unavailable")
    BY <1>3
  <1>5. found \in BOOLEAN /\ stale \in BOOLEAN
    OBVIOUS
  <1>6. o.kind = "ok" => c.who = call.who /\ c.faults = call.faults /\ c.old = call.old
    BY <1>1, AfterRequestHolds
  <1> HIDE DEF c, aged, found, stale
  <1>7. CASE Answers(call, TRUE, "none")
    BY <1>7, AnswerHolds
  <1>8. CASE o.kind = "ok" /\ FoundOr(c, found, "empty")
    BY <1>2, <1>5, <1>6, <1>8, FoundOrHolds
  <1>9. CASE FoundOr(aged, stale, "provider_unavailable")
    BY <1>5, <1>9, FoundOrHolds
  <1> QED
    BY <1>4, <1>7, <1>8, <1>9

LEMMA AskGleifProfileStep ==
  ASSUME ProvidersInv, AskGleifProfile
  PROVE  ProvidersInv'
  <1>1. call # NoCall /\ call.who = "gleif" /\ CallOK(call) /\ call \in CallRecord
    BY CallFacts DEF AskGleifProfile
  <1>2. PICK o \in Outcomes(call) :
          LET c == AfterRequest(call, o) IN
            \/ o.kind # "ok" /\ Answers(c, FALSE, ErrorOf(o))
            \/ call' = [c EXCEPT !.step = 2] /\ UNCHANGED answer
            \/ o.kind = "ok" /\ Answers(c, FALSE, "empty")
            \/ o.kind = "ok" /\ FoundOr(c, ParseGleif(o.rows) # {}, "empty")
    BY DEF AskGleifProfile
  <1> DEFINE c == AfterRequest(call, o)
             n == [c EXCEPT !.step = 2]
             found == ParseGleif(o.rows) # {}
  <1>3. o.kind \in {"ok", "fault", "refused"} /\ (o.kind # "ok" => ErrorOf(o) \in {"provider_unavailable", "refused"})
    BY OutcomeKinds
  <1>4. c \in CallRecord /\ c.who = "gleif" /\ c.last = o.kind
    BY <1>1, <1>3, AfterRequestHolds
  <1>5. found \in BOOLEAN
    OBVIOUS
  <1>6. \/ o.kind # "ok" /\ Answers(c, FALSE, ErrorOf(o))
        \/ call' = n /\ UNCHANGED answer
        \/ o.kind = "ok" /\ Answers(c, FALSE, "empty")
        \/ o.kind = "ok" /\ FoundOr(c, found, "empty")
    BY <1>2
  <1> HIDE DEF c, found
  <1>7. n \in CallRecord /\ n.who = "gleif"
    BY <1>4 DEF CallRecord
  <1> HIDE DEF n
  <1>8. CASE o.kind # "ok" /\ Answers(c, FALSE, ErrorOf(o))
    BY <1>3, <1>8, AnswerHolds
  <1>9. CASE call' = n /\ UNCHANGED answer
    <2>1. CallOK(n)
      BY <1>7 DEF CallOK, Collecting
    <2> QED
      BY <1>9, <2>1, GoesOn
  <1>10. CASE o.kind = "ok" /\ Answers(c, FALSE, "empty")
    BY <1>4, <1>10, AnswerHolds DEF Collecting
  <1>11. CASE o.kind = "ok" /\ FoundOr(c, found, "empty")
    BY <1>4, <1>5, <1>11, FoundOrHolds DEF Collecting
  <1> QED
    BY <1>6, <1>8, <1>9, <1>10, <1>11

(* A name search that ends with "nothing found" was answered: an error is  *)
(* the last one there was, so a failure overrides an empty answer.         *)
LEMMA SearchWikidataNameStep ==
  ASSUME ProvidersInv, SearchWikidataName
  PROVE  ProvidersInv'
  <1>1. call # NoCall /\ call.who = "wikidata" /\ CallOK(call) /\ call \in CallRecord
    BY CallFacts DEF SearchWikidataName
  <1>2. PICK o \in Outcomes(call) :
         LET best == IF o.rows = {} THEN 0 ELSE (CHOOSE r \in o.rows : TRUE).score
             c == [AfterRequest(call, o) EXCEPT !.top = IF best > @ THEN best ELSE @,
                                         !.error = IF SearchError(o) = "none" THEN @ ELSE SearchError(o)]
         IN  \/ call' = [c EXCEPT !.step = @ + 1] /\ UNCHANGED answer
             \/ Answers(c, FALSE, IF c.error = "none" THEN "empty" ELSE c.error)
             \/ call' = [c EXCEPT !.step = WikidataTerms + 1] /\ UNCHANGED answer
    BY DEF SearchWikidataName
  <1> DEFINE after == AfterRequest(call, o)
             best == IF o.rows = {} THEN 0 ELSE (CHOOSE r \in o.rows : TRUE).score
             top == IF best > after.top THEN best ELSE after.top
             error == IF SearchError(o) = "none" THEN after.error ELSE SearchError(o)
             c == [after EXCEPT !.top = top, !.error = error]
             next == [c EXCEPT !.step = @ + 1]
             entity == [c EXCEPT !.step = WikidataTerms + 1]
             told == IF c.error = "none" THEN "empty" ELSE c.error
  <1>3. \/ call' = next /\ UNCHANGED answer
        \/ Answers(c, FALSE, told)
        \/ call' = entity /\ UNCHANGED answer
    BY <1>2
  <1>4. /\ o.kind \in {"ok", "fault", "refused"}
        /\ o.rows = {} \/ \E r \in Replied : o.rows = {r}
        /\ o.kind # "ok" => ErrorOf(o) \in {"provider_unavailable", "refused"}
    BY OutcomeKinds
  <1>5. after \in CallRecord /\ after.who = "wikidata" /\ after.last = o.kind
    BY <1>1, <1>4, AfterRequestHolds
  <1>6. best \in Nat
    <2>1. CASE o.rows = {}
      BY <2>1
    <2>2. CASE o.rows # {}
      <3>1. (CHOOSE r \in o.rows : TRUE) \in Replied
        BY <1>4, <2>2
      <3> QED
        BY <2>2, <3>1, ProvidersAssumption
    <2> QED
      BY <2>1, <2>2
  <1> HIDE DEF after, best
  <1>7. top \in Nat
    BY <1>5, <1>6 DEF CallRecord
  <1>8. /\ error \in {"none", "empty", "provider_unavailable", "refused"}
        /\ error \in {"none", "empty"} => o.kind = "ok"
    BY <1>4, <1>5 DEF SearchError, CallRecord
  <1> HIDE DEF top, error
  <1>9. c \in CallRecord /\ c.who = "wikidata" /\ c.last = o.kind /\ c.error = error
    BY <1>5, <1>7, <1>8 DEF CallRecord
  <1> HIDE DEF c
  <1>10. next \in CallRecord /\ next.who = "wikidata"
    BY <1>9 DEF CallRecord
  <1>11. entity \in CallRecord /\ entity.who = "wikidata"
    BY <1>9 DEF CallRecord, WikidataTerms
  <1> HIDE DEF next, entity
  <1>12. CallOK(next) /\ CallOK(entity)
    BY <1>10, <1>11 DEF CallOK, Collecting
  <1>13. CASE call' = next /\ UNCHANGED answer
    BY <1>12, <1>13, GoesOn
  <1>14. CASE call' = entity /\ UNCHANGED answer
    BY <1>12, <1>14, GoesOn
  <1>15. CASE Answers(c, FALSE, told)
    <2>1. told \in {"empty", "provider_unavailable", "refused"} /\ (told = "empty" => c.last = "ok")
      BY <1>8, <1>9
    <2>2. c.who \notin Collecting
      BY <1>9 DEF Collecting
    <2> HIDE DEF told
    <2> QED
      BY <1>15, <2>1, <2>2, AnswerHolds
  <1> QED
    BY <1>3, <1>13, <1>14, <1>15

LEMMA AskWikidataEntityStep ==
  ASSUME ProvidersInv, AskWikidataEntity
  PROVE  ProvidersInv'
  <1>1. call # NoCall /\ call.who = "wikidata" /\ call \in CallRecord
    BY CallFacts DEF AskWikidataEntity
  <1>2. PICK o \in Outcomes(call), matches \in BOOLEAN :
         LET c == AfterRequest(call, o) IN
           IF o.kind # "ok" THEN Answers(c, FALSE, ErrorOf(o))
           ELSE FoundOr(c, ParseWikidataProfile(o.rows) # {} /\ matches, "empty")
    BY DEF AskWikidataEntity
  <1> DEFINE c == AfterRequest(call, o)
             found == ParseWikidataProfile(o.rows) # {} /\ matches
  <1>3. o.kind \in {"ok", "fault", "refused"} /\ (o.kind # "ok" => ErrorOf(o) \in {"provider_unavailable", "refused"})
    BY OutcomeKinds
  <1>4. c \in CallRecord /\ c.who = "wikidata" /\ c.last = o.kind
    BY <1>1, <1>3, AfterRequestHolds
  <1>5. found \in BOOLEAN
    OBVIOUS
  <1>6. \/ o.kind # "ok" /\ Answers(c, FALSE, ErrorOf(o))
        \/ o.kind = "ok" /\ FoundOr(c, found, "empty")
    BY <1>2
  <1> HIDE DEF c, found
  <1>7. CASE o.kind # "ok" /\ Answers(c, FALSE, ErrorOf(o))
    BY <1>3, <1>7, AnswerHolds
  <1>8. CASE o.kind = "ok" /\ FoundOr(c, found, "empty")
    BY <1>4, <1>5, <1>8, FoundOrHolds DEF Collecting
  <1> QED
    BY <1>6, <1>7, <1>8

LEMMA ProvidersStep ==
  ASSUME ProvidersInv, [ProvidersNext]_providersVars
  PROVE  ProvidersInv'
  <1>1. ASSUME NEW who \in ProviderFor, StartCall(who, "search", {"name"})
        PROVE  ProvidersInv'
    BY <1>1, StartCallStep
  <1>2. ASSUME NEW who \in ProviderFor, NEW facts \in CompanyFacts, StartCall(who, "profile", facts)
        PROVE  ProvidersInv'
    BY <1>2, StartCallStep DEF CompanyFacts
  <1>3. ASSUME NEW who \in ProviderFor, NEW facts \in SUBSET {"symbol", "name"}, StartCall(who, "news", facts)
        PROVE  ProvidersInv'
    <2>1. facts \in SUBSET {"symbol", "lei", "name"}
      OBVIOUS
    <2> QED
      BY <1>3, <2>1, StartCallStep
  <1>4. CASE StartCall("nasdaq_directory", "cached", {"name"})
    BY <1>4, StartCallStep DEF ProviderFor
  <1>5. ASSUME NEW who \in {"fmp", "alpha_vantage"}, TestForm(who)
        PROVE  ProvidersInv'
    BY <1>5, TestFormStep
  <1>6. CASE \E f \in Files : FileExpires(f)
    BY <1>6 DEF FileExpires, ProvidersInv, OutageIsToldApart
  <1>7. CASE UNCHANGED providersVars
    BY <1>7 DEF providersVars, ProvidersInv, OutageIsToldApart
  <1> QED
    BY <1>1, <1>2, <1>3, <1>4, <1>5, <1>6, <1>7, AskOnceStep, AskFeedStep, IndexSteps, SearchPackageStep,
       SearchFilesStep, NoAkshareStep, SearchCachedFilesStep, AkshareProfileStep, AskGleifProfileStep,
       SearchWikidataNameStep, AskWikidataEntityStep DEF ProvidersNext

(* Whatever rows the providers reply with and however their requests, files *)
(* and packages fail, a call that says "nothing found" could look wherever  *)
(* it looks, and one without its key asked nobody.                          *)
THEOREM OutagesAreToldApart == ProvidersSpec => []OutageIsToldApart
  <1>1. ProvidersInv /\ [ProvidersNext]_providersVars => ProvidersInv'
    BY ProvidersStep
  <1>2. ProvidersInv => OutageIsToldApart
    BY DEF ProvidersInv
  <1> QED
    BY <1>1, <1>2, InitProvidersInv, PTL DEF ProvidersSpec

-----------------------------------------------------------------------------
(* Events and alerts.                                                      *)

AllStatuses ==
    {"denied", "terminated", "completed", "shareholder_approved", "board_approved", "proposed",
     "rumored", "announced", "unknown"}

Settled == {"announced", "board_approved", "shareholder_approved", "completed", "terminated"}

LEMMA StatusKinds ==
  ASSUME NEW words
  PROVE  DetectStatus(words) \in AllStatuses
  <1> DEFINE told == {i \in DOMAIN Statuses : Statuses[i] \in words}
  <1>1. DOMAIN Statuses = 1..8 /\ \A i \in 1..8 : Statuses[i] \in AllStatuses
    BY DEF Statuses, AllStatuses
  <1>2. CASE told = {}
    BY <1>2 DEF DetectStatus, AllStatuses
  <1>3. CASE told # {}
    <2>1. told \in SUBSET Nat
      BY <1>1
    <2>2. Min(told) \in told
      BY <1>3, <2>1, LeastOfSet
    <2>3. DetectStatus(words) = Statuses[Min(told)]
      BY <1>3 DEF DetectStatus
    <2> HIDE DEF told
    <2>4. Min(told) \in 1..8
      BY <1>1, <2>2 DEF told
    <2> QED
      BY <1>1, <2>3, <2>4
  <1> QED
    BY <1>2, <1>3

LEMMA MinOfTwo ==
  ASSUME NEW a \in Nat, NEW b \in Nat
  PROVE  Min({a, b}) = (IF a <= b THEN a ELSE b) /\ Min({a, b}) \in Nat
  <1> DEFINE T == {a, b}
  <1>1. Min(T) \in T /\ \A y \in T : Min(T) <= y
    BY LeastOfSet
  <1> QED
    BY <1>1

LEMMA MaxOfTwo ==
  ASSUME NEW a \in Nat, NEW b \in Nat
  PROVE  Max({a, b}) = (IF a >= b THEN a ELSE b) /\ Max({a, b}) \in Nat
  <1>1. \E x \in {a, b} : \A y \in {a, b} : x >= y
    OBVIOUS
  <1>2. Max({a, b}) \in {a, b} /\ \A y \in {a, b} : Max({a, b}) >= y
    BY <1>1 DEF Max
  <1> QED
    BY <1>2

LEMMA RoundedHolds ==
  ASSUME NEW h \in Nat
  PROVE  Rounded(h) \in Nat /\ \A least \in 0..1000 : Rounded(h) >= least => h + 5 >= 10 * least
  <1> DEFINE r == (h + 5) \div 10
  <1>1. r \in Nat /\ 10 * r <= h + 5
    OBVIOUS
  <1>2. Rounded(h) = Min({1000, r})
    BY DEF Rounded
  <1> HIDE DEF r
  <1>3. Rounded(h) \in Nat /\ Rounded(h) <= r
    BY <1>1, <1>2, MinOfTwo
  <1>4. ASSUME NEW least \in 0..1000, Rounded(h) >= least
        PROVE  h + 5 >= 10 * least
    <2>1. ASSUME NEW x \in Nat, NEW y \in Nat, x <= y, x >= least, 10 * y <= h + 5
          PROVE  h + 5 >= 10 * least
      BY ONLY <2>1, least \in 0..1000, h \in Nat
    <2> QED
      BY ONLY <1>1, <1>3, <1>4, <2>1
  <1> QED
    BY ONLY <1>3, <1>4

LEMMA StrengthHolds ==
  ASSUME NEW status \in AllStatuses
  PROVE  /\ StatusStrength[status] \in Nat /\ StatusStrength[status] <= 92
         /\ status \notin Settled => StatusStrength[status] <= 75
  BY DEF AllStatuses, Settled, StatusStrength

LEMMA WeightHolds ==
  ASSUME NEW type \in DOMAIN EventWeights
  PROVE  EventWeights[type] \in Nat /\ EventWeights[type] <= 96
  BY DEF EventWeights

LEMMA AuthorityHolds ==
  ASSUME NEW address
  PROVE  /\ SourceAuthority(address) \in Nat /\ SourceAuthority(address) <= 95
         /\ "sec.gov" \notin address => SourceAuthority(address) <= 85
  BY DEF SourceAuthority

LEMMA ImpactHolds ==
  ASSUME NEW type
  PROVE  GovernanceImpact(type) \in Nat /\ GovernanceImpact(type) <= 88
  BY DEF GovernanceImpact

LEMMA ScaleHolds ==
  ASSUME NEW amount
  PROVE  FinancialScale(amount) \in Nat /\ FinancialScale(amount) <= 88
  BY DEF FinancialScale

(* Grave enough for the highest priority is only what has the mark of the  *)
(* SEC in its address, and only as a settled thing.                        *)
LEMMA GraveHolds ==
  ASSUME NEW address, NEW hit, hit.type \in DOMAIN EventWeights, ScoreMateriality(address, hit) >= 900
  PROVE  "sec.gov" \in address /\ DetectStatus(hit.words) \in Settled
  <1> DEFINE status == DetectStatus(hit.words)
             a == SourceAuthority(address)
             w == EventWeights[hit.type]
             f == FinancialScale(hit.amount)
             g == GovernanceImpact(hit.type)
             s == StatusStrength[status]
             sum == 25 * a + 25 * w + 15 * f + 15 * g + 10 * s + 800
  <1>1. status \in AllStatuses
    BY StatusKinds
  <1>2. a \in Nat /\ a <= 95 /\ ("sec.gov" \notin address => a <= 85)
    BY AuthorityHolds
  <1>3. w \in Nat /\ w <= 96
    BY WeightHolds
  <1>4. f \in Nat /\ f <= 88
    BY ScaleHolds
  <1>5. g \in Nat /\ g <= 88
    BY ImpactHolds
  <1>6. s \in Nat /\ s <= 92 /\ (status \notin Settled => s <= 75)
    BY <1>1, StrengthHolds
  <1>7. ScoreMateriality(address, hit) = Rounded(25 * a + 25 * w + 15 * f + 15 * g + 10 * s + 10 * 80)
    BY DEF ScoreMateriality
  <1> HIDE DEF status, a, w, f, g, s
  <1>8. sum \in Nat /\ 25 * a + 25 * w + 15 * f + 15 * g + 10 * s + 10 * 80 = sum
    BY <1>2, <1>3, <1>4, <1>5, <1>6
  <1>9. Rounded(sum) >= 900
    BY <1>7, <1>8
  <1>10. sum + 5 >= 9000
    <2> HIDE DEF sum
    <2>1. 900 \in 0..1000 /\ 10 * 900 = 9000
      OBVIOUS
    <2> QED
      BY <1>8, <1>9, <2>1, RoundedHolds
  <1>11. "sec.gov" \in address
    BY <1>2, <1>3, <1>4, <1>5, <1>6, <1>10
  <1>12. status \in Settled
    BY <1>2, <1>3, <1>4, <1>5, <1>6, <1>10
  <1> QED
    BY <1>11, <1>12 DEF status

(* Sure enough for it is no event of an ambiguous match.                   *)
LEMMA DoubtfulHolds ==
  ASSUME NEW match, NEW address, NEW hit, match.score \in Nat, match.score <= 55, hit.length \in Nat
  PROVE  ~(ScoreConfidence(match, address, hit) >= 850)
  <1> DEFINE status == DetectStatus(hit.words)
             m == match.score
             a == SourceAuthority(address)
             p == PatternStrength(hit)
             s == StatusStrength[status]
             q == Min({95, Max({35, hit.length \div 2})})
             e1 == IF hit.amount # "none" THEN 6 ELSE 0
             e2 == IF hit.dates THEN 4 ELSE 0
             e3 == IF hit.counterparties THEN 4 ELSE 0
             e == e1 + e2 + e3
             sum == 30 * m + 20 * a + 25 * p + 15 * s + 10 * q + 100 * e
             malus == (IF status = "rumored" THEN 1200 ELSE 0) + (IF m < 70 THEN 1000 ELSE 0)
             left == IF sum > malus THEN sum - malus ELSE 0
  <1>1. status \in AllStatuses
    BY StatusKinds
  <1>2. a \in Nat /\ a <= 95
    BY AuthorityHolds
  <1>3. p \in Nat /\ p <= 88
    <2> DEFINE base == (IF hit.long THEN 78 ELSE 66) + (IF hit.explicit THEN 10 ELSE 0)
    <2>1. base \in Nat /\ base <= 88
      OBVIOUS
    <2>2. p = Min({95, base})
      BY DEF PatternStrength
    <2> HIDE DEF base
    <2> QED
      BY <2>1, <2>2, MinOfTwo
  <1>4. s \in Nat /\ s <= 92
    BY <1>1, StrengthHolds
  <1>5. q \in Nat /\ q <= 95
    <2>1. hit.length \div 2 \in Nat
      OBVIOUS
    <2> DEFINE longest == Max({35, hit.length \div 2})
    <2>2. longest \in Nat
      BY <2>1, MaxOfTwo
    <2>3. q = Min({95, longest})
      OBVIOUS
    <2> HIDE DEF longest, q
    <2>4. Min({95, longest}) = IF 95 <= longest THEN 95 ELSE longest
      BY <2>2, MinOfTwo
    <2> QED
      BY <2>2, <2>3, <2>4
  <1>6. e \in Nat /\ e <= 14
    OBVIOUS
  <1>7. ScoreConfidence(match, address, hit) = Rounded(left)
    BY DEF ScoreConfidence
  <1> HIDE DEF status, a, p, s, q, e
  <1>8. malus \in Nat /\ malus >= 1000
    OBVIOUS
  <1>9. sum \in Nat /\ sum <= 9480
    BY <1>2, <1>3, <1>4, <1>5, <1>6
  <1> HIDE DEF malus, sum
  <1>10. left \in Nat /\ left <= 8480
    BY <1>8, <1>9
  <1> HIDE DEF left
  <1>11. ASSUME Rounded(left) >= 850
         PROVE  FALSE
    <2>1. 850 \in 0..1000 /\ 10 * 850 = 8500
      OBVIOUS
    <2>2. left + 5 >= 8500
      BY <1>10, <1>11, <2>1, RoundedHolds
    <2> QED
      BY <1>10, <2>2
  <1> QED
    BY <1>7, <1>11

LEMMA PriorityHolds ==
  ASSUME NEW materiality, NEW confidence, AlertPriority(materiality, confidence) = "P0"
  PROVE  materiality >= 900 /\ confidence >= 850
  <1> SUFFICES ASSUME ~(materiality >= 900 /\ confidence >= 850)
               PROVE  AlertPriority(materiality, confidence) \in {"P1", "P2", "P3"}
    OBVIOUS
  <1>1. CASE materiality >= 750 /\ confidence >= 750
    <2>1. AlertPriority(materiality, confidence) \in {"P1", "P2"}
      BY <1>1 DEF AlertPriority
    <2> QED
      BY <2>1
  <1>2. CASE ~(materiality >= 750 /\ confidence >= 750) /\ materiality >= 550 /\ confidence >= 600
    <2>1. AlertPriority(materiality, confidence) = "P2"
      BY <1>2 DEF AlertPriority
    <2> QED
      BY <2>1
  <1>3. CASE ~(materiality >= 750 /\ confidence >= 750) /\ ~(materiality >= 550 /\ confidence >= 600)
    <2>1. AlertPriority(materiality, confidence) = "P3"
      BY <1>3 DEF AlertPriority
    <2> QED
      BY <2>1
  <1> QED
    BY <1>1, <1>2, <1>3

LEMMA MatchesHold ==
  ASSUME newsItem = NoNews \/ newsItem \in News, NEW f
  PROVE  \A m \in MatchesOf(f) : m.firm = f /\ m.score \in {98, 95, 92, 86, 85}
  <1>1. \A type : LiteralScore(type) \in {98, 95, 92}
    <2> SUFFICES ASSUME NEW type
                 PROVE  LiteralScore(type) \in {98, 95, 92}
      OBVIOUS
    <2>1. CASE type = "ticker"
      BY <2>1 DEF LiteralScore
    <2>2. CASE type \in {"company_name", "legal_name"}
      BY <2>2 DEF LiteralScore
    <2>3. CASE type \notin {"ticker", "company_name", "legal_name"}
      BY <2>3 DEF LiteralScore
    <2> QED
      BY <2>1, <2>2, <2>3
  <1>2. \A text, type, score : NewMatch(f, text, type, score).firm = f /\ NewMatch(f, text, type, score).score = score
    BY DEF NewMatch
  <1> SUFFICES ASSUME NEW m \in MatchesOf(f)
               PROVE  m.firm = f /\ m.score \in {98, 95, 92, 86, 85}
    OBVIOUS
  <1>3. \/ m = NewMatch(f, FirmTicker[f], "ticker", 98)
        \/ \E x \in FieldsOf(f) : m = NewMatch(f, x.alias, x.type, LiteralScore(x.type))
        \/ \E x \in newsItem.alike : m = NewMatch(f, x.alias, "fuzzy_alias", Min({86, x.likeness}))
    BY DEF MatchesOf
  <1>4. ASSUME NEW x \in newsItem.alike
        PROVE  Min({86, x.likeness}) \in {86, 85}
    <2>1. x.likeness \in 85..90
      BY EventsAssumption DEF NoNews
    <2> QED
      BY <2>1, MinOfTwo
  <1>5. CASE m = NewMatch(f, FirmTicker[f], "ticker", 98)
    BY ONLY <1>2, <1>5
  <1>6. CASE \E x \in FieldsOf(f) : m = NewMatch(f, x.alias, x.type, LiteralScore(x.type))
    BY ONLY <1>1, <1>2, <1>6
  <1>7. CASE \E x \in newsItem.alike : m = NewMatch(f, x.alias, "fuzzy_alias", Min({86, x.likeness}))
    BY ONLY <1>2, <1>4, <1>7
  <1> QED
    BY <1>3, <1>5, <1>6, <1>7

(* There is a best match, for there are five scores.                       *)
LEMMA BestMatchHolds ==
  ASSUME newsItem = NoNews \/ newsItem \in News, NEW f, MatchesOf(f) # {}
  PROVE  BestMatch(f) \in MatchesOf(f)
  <1> DEFINE T == {m.score : m \in MatchesOf(f)}
             Best(s) == s \in T /\ \A t \in T : t <= s
  <1>1. T \subseteq {98, 95, 92, 86, 85} /\ T # {}
    BY MatchesHold
  <1>2. \E s \in T : \A t \in T : t <= s
    <2>1. CASE 98 \in T
      BY <1>1, <2>1
    <2>2. CASE 98 \notin T /\ 95 \in T
      BY <1>1, <2>2
    <2>3. CASE 98 \notin T /\ 95 \notin T /\ 92 \in T
      BY <1>1, <2>3
    <2>4. CASE 98 \notin T /\ 95 \notin T /\ 92 \notin T /\ 86 \in T
      BY <1>1, <2>4
    <2>5. CASE 98 \notin T /\ 95 \notin T /\ 92 \notin T /\ 86 \notin T
      BY <1>1, <2>5
    <2> QED
      BY <2>1, <2>2, <2>3, <2>4, <2>5
  <1>3. \E m \in MatchesOf(f) : \A n \in MatchesOf(f) : n.score <= m.score
    BY <1>2
  <1> QED
    BY <1>3 DEF BestMatch

(* The matches of a text: one of each company found in it; a doubtful one  *)
(* is trusted enough for an event and not enough for the highest priority. *)
LEMMA MatchTextHolds ==
  ASSUME newsItem = NoNews \/ newsItem \in News
  PROVE  /\ \A m \in MatchText : /\ m.firm \in followed /\ m.score \in Nat /\ m.score >= 50
                                 /\ m.type[1] # "plain" => m.score <= 55
         /\ \A m, n \in MatchText : m.firm = n.firm => m = n
         /\ \A f \in followed : MatchesOf(f) # {} => \E m \in MatchText : m.firm = f
  <1> DEFINE found == {f \in followed : MatchesOf(f) # {}}
             results == {BestMatch(f) : f \in found}
             Doubted(m) == m.text \in ShortNames /\ \E n \in results : n.firm # m.firm /\ n.text = m.text
             Kept(m) == IF Doubted(m) THEN [m EXCEPT !.type = <<"ambiguous", m.type>>, !.score = Min({m.score, 55})]
                        ELSE [m EXCEPT !.type = <<"plain", m.type>>]
             Fields == {"firm", "text", "type", "score"}
  <1>1. MatchText = {Kept(m) : m \in results}
    BY DEF MatchText, PenalizeAmbiguous
  <1>2. ASSUME NEW f \in found
        PROVE  /\ BestMatch(f).firm = f /\ BestMatch(f).score \in {98, 95, 92, 86, 85}
               /\ BestMatch(f) = NewMatch(f, BestMatch(f).text, BestMatch(f).type, BestMatch(f).score)
    <2>1. BestMatch(f) \in MatchesOf(f)
      BY BestMatchHolds
    <2>2. \E text, type, score : BestMatch(f) = NewMatch(f, text, type, score)
      BY <2>1 DEF MatchesOf
    <2> QED
      BY <2>1, <2>2, MatchesHold DEF NewMatch
  <1>3. ASSUME NEW m \in results
        PROVE  /\ Kept(m).firm = m.firm /\ Kept(m).score \in Nat /\ Kept(m).score >= 50
               /\ Kept(m).type[1] # "plain" => Kept(m).score <= 55
    <2>1. /\ m = [firm |-> m.firm, text |-> m.text, type |-> m.type, score |-> m.score]
          /\ m.score \in {98, 95, 92, 86, 85}
      BY <1>2 DEF NewMatch
    <2>2. CASE Doubted(m)
      <3> DEFINE type == <<"ambiguous", m.type>>
                 score == Min({m.score, 55})
      <3>1. score = 55
        BY <2>1, MinOfTwo
      <3>2. Kept(m) = [m EXCEPT !.type = type, !.score = score]
        BY <2>2
      <3> HIDE DEF type, score, Kept
      <3> QED
        BY <2>1, <3>1, <3>2
    <2>3. CASE ~Doubted(m)
      <3> DEFINE type == <<"plain", m.type>>
      <3>1. type[1] = "plain"
        OBVIOUS
      <3>2. Kept(m) = [m EXCEPT !.type = type]
        BY <2>3
      <3> HIDE DEF type, Kept
      <3>3. Kept(m).firm = m.firm /\ Kept(m).score = m.score /\ Kept(m).type = type
        BY <2>1, <3>2
      <3> QED
        BY <2>1, <3>1, <3>3
    <2> QED
      BY <2>2, <2>3
  <1> HIDE DEF Kept, found
  <1>4. ASSUME NEW m \in MatchText
        PROVE  /\ m.firm \in followed /\ m.score \in Nat /\ m.score >= 50
               /\ m.type[1] # "plain" => m.score <= 55
    <2>1. PICK f \in found : m = Kept(BestMatch(f))
      BY <1>1
    <2>2. BestMatch(f) \in results /\ f \in followed
      BY DEF found
    <2> QED
      BY <1>2, <1>3, <2>1, <2>2
  <1>5. ASSUME NEW m \in MatchText, NEW n \in MatchText, m.firm = n.firm
        PROVE  m = n
    <2>1. PICK f \in found : m = Kept(BestMatch(f))
      BY <1>1
    <2>2. PICK g \in found : n = Kept(BestMatch(g))
      BY <1>1
    <2>3. m.firm = f /\ n.firm = g
      BY <1>2, <1>3, <2>1, <2>2
    <2> QED
      BY <1>5, <2>1, <2>2, <2>3
  <1>6. ASSUME NEW f \in followed, MatchesOf(f) # {}
        PROVE  \E m \in MatchText : m.firm = f
    <2>1. f \in found
      BY <1>6 DEF found
    <2>2. Kept(BestMatch(f)) \in MatchText /\ Kept(BestMatch(f)).firm = f
      BY <1>1, <1>2, <1>3, <2>1
    <2> QED
      BY <2>2
  <1> QED
    BY <1>4, <1>5, <1>6

(* Of a text that has arrived: which events there are and what they rest   *)
(* on.                                                                     *)
RowsAreTrusted == \A m \in matchRows : m.score >= 50

EventsRest == \A e \in newsEvents : \E m \in matchRows : m.firm = e.firm

GravestAreSettled ==
    \A e \in newsEvents : e.priority = "P0" =>
       /\ "sec.gov" \in newsItem.address /\ e.status \in Settled
       /\ \E m \in matchRows : m.firm = e.firm /\ m.type[1] = "plain"

OneOfAType == \A d, e \in newsEvents : d.firm = e.firm /\ d.type = e.type => d = e

NamedAreTold ==
    extracted =>
      \A f \in followed : \A hit \in newsItem.hits :
        (\E x \in FieldsOf(f) : x.alias \in newsItem.says) =>
          \E e \in newsEvents : e.firm = f /\ e.type = hit.type

EventsInv ==
    /\ newsItem = NoNews \/ newsItem \in News
    /\ newsItem = NoNews => newsEvents = {} /\ ~extracted
    /\ RowsAreTrusted /\ EventsRest /\ GravestAreSettled /\ OneOfAType /\ NamedAreTold

LEMMA InitEventsInv == EventsInit => EventsInv
  BY DEF EventsInit, EventsInv, RowsAreTrusted, EventsRest, GravestAreSettled, OneOfAType, NamedAreTold

Told(m, hit) ==
    [firm |-> m.firm, type |-> hit.type, status |-> DetectStatus(hit.words),
     priority |-> AlertPriority(ScoreMateriality(newsItem.address, hit), ScoreConfidence(m, newsItem.address, hit))]

LEMMA DetectHolds ==
  ASSUME newsItem = NoNews \/ newsItem \in News
  PROVE  /\ \A e \in DetectEvents(MatchText) : \E m \in MatchText, hit \in newsItem.hits : e = Told(m, hit)
         /\ \A m \in MatchText, hit \in newsItem.hits : Told(m, hit) \in DetectEvents(MatchText)
  <1> DEFINE trusted == {m \in MatchText : m.score >= 50}
             Event(x) == Told(x[1], x[2])
  <1>1. DetectEvents(MatchText) = {Event(x) : x \in trusted \X newsItem.hits}
    BY DEF DetectEvents, Told
  <1>2. trusted = MatchText
    BY MatchTextHolds
  <1>3. DetectEvents(MatchText) = {Event(x) : x \in MatchText \X newsItem.hits}
    BY <1>1, <1>2
  <1>4. ASSUME NEW m \in MatchText, NEW hit \in newsItem.hits
        PROVE  Told(m, hit) \in DetectEvents(MatchText)
    <2>1. <<m, hit>> \in MatchText \X newsItem.hits /\ Event(<<m, hit>>) = Told(m, hit)
      OBVIOUS
    <2> HIDE DEF Event
    <2> QED
      BY <1>3, <2>1
  <1>5. ASSUME NEW e \in DetectEvents(MatchText)
        PROVE  \E m \in MatchText, hit \in newsItem.hits : e = Told(m, hit)
    <2>1. PICK x \in MatchText \X newsItem.hits : e = Event(x)
      BY <1>3
    <2>2. x[1] \in MatchText /\ x[2] \in newsItem.hits
      OBVIOUS
    <2> QED
      BY <2>1, <2>2
  <1> QED
    BY <1>4, <1>5

LEMMA ExtractNewsStep ==
  ASSUME EventsInv, ExtractNews
  PROVE  EventsInv'
  <1> DEFINE unknown == {m \in MatchText : \A r \in matchRows : <<r.firm, r.text, r.type>> # <<m.firm, m.text, m.type>>}
             found == DetectEvents(MatchText)
             fresh == {e \in found : \A n \in newsEvents : n.firm # e.firm \/ n.type # e.type}
  <1>1. /\ newsItem # NoNews /\ newsItem \in News /\ newsItem' = newsItem
        /\ matchRows' = matchRows \cup unknown /\ newsEvents' = newsEvents \cup fresh
        /\ extracted' /\ followed' = followed /\ aliasRows' = aliasRows
    BY DEF ExtractNews, EventsInv
  (* Each match is on record, if need be as the row that was there. *)
  <1>2. ASSUME NEW m \in MatchText
        PROVE  \E r \in matchRows' : r.firm = m.firm /\ r.type = m.type
    <2>1. CASE m \in unknown
      BY <1>1, <2>1
    <2>2. CASE m \notin unknown
      <3>1. PICK r \in matchRows : <<r.firm, r.text, r.type>> = <<m.firm, m.text, m.type>>
        BY <2>2
      <3>2. r.firm = m.firm /\ r.type = m.type
        BY <3>1
      <3> QED
        BY <1>1, <3>2
    <2> QED
      BY <2>1, <2>2
  <1>3. RowsAreTrusted'
    BY <1>1, MatchTextHolds DEF EventsInv, RowsAreTrusted
  <1> HIDE DEF unknown
  <1>4. ASSUME NEW e \in found
        PROVE  /\ \E r \in matchRows' : r.firm = e.firm
               /\ e.priority = "P0" => /\ "sec.gov" \in newsItem.address /\ e.status \in Settled
                                       /\ \E r \in matchRows' : r.firm = e.firm /\ r.type[1] = "plain"
    <2>1. PICK m \in MatchText, hit \in newsItem.hits : e = Told(m, hit)
      BY <1>1, DetectHolds
    <2> DEFINE materiality == ScoreMateriality(newsItem.address, hit)
               confidence == ScoreConfidence(m, newsItem.address, hit)
    <2>2. /\ e.firm = m.firm /\ e.status = DetectStatus(hit.words) /\ e.priority = AlertPriority(materiality, confidence)
      BY <2>1 DEF Told
    <2>3. PICK r \in matchRows' : r.firm = m.firm /\ r.type = m.type
      BY <1>2
    <2>4. hit.type \in DOMAIN EventWeights /\ hit.length \in Nat
      BY <1>1, EventsAssumption
    <2>5. m.score \in Nat /\ (m.type[1] # "plain" => m.score <= 55)
      BY <1>1, MatchTextHolds
    <2>6. ASSUME e.priority = "P0"
          PROVE  "sec.gov" \in newsItem.address /\ e.status \in Settled /\ m.type[1] = "plain"
      <3>1. materiality >= 900 /\ confidence >= 850
        <4> HIDE DEF materiality, confidence
        <4>1. AlertPriority(materiality, confidence) = "P0"
          BY ONLY <2>2, <2>6
        <4> QED
          BY ONLY <4>1, PriorityHolds
      <3>2. "sec.gov" \in newsItem.address /\ e.status \in Settled
        BY <2>2, <2>4, <3>1, GraveHolds
      <3>3. m.type[1] = "plain"
        BY <2>4, <2>5, <3>1, DoubtfulHolds
      <3> QED
        BY <3>2, <3>3
    <2> QED
      BY <2>2, <2>3, <2>6
  <1>5. EventsRest'
    BY <1>1, <1>4 DEF EventsInv, EventsRest
  <1>6. GravestAreSettled'
    BY <1>1, <1>4 DEF EventsInv, GravestAreSettled
  (* One match of a company and one hit of a type, so one event of both. *)
  <1>7. ASSUME NEW d \in found, NEW e \in found, d.firm = e.firm, d.type = e.type
        PROVE  d = e
    <2>1. PICK m \in MatchText, hit \in newsItem.hits : d = Told(m, hit)
      BY <1>1, DetectHolds
    <2>2. PICK n \in MatchText, other \in newsItem.hits : e = Told(n, other)
      BY <1>1, DetectHolds
    <2>3. m.firm = n.firm /\ hit.type = other.type
      BY <1>7, <2>1, <2>2 DEF Told
    <2>4. m = n
      BY <1>1, <2>3, MatchTextHolds
    <2>5. hit = other
      BY <1>1, <2>3, EventsAssumption
    <2> QED
      BY <2>1, <2>2, <2>4, <2>5
  <1>8. OneOfAType'
    BY <1>1, <1>7 DEF EventsInv, OneOfAType
  <1>9. NamedAreTold'
    <2> SUFFICES ASSUME NEW f \in followed, NEW hit \in newsItem.hits,
                        NEW x \in FieldsOf(f), x.alias \in newsItem.says
                 PROVE  \E e \in newsEvents' : e.firm = f /\ e.type = hit.type
      BY <1>1 DEF NamedAreTold, FieldsOf
    <2>1. MatchesOf(f) # {}
      <3>1. NewMatch(f, x.alias, x.type, LiteralScore(x.type)) \in MatchesOf(f)
        BY DEF MatchesOf
      <3> QED
        BY <3>1
    <2>2. PICK m \in MatchText : m.firm = f
      BY <1>1, <2>1, MatchTextHolds
    <2>3. Told(m, hit) \in found /\ Told(m, hit).firm = f /\ Told(m, hit).type = hit.type
      BY <1>1, <2>2, DetectHolds DEF Told
    <2> HIDE DEF found
    <2>4. CASE Told(m, hit) \in fresh
      BY <1>1, <2>3, <2>4
    <2>5. CASE Told(m, hit) \notin fresh
      <3>1. \E n \in newsEvents : n.firm = Told(m, hit).firm /\ n.type = Told(m, hit).type
        BY <2>3, <2>5
      <3> QED
        BY <1>1, <2>3, <3>1
    <2> QED
      BY <2>4, <2>5
  <1> QED
    BY <1>1, <1>3, <1>5, <1>6, <1>8, <1>9 DEF EventsInv

(* A company or its aliases changed: the events are to be looked for again. *)
LEMMA CompanyEditedStep ==
  ASSUME EventsInv, CompanyEdited
  PROVE  EventsInv'
  <1>1. /\ newsItem' = newsItem /\ matchRows' = matchRows /\ newsEvents' = newsEvents /\ ~extracted'
    BY DEF CompanyEdited
  <1> QED
    BY <1>1 DEF EventsInv, RowsAreTrusted, EventsRest, GravestAreSettled, OneOfAType, NamedAreTold

LEMMA NewsArrivesStep ==
  ASSUME EventsInv, NewsArrives
  PROVE  EventsInv'
  <1>1. /\ newsItem = NoNews /\ newsItem' \in News /\ matchRows' = matchRows /\ newsEvents' = {} /\ ~extracted'
        /\ newsEvents = {}
    BY DEF NewsArrives, EventsInv
  <1> QED
    BY <1>1 DEF EventsInv, RowsAreTrusted, EventsRest, GravestAreSettled, OneOfAType, NamedAreTold

LEMMA EventsStep == EventsInv /\ [EventsNext]_newsVars => EventsInv'
  <1> SUFFICES ASSUME EventsInv, [EventsNext]_newsVars
               PROVE  EventsInv'
    OBVIOUS
  <1>1. CASE NewsArrives
    BY <1>1, NewsArrivesStep
  <1>2. CASE ExtractNews
    BY <1>2, ExtractNewsStep
  <1>3. CASE CompanyEdited
    BY <1>3, CompanyEditedStep
  <1>4. CASE UNCHANGED newsVars
    BY <1>4 DEF newsVars, EventsInv, RowsAreTrusted, EventsRest, GravestAreSettled, OneOfAType, NamedAreTold,
                FieldsOf
  <1> QED
    BY <1>1, <1>2, <1>3, <1>4 DEF EventsNext, Follow, AddAlias, EditAlias, DeleteAlias

(* The arithmetic of the scores for every document: the highest priority   *)
(* is for settled news, found under a name that was nobody else's, at an   *)
(* address that holds the mark of the SEC, which is all the code asks of   *)
(* its origin; every event rests on a match on record; and once the events *)
(* have been looked for, a company that is named has one of each type.     *)
THEOREM AlertsStayEarned == EventsSpec => []AlertsAreEarned
  <1>1. EventsInv => AlertsAreEarned
    <2> SUFFICES ASSUME EventsInv
                 PROVE  AlertsAreEarned
      OBVIOUS
    <2>1. ASSUME NEW e \in newsEvents
          PROVE  /\ \E m \in matchRows : m.firm = e.firm /\ m.score >= 50
                 /\ e.priority = "P0" =>
                      /\ "sec.gov" \in newsItem.address
                      /\ e.status \in {"announced", "board_approved", "shareholder_approved", "completed", "terminated"}
                      /\ \E m \in matchRows : m.firm = e.firm /\ m.type[1] = "plain"
      BY DEF EventsInv, EventsRest, RowsAreTrusted, GravestAreSettled, Settled
    <2>2. ASSUME extracted, NEW f \in followed, NEW hit \in newsItem.hits,
                 \E x \in FieldsOf(f) : x.alias \in newsItem.says
          PROVE  Cardinality({e \in newsEvents : e.firm = f /\ e.type = hit.type}) = 1
      <3>1. PICK e \in newsEvents : e.firm = f /\ e.type = hit.type
        BY <2>2 DEF EventsInv, NamedAreTold
      <3>2. {d \in newsEvents : d.firm = f /\ d.type = hit.type} = {e}
        BY <3>1 DEF EventsInv, OneOfAType
      <3> QED
        BY <3>2, FS_Singleton
    <2> QED
      BY <2>1, <2>2 DEF AlertsAreEarned
  <1>2. EventsInv /\ [EventsNext]_newsVars => EventsInv'
    BY EventsStep
  <1> QED
    BY <1>1, <1>2, InitEventsInv, PTL DEF EventsSpec

-----------------------------------------------------------------------------
(* The monitoring database: rows, ids and references.                      *)

Bounded(table) == \E n \in Nat : \A row \in table : row.id <= n

UniqueIds(table) == \A r, s \in table : r.id = s.id => r = s

(* Ids are told apart and refer to rows.                                   *)
TablesInv ==
    /\ companies \subseteq CompanyRows /\ documents \subseteq DocumentRows
    /\ events \subseteq EventRows /\ alerts \subseteq AlertRows /\ bin \subseteq BinRows
    /\ IsFiniteSet(companies)
    /\ Bounded(companies) /\ Bounded(documents) /\ Bounded(events) /\ Bounded(alerts)
    /\ UniqueIds(companies) /\ UniqueIds(documents) /\ UniqueIds(alerts)
    /\ \A e \in events : e.company \in RowIds(companies) /\ e.document \in RowIds(documents)
    /\ \A a \in alerts : a.event \in RowIds(events)

(* What an item remembers as linked are alerts of its event.               *)
LinkedBelong ==
    reused = {} => \A i \in bin, a \in alerts : i.type = "event" /\ a.id \in i.linked => a.event = i.entity

HiddenEventsKept == \A e \in events : e.hidden => \E i \in bin : i.type = "event" /\ i.entity = e.id

HiddenAlertsKept ==
    \A a \in alerts : a.hidden =>
      \E i \in bin : \/ i.type = "alert" /\ i.entity = a.id
                     \/ i.type = "event" /\ i.entity = a.event /\ a.id \in i.linked

ShownTogether == reused = {} => \A a \in ShownAlerts : a.event \in RowIds(ShownEvents)

DocumentsAccounted ==
    \A d \in documents : \A who \in d.known \cap Mentions[d.content] :
      \/ <<d.content, who>> \in purged
      \/ \E e \in events : e.document = d.id /\ RowWith(companies, e.company).who = who

TableRowsInv ==
    /\ TablesInv /\ LinkedBelong /\ DocumentsAccounted
    /\ HiddenEventsKept /\ HiddenAlertsKept /\ ShownTogether

LEMMA GreatestHolds ==
  ASSUME NEW T \in SUBSET Nat, T # {}, NEW n \in Nat, \A t \in T : t <= n
  PROVE  Max(T) \in T /\ \A t \in T : t <= Max(T)
  <1> DEFINE down == {n - t : t \in T}
             least == Min(down)
  <1>1. \A t \in T : t \in Nat /\ n - t \in Nat
    OBVIOUS
  <1>2. down \in SUBSET Nat /\ down # {}
    BY <1>1
  <1>3. least \in down /\ \A y \in down : least <= y
    <2> HIDE DEF down
    <2> QED
      BY <1>2, LeastOfSet
  <1> HIDE DEF least
  <1>4. PICK m \in T : least = n - m
    BY <1>3
  <1>5. \A j \in T : n - m <= n - j
    BY <1>3, <1>4
  <1>6. \A j \in T : m >= j
    BY <1>1, <1>5
  <1>7. \E x \in T : \A y \in T : x >= y
    BY <1>6
  <1>8. Max(T) \in T /\ \A y \in T : Max(T) >= y
    BY <1>7 DEF Max
  <1> QED
    BY <1>1, <1>8

(* A new id is larger than those there are.                                *)
LEMMA NextIdHolds ==
  ASSUME NEW table, \A row \in table : row.id \in Nat, Bounded(table)
  PROVE  /\ NextId(table) \in Nat /\ NextId(table) >= 1
         /\ \A row \in table : row.id < NextId(table)
  <1> DEFINE T == {0} \cup RowIds(table)
  <1>1. T \in SUBSET Nat /\ T # {}
    BY DEF RowIds
  <1>2. PICK n \in Nat : \A row \in table : row.id <= n
    BY DEF Bounded
  <1>3. \A t \in T : t <= n
    BY <1>2 DEF RowIds
  <1>4. \A row \in table : row.id \in T
    BY DEF RowIds
  <1> HIDE DEF T
  <1>5. Max(T) \in Nat /\ \A t \in T : t <= Max(T)
    BY <1>1, <1>3, GreatestHolds
  <1>6. NextId(table) = 1 + Max(T)
    BY DEF NextId, T
  <1> QED
    BY <1>4, <1>5, <1>6

LEMMA RowWithHolds ==
  ASSUME NEW table, UniqueIds(table), NEW row \in table
  PROVE  RowWith(table, row.id) = row
  BY DEF RowWith, UniqueIds

LEMMA IdOfRow ==
  ASSUME NEW table, NEW id \in RowIds(table)
  PROVE  \E row \in table : row.id = id
  BY DEF RowIds

(* Of the companies of a set no two have the same number before them.      *)
LEMMA BeforeHolds ==
  ASSUME NEW some, IsFiniteSet(some), \A c \in some : c.id \in Nat, UniqueIds(some)
  PROVE  /\ \A c \in some : Before(c, some) \in 0..Cardinality(some)
         /\ \A c, b \in some : Before(c, some) = Before(b, some) => c = b
  <1> DEFINE Later(c) == {b \in some : b.id > c.id}
  <1>1. ASSUME NEW c \in some
        PROVE  /\ Before(c, some) = Cardinality(Later(c)) /\ IsFiniteSet(Later(c))
               /\ Before(c, some) \in 0..Cardinality(some)
    <2>1. Later(c) \in SUBSET some
      OBVIOUS
    <2>2. Before(c, some) = Cardinality(Later(c))
      BY DEF Before
    <2> HIDE DEF Later
    <2>3. IsFiniteSet(Later(c)) /\ Cardinality(Later(c)) <= Cardinality(some)
      BY <2>1, FS_Subset
    <2>4. Cardinality(Later(c)) \in Nat /\ Cardinality(some) \in Nat
      BY <2>3, FS_CardinalityType
    <2> QED
      BY <2>2, <2>3, <2>4
  <1>2. ASSUME NEW c \in some, NEW b \in some, c.id < b.id
        PROVE  Before(c, some) # Before(b, some)
    <2>1. Later(b) \in SUBSET Later(c) /\ b \in Later(c) /\ b \notin Later(b)
      BY <1>2
    <2> HIDE DEF Later
    <2>2. Cardinality(Later(b)) # Cardinality(Later(c))
      BY <1>1, <2>1, FS_Subset
    <2> QED
      BY <1>1, <2>2
  <1>3. ASSUME NEW c \in some, NEW b \in some, Before(c, some) = Before(b, some)
        PROVE  c = b
    <2>1. ~(c.id < b.id) /\ ~(b.id < c.id)
      BY <1>2, <1>3
    <2>2. c.id = b.id
      BY <2>1
    <2> QED
      BY <2>2 DEF UniqueIds
  <1> QED
    BY <1>1, <1>3

(* Rows edited in place keep ids, references and what became of documents. *)
LEMMA EditsKeepTables ==
  ASSUME TablesInv, DocumentsAccounted, NEW g, NEW h,
         events' = {g[e] : e \in events}, alerts' = {h[a] : a \in alerts},
         \A e \in events : g[e] \in EventRows /\ g[e].id = e.id /\ g[e].company = e.company /\ g[e].document = e.document,
         \A a \in alerts : h[a] \in AlertRows /\ h[a].id = a.id /\ h[a].event = a.event,
         UNCHANGED <<companies, documents, purged>>, bin' \subseteq BinRows
  PROVE  TablesInv' /\ DocumentsAccounted'
  <1>1. events' \subseteq EventRows /\ alerts' \subseteq AlertRows
    OBVIOUS
  <1>2. Bounded(events)' /\ Bounded(alerts)'
    BY DEF TablesInv, Bounded
  <1>3. UniqueIds(alerts)'
    BY DEF TablesInv, UniqueIds
  <1>4. RowIds(events)' = RowIds(events)
    BY DEF RowIds
  <1>5. /\ \A e \in events' : e.company \in RowIds(companies) /\ e.document \in RowIds(documents)
        /\ \A a \in alerts' : a.event \in RowIds(events)
    BY DEF TablesInv
  <1>6. TablesInv'
    <2>1. /\ companies' = companies /\ documents' = documents
          /\ RowIds(companies)' = RowIds(companies) /\ RowIds(documents)' = RowIds(documents)
      BY DEF RowIds
    <2> QED
      BY <1>1, <1>2, <1>3, <1>4, <1>5, <2>1 DEF TablesInv, Bounded, UniqueIds
  <1>7. ASSUME NEW d \in documents, NEW who \in d.known \cap Mentions[d.content]
        PROVE  \/ <<d.content, who>> \in purged
               \/ \E e \in events' : e.document = d.id /\ RowWith(companies, e.company).who = who
    <2>1. CASE <<d.content, who>> \in purged
      BY <2>1
    <2>2. ASSUME NEW e \in events, e.document = d.id, RowWith(companies, e.company).who = who
          PROVE  \E x \in events' : x.document = d.id /\ RowWith(companies, x.company).who = who
      <3>1. g[e] \in events' /\ g[e].document = d.id /\ g[e].company = e.company
        BY <2>2
      <3> QED
        BY <2>2, <3>1
    <2> QED
      BY <2>1, <2>2 DEF DocumentsAccounted
  <1>8. DocumentsAccounted'
    <2>1. companies' = companies /\ documents' = documents /\ purged' = purged
      OBVIOUS
    <2>2. /\ documents' = documents
          /\ \A d \in documents : \A who \in d.known \cap Mentions[d.content] :
               \/ <<d.content, who>> \in purged'
               \/ \E e \in events' : e.document = d.id /\ RowWith(companies', e.company).who = who
      BY <1>7, <2>1
    <2> QED
      BY ONLY <2>2 DEF DocumentsAccounted
  <1> QED
    BY <1>6, <1>8

LEMMA InitTableRows == MonitorInit => TableRowsInv
  <1> SUFFICES ASSUME MonitorInit
               PROVE  TableRowsInv
    OBVIOUS
  <1>1. /\ companies = {[id |-> 1, who |-> "k1"]} /\ documents = {} /\ events = {} /\ alerts = {} /\ bin = {}
    BY DEF MonitorInit
  <1>2. IsFiniteSet(companies)
    BY <1>1, FS_Singleton
  <1>3. companies \subseteq CompanyRows /\ Bounded(companies) /\ UniqueIds(companies)
    BY <1>1 DEF CompanyRows, Bounded, UniqueIds
  <1>4. Bounded({}) /\ UniqueIds({})
    BY DEF Bounded, UniqueIds
  <1>5. TablesInv
    BY <1>1, <1>2, <1>3, <1>4 DEF TablesInv
  <1> QED
    BY <1>1, <1>5 DEF TableRowsInv, LinkedBelong, DocumentsAccounted, HiddenEventsKept, HiddenAlertsKept,
                      ShownTogether, ShownAlerts

(* The user's transactions. *)
LEMMA ItemReplaced ==
  ASSUME TablesInv, NEW type \in {"event", "alert", "watchlist_company"}, NEW entity \in Nat, NEW linked \in SUBSET Nat,
         CreateOrReopen(type, entity, linked)
  PROVE  /\ bin' \subseteq BinRows
         /\ \A i \in bin' : i \in bin \/ i = [type |-> type, entity |-> entity, linked |-> linked]
         /\ \A i \in bin : i.type # type \/ i.entity # entity => i \in bin'
         /\ [type |-> type, entity |-> entity, linked |-> linked] \in bin'
  <1> DEFINE item == [type |-> type, entity |-> entity, linked |-> linked]
  <1>1. item \in BinRows /\ bin \subseteq BinRows
    BY DEF TablesInv, BinRows
  <1>2. bin' = {i \in bin : i.type # type \/ i.entity # entity} \cup {item}
    BY DEF CreateOrReopen
  <1> HIDE DEF item
  <1>3. /\ bin' \subseteq BinRows /\ \A i \in bin' : i \in bin \/ i = item
        /\ \A i \in bin : i.type # type \/ i.entity # entity => i \in bin'
        /\ item \in bin'
    BY <1>1, <1>2
  <1> QED
    BY <1>3 DEF item

LEMMA MoveEventStep ==
  ASSUME TableRowsInv, NEW e \in ShownEvents, MoveEventToRecycle(e)
  PROVE  TableRowsInv'
  <1> DEFINE linked == {a.id : a \in {b \in alerts : b.event = e.id}}
             item == [type |-> "event", entity |-> e.id, linked |-> linked]
             hiddenEvent == [e EXCEPT !.hidden = TRUE]
             g == [x \in events |-> IF x = e THEN hiddenEvent ELSE x]
             h == [a \in alerts |-> IF a.event = e.id THEN [a EXCEPT !.hidden = TRUE] ELSE a]
  <1>1. e \in events /\ e \in EventRows /\ alerts \subseteq AlertRows /\ events \subseteq EventRows /\ bin \subseteq BinRows
    BY DEF ShownEvents, TableRowsInv, TablesInv
  <1>2. /\ events' = (events \ {e}) \cup {hiddenEvent}
        /\ alerts' = {IF a.event = e.id THEN [a EXCEPT !.hidden = TRUE] ELSE a : a \in alerts}
        /\ CreateOrReopen("event", e.id, linked)
        /\ UNCHANGED <<companies, documents, purged, reused>>
    BY DEF MoveEventToRecycle
  <1>3. /\ hiddenEvent \in EventRows /\ hiddenEvent.id = e.id /\ hiddenEvent.company = e.company
        /\ hiddenEvent.document = e.document /\ hiddenEvent.hidden
    BY <1>1 DEF EventRows
  <1> HIDE DEF hiddenEvent
  <1>4. events' = {g[x] : x \in events}
    BY <1>1, <1>2
  <1>5. alerts' = {h[a] : a \in alerts}
    BY <1>2
  <1>6. \A x \in events : g[x] \in EventRows /\ g[x].id = x.id /\ g[x].company = x.company /\ g[x].document = x.document
    BY <1>1, <1>3
  <1>7. ASSUME NEW a \in alerts
        PROVE  /\ h[a] \in AlertRows /\ h[a].id = a.id /\ h[a].event = a.event
               /\ h[a].hidden <=> a.hidden \/ a.event = e.id
    BY <1>1 DEF AlertRows
  <1>8. linked \in SUBSET Nat /\ e.id \in Nat
    BY <1>1 DEF AlertRows, EventRows
  <1>9. /\ bin' \subseteq BinRows
        /\ \A i \in bin' : i \in bin \/ i = item
        /\ \A i \in bin : i.type # "event" \/ i.entity # e.id => i \in bin'
        /\ item \in bin'
    BY <1>2, <1>8, ItemReplaced DEF TableRowsInv
  <1>10. \A x \in events : (g[x].hidden <=> x = e \/ x.hidden)
    BY <1>3
  <1> HIDE DEF g, h
  <1>11. TablesInv' /\ DocumentsAccounted'
    <2>1. \A a \in alerts : h[a] \in AlertRows /\ h[a].id = a.id /\ h[a].event = a.event
      BY <1>7
    <2>2. TablesInv /\ DocumentsAccounted /\ UNCHANGED <<companies, documents, purged>> /\ bin' \subseteq BinRows
      BY <1>2, <1>9 DEF TableRowsInv
    <2> QED
      BY <1>4, <1>5, <1>6, <2>1, <2>2, EditsKeepTables
  <1>12. \A a \in alerts : a.event = e.id <=> a.id \in linked
    BY DEF TableRowsInv, TablesInv, UniqueIds
  <1> HIDE DEF linked
  <1>13. item.type = "event" /\ item.entity = e.id /\ item.linked = linked
    OBVIOUS
  <1> HIDE DEF item
  <1>14. LinkedBelong'
    <2> SUFFICES ASSUME reused = {}, NEW i \in bin', NEW a \in alerts, i.type = "event", a.id \in i.linked
                 PROVE  a.event = i.entity
      BY <1>2, <1>5, <1>7 DEF LinkedBelong
    <2>1. CASE i \in bin
      BY <2>1 DEF TableRowsInv, LinkedBelong
    <2>2. CASE i = item
      BY <1>12, <1>13, <2>2
    <2> QED
      BY <1>9, <2>1, <2>2
  <1>15. HiddenEventsKept'
    <2> SUFFICES ASSUME NEW x \in events, g[x].hidden
                 PROVE  \E i \in bin' : i.type = "event" /\ i.entity = x.id
      BY <1>4, <1>6 DEF HiddenEventsKept
    <2>1. CASE x.id = e.id
      BY <1>9, <1>13, <2>1
    <2>2. CASE x.id # e.id
      <3>1. PICK i \in bin : i.type = "event" /\ i.entity = x.id
        BY <1>10, <2>2 DEF TableRowsInv, HiddenEventsKept
      <3> QED
        BY <1>9, <2>2, <3>1
    <2> QED
      BY <2>1, <2>2
  <1>16. HiddenAlertsKept'
    <2> SUFFICES ASSUME NEW a \in alerts, h[a].hidden
                 PROVE  \E i \in bin' : \/ i.type = "alert" /\ i.entity = a.id
                                        \/ i.type = "event" /\ i.entity = a.event /\ a.id \in i.linked
      BY <1>5, <1>7 DEF HiddenAlertsKept
    <2>1. CASE a.event = e.id
      BY <1>9, <1>12, <1>13, <2>1
    <2>2. CASE a.event # e.id
      <3>1. PICK i \in bin : \/ i.type = "alert" /\ i.entity = a.id
                             \/ i.type = "event" /\ i.entity = a.event /\ a.id \in i.linked
        BY <1>7, <2>2 DEF TableRowsInv, HiddenAlertsKept
      <3>2. i.type # "event" \/ i.entity # e.id
        BY <2>2, <3>1
      <3> QED
        BY <1>9, <3>1, <3>2
    <2> QED
      BY <2>1, <2>2
  <1>17. ShownTogether'
    <2> SUFFICES ASSUME reused = {}, NEW a \in alerts, ~h[a].hidden
                 PROVE  \E x \in events : ~g[x].hidden /\ g[x].id = a.event
      BY <1>2, <1>4, <1>5, <1>7 DEF ShownTogether, ShownAlerts, ShownEvents, RowIds
    <2>1. PICK x \in events : ~x.hidden /\ x.id = a.event
      BY <1>7 DEF TableRowsInv, ShownTogether, ShownAlerts, ShownEvents, RowIds
    <2> QED
      BY <1>6, <1>7, <1>10, <2>1
  <1> QED
    BY <1>11, <1>14, <1>15, <1>16, <1>17 DEF TableRowsInv

LEMMA MoveAlertStep ==
  ASSUME TableRowsInv, NEW a \in ShownAlerts, MoveAlertToRecycle(a)
  PROVE  TableRowsInv'
  <1> DEFINE item == [type |-> "alert", entity |-> a.id, linked |-> {}]
             hiddenAlert == [a EXCEPT !.hidden = TRUE]
             g == [x \in events |-> x]
             h == [b \in alerts |-> IF b = a THEN hiddenAlert ELSE b]
  <1>1. a \in alerts /\ a \in AlertRows /\ alerts \subseteq AlertRows /\ events \subseteq EventRows /\ bin \subseteq BinRows
    BY DEF ShownAlerts, TableRowsInv, TablesInv
  <1>2. /\ alerts' = (alerts \ {a}) \cup {hiddenAlert}
        /\ CreateOrReopen("alert", a.id, {})
        /\ events' = events /\ reused' = reused /\ UNCHANGED <<companies, documents, purged>>
    BY DEF MoveAlertToRecycle
  <1>3. /\ hiddenAlert \in AlertRows /\ hiddenAlert.id = a.id /\ hiddenAlert.event = a.event /\ hiddenAlert.hidden
        /\ a.id \in Nat
    BY <1>1 DEF AlertRows
  <1> HIDE DEF hiddenAlert
  <1>4. events' = {g[x] : x \in events} /\ alerts' = {h[b] : b \in alerts}
    BY <1>1, <1>2
  <1>5. \A x \in events : g[x] \in EventRows /\ g[x].id = x.id /\ g[x].company = x.company /\ g[x].document = x.document
    BY <1>1
  <1>6. \A b \in alerts : h[b] \in AlertRows /\ h[b].id = b.id /\ h[b].event = b.event
    BY <1>1, <1>3
  <1>7. \A b \in alerts : (h[b].hidden <=> b = a \/ b.hidden)
    BY <1>3
  <1>8. /\ bin' \subseteq BinRows
        /\ \A i \in bin' : i \in bin \/ i = item
        /\ \A i \in bin : i.type # "alert" \/ i.entity # a.id => i \in bin'
        /\ item \in bin'
    <2>1. {} \in SUBSET Nat
      OBVIOUS
    <2> QED
      BY <1>2, <1>3, <2>1, ItemReplaced DEF TableRowsInv
  <1> HIDE DEF g, h
  <1>9. item.type = "alert" /\ item.entity = a.id /\ item.linked = {}
    OBVIOUS
  <1> HIDE DEF item
  <1>10. TablesInv' /\ DocumentsAccounted'
    <2>1. TablesInv /\ DocumentsAccounted /\ UNCHANGED <<companies, documents, purged>> /\ bin' \subseteq BinRows
      BY <1>2, <1>8 DEF TableRowsInv
    <2> QED
      BY <1>4, <1>5, <1>6, <2>1, EditsKeepTables
  <1>11. LinkedBelong'
    <2> SUFFICES ASSUME reused = {}, NEW i \in bin', NEW b \in alerts, i.type = "event", b.id \in i.linked
                 PROVE  b.event = i.entity
      BY <1>2, <1>4, <1>6 DEF LinkedBelong
    <2>1. i \in bin
      BY <1>8, <1>9
    <2> QED
      BY <2>1 DEF TableRowsInv, LinkedBelong
  <1>12. HiddenEventsKept'
    <2> SUFFICES ASSUME NEW x \in events, x.hidden
                 PROVE  \E i \in bin' : i.type = "event" /\ i.entity = x.id
      BY <1>2 DEF HiddenEventsKept
    <2>1. PICK i \in bin : i.type = "event" /\ i.entity = x.id
      BY DEF TableRowsInv, HiddenEventsKept
    <2> QED
      BY <1>8, <2>1
  <1>13. HiddenAlertsKept'
    <2> SUFFICES ASSUME NEW b \in alerts, h[b].hidden
                 PROVE  \E i \in bin' : \/ i.type = "alert" /\ i.entity = b.id
                                        \/ i.type = "event" /\ i.entity = b.event /\ b.id \in i.linked
      BY <1>4, <1>6 DEF HiddenAlertsKept
    <2>1. CASE b.id = a.id
      BY <1>8, <1>9, <2>1
    <2>2. CASE b.id # a.id
      <3>1. PICK i \in bin : \/ i.type = "alert" /\ i.entity = b.id
                             \/ i.type = "event" /\ i.entity = b.event /\ b.id \in i.linked
        BY <1>7, <2>2 DEF TableRowsInv, HiddenAlertsKept
      <3>2. i.type # "alert" \/ i.entity # a.id
        BY <2>2, <3>1
      <3> QED
        BY <1>8, <3>1, <3>2
    <2> QED
      BY <2>1, <2>2
  <1>14. ShownTogether'
    <2> SUFFICES ASSUME reused = {}, NEW b \in alerts, ~h[b].hidden
                 PROVE  b.event \in RowIds(ShownEvents)
      BY <1>2, <1>4, <1>6 DEF ShownTogether, ShownAlerts, ShownEvents, RowIds
    <2> QED
      BY <1>7 DEF TableRowsInv, ShownTogether, ShownAlerts
  <1> QED
    BY <1>10, <1>11, <1>12, <1>13, <1>14 DEF TableRowsInv

LEMMA SetStatusStep ==
  ASSUME TableRowsInv, NEW some \in SUBSET alerts, NEW status \in {"acknowledged", "ignored"}, SetStatus(some, status)
  PROVE  TableRowsInv'
  <1> DEFINE Marked(a) == [a EXCEPT !.status = status]
             g == [x \in events |-> x]
             h == [b \in alerts |-> IF b \in some THEN Marked(b) ELSE b]
  <1>1. alerts \subseteq AlertRows /\ events \subseteq EventRows /\ bin \subseteq BinRows
    BY DEF TableRowsInv, TablesInv
  <1>2. /\ alerts' = (alerts \ some) \cup {Marked(a) : a \in some}
        /\ events' = events /\ reused' = reused /\ bin' = bin /\ UNCHANGED <<companies, documents, purged>>
    BY DEF SetStatus
  <1>3. \A a \in alerts : /\ Marked(a) \in AlertRows /\ Marked(a).id = a.id /\ Marked(a).event = a.event
                          /\ Marked(a).hidden = a.hidden
    BY <1>1 DEF AlertRows
  <1> HIDE DEF Marked
  <1>4. events' = {g[x] : x \in events} /\ alerts' = {h[b] : b \in alerts}
    BY <1>2
  <1>5. \A x \in events : g[x] \in EventRows /\ g[x].id = x.id /\ g[x].company = x.company /\ g[x].document = x.document
    BY <1>1
  <1>6. \A b \in alerts : h[b] \in AlertRows /\ h[b].id = b.id /\ h[b].event = b.event
    BY <1>1, <1>3
  <1>7. \A b \in alerts : h[b].hidden = b.hidden
    BY <1>3
  <1> HIDE DEF g, h
  <1>8. TablesInv' /\ DocumentsAccounted'
    <2>1. TablesInv /\ DocumentsAccounted /\ UNCHANGED <<companies, documents, purged>> /\ bin' \subseteq BinRows
      BY <1>1, <1>2 DEF TableRowsInv
    <2> QED
      BY <1>4, <1>5, <1>6, <2>1, EditsKeepTables
  <1>9. LinkedBelong'
    BY <1>2, <1>4, <1>6 DEF TableRowsInv, LinkedBelong
  <1>10. HiddenEventsKept'
    BY <1>2 DEF TableRowsInv, HiddenEventsKept
  <1>11. HiddenAlertsKept'
    BY <1>2, <1>4, <1>6, <1>7 DEF TableRowsInv, HiddenAlertsKept
  <1>12. ShownTogether'
    <2> SUFFICES ASSUME reused = {}, NEW b \in alerts, ~h[b].hidden
                 PROVE  b.event \in RowIds(ShownEvents)
      BY <1>2, <1>4, <1>6 DEF ShownTogether, ShownAlerts, ShownEvents, RowIds
    <2> QED
      BY <1>7 DEF TableRowsInv, ShownTogether, ShownAlerts
  <1> QED
    BY <1>8, <1>9, <1>10, <1>11, <1>12 DEF TableRowsInv

(* Rows stay, and so do the items of events and alerts. *)
LEMMA OtherItemsStep ==
  ASSUME TableRowsInv, UNCHANGED <<companies, documents, events, alerts, purged, reused>>, bin' \subseteq BinRows,
         \A i \in bin' : i.type # "watchlist_company" => i \in bin,
         \A i \in bin : i.type # "watchlist_company" => i \in bin'
  PROVE  TableRowsInv'
  <1>1. TablesInv'
    BY DEF TableRowsInv, TablesInv, Bounded, UniqueIds, RowIds
  <1>2. DocumentsAccounted'
    <2>1. /\ companies' = companies /\ documents' = documents /\ events' = events /\ purged' = purged
          /\ DocumentsAccounted
      BY DEF TableRowsInv
    <2>2. \A d \in documents' : \A who \in d.known \cap Mentions[d.content] :
               \/ <<d.content, who>> \in purged'
               \/ \E e \in events' : e.document = d.id /\ RowWith(companies', e.company).who = who
      BY ONLY <2>1 DEF DocumentsAccounted
    <2> QED
      BY ONLY <2>2 DEF DocumentsAccounted
  <1>3. LinkedBelong'
    BY DEF TableRowsInv, LinkedBelong
  <1>4. HiddenEventsKept' /\ HiddenAlertsKept'
    BY DEF TableRowsInv, HiddenEventsKept, HiddenAlertsKept
  <1>5. ShownTogether'
    BY DEF TableRowsInv, ShownTogether, ShownAlerts, ShownEvents, RowIds
  <1> QED
    BY <1>1, <1>2, <1>3, <1>4, <1>5 DEF TableRowsInv

LEMMA MoveCompanyStep ==
  ASSUME TableRowsInv, NEW c \in companies, MoveCompanyToRecycle(c)
  PROVE  TableRowsInv'
  <1> DEFINE item == [type |-> "watchlist_company", entity |-> c.id, linked |-> {}]
  <1>1. c.id \in Nat /\ {} \in SUBSET Nat /\ TablesInv
    BY DEF TableRowsInv, TablesInv, CompanyRows
  <1>2. CreateOrReopen("watchlist_company", c.id, {}) /\ UNCHANGED <<companies, documents, events, alerts, purged, reused>>
    BY DEF MoveCompanyToRecycle
  <1>3. /\ bin' \subseteq BinRows
        /\ \A i \in bin' : i \in bin \/ i = item
        /\ \A i \in bin : i.type # "watchlist_company" \/ i.entity # c.id => i \in bin'
    BY <1>1, <1>2, ItemReplaced
  <1>4. \A i \in bin' : i.type # "watchlist_company" => i \in bin
    BY <1>3
  <1> HIDE DEF item
  <1> QED
    BY <1>2, <1>3, <1>4, OtherItemsStep

(* An item is closed and its rows are shown: the event with this id and    *)
(* the alerts with those ids.                                              *)
LEMMA UnhidesStep ==
  ASSUME TableRowsInv, NEW i \in bin, NEW id \in RowIds(events), NEW ids,
         events' = {IF e.id = id THEN [e EXCEPT !.hidden = FALSE] ELSE e : e \in events},
         alerts' = {IF a.id \in ids THEN [a EXCEPT !.hidden = FALSE] ELSE a : a \in alerts},
         bin' = bin \ {i}, UNCHANGED <<companies, documents, purged, reused>>,
         i.type = "event" => i.entity = id,
         \A a \in alerts : \/ i.type = "alert" /\ i.entity = a.id
                           \/ i.type = "event" /\ i.entity = a.event /\ a.id \in i.linked
                           => a.id \in ids,
         reused = {} => \A a \in alerts : a.id \in ids => a.event = id
  PROVE  TableRowsInv'
  <1> DEFINE g == [e \in events |-> IF e.id = id THEN [e EXCEPT !.hidden = FALSE] ELSE e]
             h == [a \in alerts |-> IF a.id \in ids THEN [a EXCEPT !.hidden = FALSE] ELSE a]
  <1>1. alerts \subseteq AlertRows /\ events \subseteq EventRows /\ bin \subseteq BinRows
    BY DEF TableRowsInv, TablesInv
  <1>2. events' = {g[x] : x \in events} /\ alerts' = {h[b] : b \in alerts}
    OBVIOUS
  <1>3. ASSUME NEW x \in events
        PROVE  /\ g[x] \in EventRows /\ g[x].id = x.id /\ g[x].company = x.company /\ g[x].document = x.document
               /\ g[x].hidden <=> x.hidden /\ x.id # id
    BY <1>1 DEF EventRows
  <1>4. ASSUME NEW b \in alerts
        PROVE  /\ h[b] \in AlertRows /\ h[b].id = b.id /\ h[b].event = b.event
               /\ h[b].hidden <=> b.hidden /\ b.id \notin ids
    BY <1>1 DEF AlertRows
  <1> HIDE DEF g, h
  <1>5. TablesInv' /\ DocumentsAccounted'
    <2>1. TablesInv /\ DocumentsAccounted /\ UNCHANGED <<companies, documents, purged>> /\ bin' \subseteq BinRows
      BY <1>1 DEF TableRowsInv
    <2>2. \A x \in events : g[x] \in EventRows /\ g[x].id = x.id /\ g[x].company = x.company /\ g[x].document = x.document
      BY <1>3
    <2>3. \A b \in alerts : h[b] \in AlertRows /\ h[b].id = b.id /\ h[b].event = b.event
      BY <1>4
    <2> QED
      BY ONLY <1>2, <2>1, <2>2, <2>3, EditsKeepTables
  <1>6. LinkedBelong'
    BY <1>2, <1>4 DEF TableRowsInv, LinkedBelong
  <1>7. HiddenEventsKept'
    <2> SUFFICES ASSUME NEW x \in events, g[x].hidden
                 PROVE  \E j \in bin' : j.type = "event" /\ j.entity = x.id
      BY <1>2, <1>3 DEF HiddenEventsKept
    <2>1. PICK j \in bin : j.type = "event" /\ j.entity = x.id
      BY <1>3 DEF TableRowsInv, HiddenEventsKept
    <2>2. j # i
      BY <1>3, <2>1
    <2> QED
      BY <2>1, <2>2
  <1>8. HiddenAlertsKept'
    <2> SUFFICES ASSUME NEW b \in alerts, h[b].hidden
                 PROVE  \E j \in bin' : \/ j.type = "alert" /\ j.entity = b.id
                                        \/ j.type = "event" /\ j.entity = b.event /\ b.id \in j.linked
      BY <1>2, <1>4 DEF HiddenAlertsKept
    <2>1. PICK j \in bin : \/ j.type = "alert" /\ j.entity = b.id
                           \/ j.type = "event" /\ j.entity = b.event /\ b.id \in j.linked
      BY <1>4 DEF TableRowsInv, HiddenAlertsKept
    <2>2. j # i
      BY <1>4, <2>1
    <2> QED
      BY <2>1, <2>2
  <1>9. ShownTogether'
    <2> SUFFICES ASSUME reused' = {}, NEW c \in alerts', ~c.hidden
                 PROVE  \E y \in events' : ~y.hidden /\ y.id = c.event
      BY DEF ShownTogether, ShownAlerts, ShownEvents, RowIds
    <2>0. PICK b \in alerts : c = h[b]
      BY <1>2
    <2> SUFFICES \E x \in events : ~g[x].hidden /\ g[x].id = b.event
      BY <1>2, <1>4, <2>0
    <2>1. CASE b.id \in ids
      <3>1. PICK x \in events : x.id = id
        BY IdOfRow
      <3>2. b.event = id
        BY <2>1
      <3> QED
        BY <1>3, <3>1, <3>2
    <2>2. CASE b.id \notin ids
      <3>1. PICK x \in events : ~x.hidden /\ x.id = b.event
        BY <1>4, <2>0, <2>2 DEF TableRowsInv, ShownTogether, ShownAlerts, ShownEvents, RowIds
      <3> QED
        BY <1>3, <3>1
    <2> QED
      BY <2>1, <2>2
  <1> QED
    BY <1>5, <1>6, <1>7, <1>8, <1>9 DEF TableRowsInv

LEMMA RestoreStep ==
  ASSUME TableRowsInv, NEW i \in bin, RestoreItem(i)
  PROVE  TableRowsInv'
  <1>1. bin' = bin \ {i} /\ UNCHANGED <<companies, documents, purged, reused>>
    BY DEF RestoreItem
  <1>2. ASSUME i.type = "event", i.entity \in RowIds(events),
               events' = {IF e.id = i.entity THEN [e EXCEPT !.hidden = FALSE] ELSE e : e \in events},
               alerts' = {IF a.id \in i.linked THEN [a EXCEPT !.hidden = FALSE] ELSE a : a \in alerts}
        PROVE  TableRowsInv'
    <2>1. reused = {} => \A a \in alerts : a.id \in i.linked => a.event = i.entity
      BY <1>2 DEF TableRowsInv, LinkedBelong
    <2> DEFINE id == i.entity
               ids == i.linked
    <2>2. id \in RowIds(events)
      BY <1>2
    <2>3. \A a \in alerts : \/ i.type = "alert" /\ i.entity = a.id
                            \/ i.type = "event" /\ i.entity = a.event /\ a.id \in i.linked
                            => a.id \in ids
      BY <1>2
    <2>4. /\ events' = {IF e.id = id THEN [e EXCEPT !.hidden = FALSE] ELSE e : e \in events}
          /\ alerts' = {IF a.id \in ids THEN [a EXCEPT !.hidden = FALSE] ELSE a : a \in alerts}
          /\ i.type = "event" => i.entity = id
          /\ reused = {} => \A a \in alerts : a.id \in ids => a.event = id
      BY <1>2, <2>1
    <2> HIDE DEF id, ids
    <2> QED
      BY <1>1, <2>2, <2>3, <2>4, UnhidesStep
  <1>3. ASSUME i.type = "alert", i.entity \in RowIds(alerts),
               LET of == RowWith(alerts, i.entity).event IN
                 events' = {IF e.id = of THEN [e EXCEPT !.hidden = FALSE] ELSE e : e \in events},
               alerts' = {IF a.id = i.entity THEN [a EXCEPT !.hidden = FALSE] ELSE a : a \in alerts}
        PROVE  TableRowsInv'
    <2>1. PICK a \in alerts : a.id = i.entity
      BY <1>3, IdOfRow
    <2>2. RowWith(alerts, i.entity) = a /\ \A b \in alerts : b.id = i.entity => b = a
      BY <2>1, RowWithHolds DEF TableRowsInv, TablesInv, UniqueIds
    <2> DEFINE id == a.event
               ids == {i.entity}
    <2>3. id \in RowIds(events)
      BY DEF TableRowsInv, TablesInv
    <2>4. \A b \in alerts : \/ i.type = "alert" /\ i.entity = b.id
                            \/ i.type = "event" /\ i.entity = b.event /\ b.id \in i.linked
                            => b.id \in ids
      BY <1>3
    <2>5. events' = {IF e.id = id THEN [e EXCEPT !.hidden = FALSE] ELSE e : e \in events}
      BY <1>3, <2>2
    <2>6. /\ alerts' = {IF b.id \in ids THEN [b EXCEPT !.hidden = FALSE] ELSE b : b \in alerts}
          /\ i.type = "event" => i.entity = id
          /\ reused = {} => \A b \in alerts : b.id \in ids => b.event = id
      BY <1>3, <2>2
    <2> HIDE DEF id, ids
    <2> QED
      BY <1>1, <2>3, <2>4, <2>5, <2>6, UnhidesStep
  <1>4. CASE i.type = "watchlist_company" /\ UNCHANGED <<events, alerts>>
    <2>1. /\ bin' \subseteq BinRows
          /\ \A j \in bin' : j.type # "watchlist_company" => j \in bin
          /\ \A j \in bin : j.type # "watchlist_company" => j \in bin'
      BY <1>1, <1>4 DEF TableRowsInv, TablesInv
    <2> QED
      BY <1>1, <1>4, <2>1, OtherItemsStep
  <1> QED
    BY <1>2, <1>3, <1>4 DEF RestoreItem

(* Rows are deleted: of an event that goes no alert is left, and an item   *)
(* goes with the rows it would bring back.                                 *)
LEMMA DeletionsKeepRows ==
  ASSUME TableRowsInv, companies' \subseteq companies, documents' = documents, events' \subseteq events,
         alerts' \subseteq alerts, bin' \subseteq bin, reused' = reused,
         \A e \in events' : e.company \in RowIds(companies'),
         \A e \in events \ events', a \in alerts' : a.event # e.id,
         \A i \in bin \ bin' : /\ i.type = "event" => \A e \in events' : e.id # i.entity
                               /\ \A a \in alerts' : i.type = "alert" => a.id # i.entity
                               /\ \A a \in alerts' : i.type = "event" => a.event # i.entity
  PROVE  TablesInv' /\ LinkedBelong' /\ HiddenEventsKept' /\ HiddenAlertsKept' /\ ShownTogether'
  <1>1. TablesInv'
    <2>1. IsFiniteSet(companies')
      BY FS_Subset DEF TableRowsInv, TablesInv
    <2>2. /\ companies' \subseteq CompanyRows /\ documents' \subseteq DocumentRows /\ events' \subseteq EventRows
          /\ alerts' \subseteq AlertRows /\ bin' \subseteq BinRows
      BY DEF TableRowsInv, TablesInv
    <2>3. Bounded(companies)' /\ Bounded(documents)' /\ Bounded(events)' /\ Bounded(alerts)'
      BY DEF TableRowsInv, TablesInv, Bounded
    <2>4. UniqueIds(companies)' /\ UniqueIds(documents)' /\ UniqueIds(alerts)'
      BY DEF TableRowsInv, TablesInv, UniqueIds
    <2>5. \A e \in events' : e.company \in RowIds(companies') /\ e.document \in RowIds(documents')
      BY DEF TableRowsInv, TablesInv
    <2>6. \A a \in alerts' : a.event \in RowIds(events')
      <3> SUFFICES ASSUME NEW a \in alerts'
                   PROVE  \E e \in events' : e.id = a.event
        BY DEF RowIds
      <3>1. PICK e \in events : e.id = a.event
        BY DEF TableRowsInv, TablesInv, RowIds
      <3> QED
        BY <3>1
    <2>7. RowIds(companies)' = RowIds(companies') /\ RowIds(documents)' = RowIds(documents') /\ RowIds(events)' = RowIds(events')
      BY DEF RowIds
    <2> QED
      BY <2>1, <2>2, <2>3, <2>4, <2>5, <2>6, <2>7 DEF TablesInv
  <1>2. LinkedBelong'
    BY DEF TableRowsInv, LinkedBelong
  <1>3. HiddenEventsKept'
    BY DEF TableRowsInv, HiddenEventsKept
  <1>4. HiddenAlertsKept'
    <2> SUFFICES ASSUME NEW a \in alerts', a.hidden
                 PROVE  \E i \in bin' : \/ i.type = "alert" /\ i.entity = a.id
                                        \/ i.type = "event" /\ i.entity = a.event /\ a.id \in i.linked
      BY DEF HiddenAlertsKept
    <2>1. PICK i \in bin : \/ i.type = "alert" /\ i.entity = a.id
                           \/ i.type = "event" /\ i.entity = a.event /\ a.id \in i.linked
      BY DEF TableRowsInv, HiddenAlertsKept
    <2>2. i \in bin'
      BY <2>1
    <2> QED
      BY <2>1, <2>2
  <1>5. ShownTogether'
    <2> SUFFICES ASSUME reused = {}, NEW a \in alerts', ~a.hidden
                 PROVE  \E e \in events' : ~e.hidden /\ e.id = a.event
      BY DEF ShownTogether, ShownAlerts, ShownEvents, RowIds
    <2>1. PICK e \in events : ~e.hidden /\ e.id = a.event
      BY DEF TableRowsInv, ShownTogether, ShownAlerts, ShownEvents, RowIds
    <2> QED
      BY <2>1
  <1> QED
    BY <1>1, <1>2, <1>3, <1>4, <1>5

LEMMA PermanentlyDeleteStep ==
  ASSUME TableRowsInv, NEW i \in bin, PermanentlyDelete(i)
  PROVE  TableRowsInv'
  <1> DEFINE gone == {e \in events : i.type = "event" /\ e.id = i.entity}
  <1>1. /\ events' = events \ gone /\ purged' = purged \cup Subjects(gone)
        /\ alerts' = {a \in alerts : \/ i.type = "event" /\ a.event # i.entity
                                     \/ i.type = "alert" /\ a.id # i.entity
                                     \/ i.type = "watchlist_company"}
        /\ bin' = bin \ {i} /\ companies' = companies /\ documents' = documents /\ reused' = reused
    BY DEF PermanentlyDelete
  <1>2. \A e \in events' : e.company \in RowIds(companies')
    BY <1>1 DEF TableRowsInv, TablesInv
  <1>3. \A e \in events \ events', a \in alerts' : a.event # e.id
    BY <1>1
  <1>4. /\ i.type = "event" => \A e \in events' : e.id # i.entity
        /\ \A a \in alerts' : i.type = "alert" => a.id # i.entity
        /\ \A a \in alerts' : i.type = "event" => a.event # i.entity
    BY <1>1
  <1>5. TablesInv' /\ LinkedBelong' /\ HiddenEventsKept' /\ HiddenAlertsKept' /\ ShownTogether'
    <2>1. /\ companies' \subseteq companies /\ events' \subseteq events /\ alerts' \subseteq alerts /\ bin' \subseteq bin
          /\ \A j \in bin \ bin' : j = i
      BY <1>1
    <2> QED
      BY <1>1, <1>2, <1>3, <1>4, <2>1, DeletionsKeepRows
  <1>6. DocumentsAccounted'
    <2>1. ASSUME NEW d \in documents, NEW who \in d.known \cap Mentions[d.content]
          PROVE  \/ <<d.content, who>> \in purged'
                 \/ \E e \in events' : e.document = d.id /\ RowWith(companies, e.company).who = who
      <3>1. CASE <<d.content, who>> \in purged
        BY <1>1, <3>1
      <3>2. ASSUME NEW e \in events, e.document = d.id, RowWith(companies, e.company).who = who
            PROVE  \/ <<d.content, who>> \in purged'
                   \/ \E x \in events' : x.document = d.id /\ RowWith(companies, x.company).who = who
        <4>1. CASE e \in gone
          <5>1. RowWith(documents, e.document) = d
            BY <3>2, RowWithHolds DEF TableRowsInv, TablesInv
          <5>2. <<d.content, who>> \in Subjects(gone)
            BY <3>2, <4>1, <5>1 DEF Subjects
          <5> QED
            BY <1>1, <5>2
        <4>2. CASE e \notin gone
          BY <1>1, <3>2, <4>2
        <4> QED
          BY <4>1, <4>2
      <3> QED
        BY <3>1, <3>2 DEF TableRowsInv, DocumentsAccounted
    <2>2. \A d \in documents' : \A who \in d.known \cap Mentions[d.content] :
               \/ <<d.content, who>> \in purged'
               \/ \E e \in events' : e.document = d.id /\ RowWith(companies', e.company).who = who
      <3>1. documents' = documents /\ companies' = companies
        BY <1>1
      <3> QED
        BY ONLY <2>1, <3>1
    <2> QED
      BY ONLY <2>2 DEF DocumentsAccounted
  <1> QED
    BY <1>5, <1>6 DEF TableRowsInv

LEMMA DeleteCompanyStep ==
  ASSUME TableRowsInv, NEW c \in companies, PermanentlyDeleteCompany(c)
  PROVE  TableRowsInv'
  <1> DEFINE gone == {e \in events : e.company = c.id}
  <1>1. /\ events' = events \ gone /\ alerts' = {a \in alerts : a.event \notin RowIds(gone)}
        /\ purged' = purged \cup (Contents \X {c.who}) /\ companies' = companies \ {c}
        /\ bin' = bin /\ documents' = documents /\ reused' = reused
    BY DEF PermanentlyDeleteCompany
  <1>2. ASSUME NEW e \in events'
        PROVE  e.company \in RowIds(companies') /\ RowWith(companies', e.company) = RowWith(companies, e.company)
    <2>1. e \in events /\ e.company # c.id
      BY <1>1
    <2>2. PICK k \in companies : k.id = e.company
      BY <2>1, IdOfRow DEF TableRowsInv, TablesInv
    <2>3. k \in companies'
      BY <1>1, <2>1, <2>2
    <2>4. UniqueIds(companies) /\ UniqueIds(companies')
      BY <1>1 DEF TableRowsInv, TablesInv, UniqueIds
    <2>5. RowWith(companies, k.id) = k /\ RowWith(companies', k.id) = k
      BY <2>3, <2>4, RowWithHolds
    <2> QED
      BY <2>2, <2>3, <2>5 DEF RowIds
  <1>3. \A e \in events \ events', a \in alerts' : a.event # e.id
    BY <1>1 DEF RowIds
  <1>4. TablesInv' /\ LinkedBelong' /\ HiddenEventsKept' /\ HiddenAlertsKept' /\ ShownTogether'
    <2>1. /\ companies' \subseteq companies /\ events' \subseteq events /\ alerts' \subseteq alerts /\ bin' \subseteq bin
          /\ bin \ bin' = {} /\ \A e \in events' : e.company \in RowIds(companies')
      BY <1>1, <1>2
    <2> QED
      BY <1>1, <1>3, <2>1, DeletionsKeepRows
  <1>5. DocumentsAccounted'
    <2>1. ASSUME NEW d \in documents, NEW who \in d.known \cap Mentions[d.content]
          PROVE  \/ <<d.content, who>> \in purged'
                 \/ \E e \in events' : e.document = d.id /\ RowWith(companies', e.company).who = who
      <3>1. CASE <<d.content, who>> \in purged
        BY <1>1, <3>1
      <3>2. ASSUME NEW e \in events, e.document = d.id, RowWith(companies, e.company).who = who
            PROVE  \/ <<d.content, who>> \in purged'
                   \/ \E x \in events' : x.document = d.id /\ RowWith(companies', x.company).who = who
        <4>1. CASE e \in gone
          <5>1. RowWith(companies, e.company) = c
            BY <4>1, RowWithHolds DEF TableRowsInv, TablesInv
          <5>2. d.content \in Contents
            BY DEF TableRowsInv, TablesInv, DocumentRows
          <5> QED
            BY <1>1, <3>2, <5>1, <5>2
        <4>2. CASE e \notin gone
          <5>1. e \in events'
            BY <1>1, <4>2
          <5> QED
            BY <1>2, <3>2, <5>1
        <4> QED
          BY <4>1, <4>2
      <3> QED
        BY <3>1, <3>2 DEF TableRowsInv, DocumentsAccounted
    <2>2. \A d \in documents' : \A who \in d.known \cap Mentions[d.content] :
               \/ <<d.content, who>> \in purged'
               \/ \E e \in events' : e.document = d.id /\ RowWith(companies', e.company).who = who
      <3>1. documents' = documents
        BY <1>1
      <3> QED
        BY ONLY <2>1, <3>1
    <2> QED
      BY ONLY <2>2 DEF DocumentsAccounted
  <1> QED
    BY <1>4, <1>5 DEF TableRowsInv

LEMMA BoundedWith ==
  ASSUME NEW table, NEW n \in Nat, \A row \in table : row.id \in Nat /\ row.id <= n
  PROVE  Bounded(table)
  BY DEF Bounded

LEMMA AddToWatchlistStep ==
  ASSUME TableRowsInv, NEW who \in {"k1", "k2"}, AddToWatchlist(who)
  PROVE  TableRowsInv'
  <1> DEFINE found == {c \in companies : c.who = who}
             row == IF found # {} THEN CHOOSE c \in found : TRUE ELSE [id |-> NextId(companies), who |-> who]
  <1>1. /\ companies' = companies \cup {row} /\ reused \subseteq reused'
        /\ documents' = documents /\ events' = events /\ alerts' = alerts /\ bin' = bin /\ purged' = purged
    BY DEF AddToWatchlist
  <1>2. /\ \A c \in companies : c.id \in Nat /\ c.id < NextId(companies)
        /\ NextId(companies) \in Nat
    BY NextIdHolds DEF TableRowsInv, TablesInv, CompanyRows
  <1>3. row \in CompanyRows /\ row.id <= NextId(companies) /\ (row \in companies \/ row.id = NextId(companies))
    <2>1. CASE found # {}
      <3>1. row \in companies
        BY <2>1
      <3> HIDE DEF row
      <3> QED
        BY <1>2, <3>1 DEF TableRowsInv, TablesInv
    <2>2. CASE found = {}
      <3>1. row = [id |-> NextId(companies), who |-> who]
        BY <2>2
      <3> QED
        BY <1>2, <3>1 DEF CompanyRows
    <2> QED
      BY <2>1, <2>2
  <1> HIDE DEF row
  <1>4. UniqueIds(companies')
    BY <1>1, <1>2, <1>3 DEF TableRowsInv, TablesInv, UniqueIds
  <1>5. TablesInv'
    <2>1. Bounded(companies')
      <3>1. \A c \in companies' : c.id \in Nat /\ c.id <= NextId(companies)
        BY <1>1, <1>2, <1>3 DEF CompanyRows
      <3> QED
        BY <1>2, <3>1, BoundedWith
    <2>2. IsFiniteSet(companies')
      BY <1>1, FS_AddElement DEF TableRowsInv, TablesInv
    <2>3. companies' \subseteq CompanyRows /\ RowIds(companies) \subseteq RowIds(companies')
      BY <1>1, <1>3 DEF TableRowsInv, TablesInv, RowIds
    <2>4. \A e \in events : e.company \in RowIds(companies') /\ e.document \in RowIds(documents)
      BY <2>3 DEF TableRowsInv, TablesInv
    <2>5. TablesInv
      BY DEF TableRowsInv
    <2> QED
      BY ONLY <1>1, <1>4, <2>1, <2>2, <2>3, <2>4, <2>5 DEF TablesInv, Bounded, UniqueIds, RowIds
  <1>6. \A e \in events : RowWith(companies', e.company) = RowWith(companies, e.company)
    <2> SUFFICES ASSUME NEW e \in events
                 PROVE  RowWith(companies', e.company) = RowWith(companies, e.company)
      OBVIOUS
    <2>1. PICK k \in companies : k.id = e.company
      BY IdOfRow DEF TableRowsInv, TablesInv
    <2>2. k \in companies' /\ UniqueIds(companies)
      BY <1>1 DEF TableRowsInv, TablesInv
    <2>3. RowWith(companies, k.id) = k /\ RowWith(companies', k.id) = k
      BY <1>4, <2>2, RowWithHolds
    <2> QED
      BY <2>1, <2>3
  <1>7. DocumentsAccounted'
    <2>1. DocumentsAccounted
      BY DEF TableRowsInv
    <2>2. \A d \in documents' : \A k \in d.known \cap Mentions[d.content] :
               \/ <<d.content, k>> \in purged'
               \/ \E e \in events' : e.document = d.id /\ RowWith(companies', e.company).who = k
      <3> SUFFICES ASSUME NEW d \in documents, NEW k \in d.known \cap Mentions[d.content], <<d.content, k>> \notin purged
                   PROVE  \E e \in events : e.document = d.id /\ RowWith(companies', e.company).who = k
        BY <1>1
      <3>1. PICK e \in events : e.document = d.id /\ RowWith(companies, e.company).who = k
        BY <2>1 DEF DocumentsAccounted
      <3>2. RowWith(companies', e.company) = RowWith(companies, e.company)
        BY <1>6
      <3> QED
        BY <3>1, <3>2
    <2> QED
      BY ONLY <2>2 DEF DocumentsAccounted
  <1>8. LinkedBelong' /\ HiddenEventsKept' /\ HiddenAlertsKept'
    BY <1>1 DEF TableRowsInv, LinkedBelong, HiddenEventsKept, HiddenAlertsKept
  <1>9. ShownTogether'
    BY <1>1 DEF TableRowsInv, ShownTogether, ShownAlerts, ShownEvents, RowIds
  <1> QED
    BY <1>5, <1>7, <1>8, <1>9 DEF TableRowsInv

(* The rows that come of a document have new ids, and each alert its event. *)
LEMMA MadeHolds ==
  ASSUME TablesInv, NEW d, d.id \in Nat
  PROVE  /\ \A c \in Unseen(d) : c \in companies
         /\ \A e \in EventsOf(d) : e \in EventRows /\ ~e.hidden /\ e.document = d.id /\ e.company \in RowIds(companies)
         /\ \A a \in AlertsOf(d) : a \in AlertRows /\ ~a.hidden /\ a.event \in RowIds(EventsOf(d))
         /\ \A a \in AlertsOf(d) : \A b \in alerts : a.id # b.id
         /\ UniqueIds(AlertsOf(d))
         /\ Bounded(events \cup EventsOf(d)) /\ Bounded(alerts \cup AlertsOf(d))
  <1>1. /\ Unseen(d) \in SUBSET companies /\ Alerted(d) \in SUBSET Unseen(d)
        /\ Alerted(d) \in SUBSET companies
    BY DEF Unseen, Alerted, MatchDocument
  <1>2. /\ IsFiniteSet(Unseen(d)) /\ IsFiniteSet(Alerted(d)) /\ UniqueIds(Unseen(d)) /\ UniqueIds(Alerted(d))
        /\ \A c \in companies : c.id \in Nat
    <2>1. IsFiniteSet(Unseen(d)) /\ IsFiniteSet(Alerted(d))
      BY <1>1, FS_Subset DEF TablesInv
    <2> QED
      BY <1>1, <2>1 DEF TablesInv, UniqueIds, CompanyRows
  <1> DEFINE many == Cardinality(Unseen(d))
             few == Cardinality(Alerted(d))
  <1>3. many \in Nat /\ few \in Nat
    BY <1>2, FS_CardinalityType
  <1>4. \A c \in Unseen(d) : Before(c, Unseen(d)) \in 0..many
    BY <1>1, <1>2, BeforeHolds
  <1>5. /\ \A c \in Alerted(d) : Before(c, Alerted(d)) \in 0..few
        /\ \A c, b \in Alerted(d) : Before(c, Alerted(d)) = Before(b, Alerted(d)) => c = b
    BY <1>1, <1>2, BeforeHolds
  <1> HIDE DEF many, few
  <1>6. NextId(events) \in Nat /\ \A e \in events : e.id \in Nat /\ e.id < NextId(events)
    BY NextIdHolds DEF TablesInv, EventRows
  <1>7. NextId(alerts) \in Nat /\ \A a \in alerts : a.id \in Nat /\ a.id < NextId(alerts)
    BY NextIdHolds DEF TablesInv, AlertRows
  <1>8. ASSUME NEW c \in Unseen(d)
        PROVE  /\ EventOf(c, d) \in EventRows /\ ~EventOf(c, d).hidden /\ EventOf(c, d).document = d.id
               /\ EventOf(c, d).company \in RowIds(companies)
               /\ EventOf(c, d).id \in Nat /\ EventOf(c, d).id <= NextId(events) + many
    <2> DEFINE id == NextId(events) + Before(c, Unseen(d))
    <2>1. id \in Nat /\ id <= NextId(events) + many
      BY <1>3, <1>4, <1>6
    <2>2. EventOf(c, d) = [id |-> id, company |-> c.id, document |-> d.id, hidden |-> FALSE]
      BY DEF EventOf
    <2>3. c.id \in Nat /\ c.id \in RowIds(companies)
      BY <1>1, <1>2 DEF RowIds
    <2> HIDE DEF id
    <2> QED
      BY <2>1, <2>2, <2>3 DEF EventRows
  <1>9. ASSUME NEW c \in Alerted(d)
        PROVE  /\ CreateForEvent(c, d) \in AlertRows /\ ~CreateForEvent(c, d).hidden
               /\ CreateForEvent(c, d).event = EventOf(c, d).id
               /\ CreateForEvent(c, d).id = NextId(alerts) + Before(c, Alerted(d))
               /\ CreateForEvent(c, d).id \in Nat /\ CreateForEvent(c, d).id <= NextId(alerts) + few
               /\ CreateForEvent(c, d).id >= NextId(alerts)
    <2> DEFINE id == NextId(alerts) + Before(c, Alerted(d))
               event == EventOf(c, d).id
    <2>1. id \in Nat /\ id <= NextId(alerts) + few /\ id >= NextId(alerts)
      BY <1>3, <1>5, <1>7
    <2>2. CreateForEvent(c, d) = [id |-> id, event |-> event, status |-> "unread", hidden |-> FALSE]
      BY DEF CreateForEvent
    <2>3. event \in Nat
      BY <1>1, <1>8
    <2> HIDE DEF event
    <2>4. id = NextId(alerts) + Before(c, Alerted(d))
      OBVIOUS
    <2> HIDE DEF id
    <2>5. CreateForEvent(c, d) \in AlertRows /\ ~CreateForEvent(c, d).hidden /\ CreateForEvent(c, d).event = event
          /\ CreateForEvent(c, d).id = id
      BY <2>1, <2>2, <2>3 DEF AlertRows
    <2> QED
      BY <2>1, <2>4, <2>5 DEF event
  <1>10. \A e \in EventsOf(d) : \E c \in Unseen(d) : e = EventOf(c, d)
    BY DEF EventsOf
  <1>11. \A a \in AlertsOf(d) : \E c \in Alerted(d) : a = CreateForEvent(c, d)
    BY DEF AlertsOf
  <1>12. \A e \in EventsOf(d) : e \in EventRows /\ ~e.hidden /\ e.document = d.id /\ e.company \in RowIds(companies)
    BY <1>8, <1>10
  <1>13. \A a \in AlertsOf(d) : a \in AlertRows /\ ~a.hidden /\ a.event \in RowIds(EventsOf(d))
    <2> SUFFICES ASSUME NEW c \in Alerted(d)
                 PROVE  EventOf(c, d).id \in RowIds(EventsOf(d))
      BY <1>9, <1>11
    <2> QED
      BY <1>1 DEF RowIds, EventsOf
  <1>14. \A a \in AlertsOf(d) : \A b \in alerts : a.id # b.id
    <2> SUFFICES ASSUME NEW c \in Alerted(d), NEW b \in alerts
                 PROVE  CreateForEvent(c, d).id # b.id
      BY <1>11
    <2> QED
      BY <1>7, <1>9
  <1>15. UniqueIds(AlertsOf(d))
    <2> SUFFICES ASSUME NEW c \in Alerted(d), NEW b \in Alerted(d), CreateForEvent(c, d).id = CreateForEvent(b, d).id
                 PROVE  c = b
      BY <1>11 DEF UniqueIds
    <2>1. Before(c, Alerted(d)) \in Nat /\ Before(b, Alerted(d)) \in Nat
      BY <1>5
    <2>2. NextId(alerts) + Before(c, Alerted(d)) = NextId(alerts) + Before(b, Alerted(d))
      BY <1>9
    <2>3. Before(c, Alerted(d)) = Before(b, Alerted(d))
      BY <1>7, <2>1, <2>2
    <2> QED
      BY <1>5, <2>3
  <1>16. Bounded(events \cup EventsOf(d))
    <2>1. NextId(events) + many \in Nat /\ \A e \in events : e.id <= NextId(events) + many
      BY <1>3, <1>6
    <2>2. \A e \in EventsOf(d) : e.id \in Nat /\ e.id <= NextId(events) + many
      BY <1>8, <1>10
    <2> QED
      BY <2>1, <2>2 DEF Bounded
  <1>17. Bounded(alerts \cup AlertsOf(d))
    <2>1. NextId(alerts) + few \in Nat /\ \A a \in alerts : a.id <= NextId(alerts) + few
      BY <1>3, <1>7
    <2>2. \A a \in AlertsOf(d) : a.id \in Nat /\ a.id <= NextId(alerts) + few
      BY <1>9, <1>11
    <2> QED
      BY <2>1, <2>2 DEF Bounded
  <1> QED
    BY <1>1, <1>12, <1>13, <1>14, <1>15, <1>16, <1>17

(* Rows are added for a document that is stored, or was before. *)
LEMMA RowsMadeStep ==
  ASSUME TableRowsInv, NEW d \in DocumentRows,
         documents' = documents \cup {d}, UniqueIds(documents'), Bounded(documents'),
         d \in documents \/ d.known = {k.who : k \in companies},
         events' = events \cup EventsOf(d), alerts' = alerts \cup AlertsOf(d),
         GivesIds(EventsOf(d), AlertsOf(d)), UNCHANGED <<companies, bin, purged>>
  PROVE  TableRowsInv'
  <1>1. d.id \in Nat /\ d.id \in RowIds(documents') /\ TablesInv
    BY DEF DocumentRows, RowIds, TableRowsInv
  <1>2. /\ \A c \in Unseen(d) : c \in companies
        /\ \A e \in EventsOf(d) : e \in EventRows /\ ~e.hidden /\ e.document = d.id /\ e.company \in RowIds(companies)
        /\ \A a \in AlertsOf(d) : a \in AlertRows /\ ~a.hidden /\ a.event \in RowIds(EventsOf(d))
        /\ \A a \in AlertsOf(d) : \A b \in alerts : a.id # b.id
        /\ UniqueIds(AlertsOf(d))
        /\ Bounded(events \cup EventsOf(d)) /\ Bounded(alerts \cup AlertsOf(d))
    BY <1>1, MadeHolds
  <1>3. TablesInv'
    <2>1. /\ companies' \subseteq CompanyRows /\ documents' \subseteq DocumentRows /\ events' \subseteq EventRows
          /\ alerts' \subseteq AlertRows /\ bin' \subseteq BinRows /\ IsFiniteSet(companies')
      BY <1>1, <1>2 DEF TablesInv
    <2>2. Bounded(companies)' /\ Bounded(documents)' /\ Bounded(events)' /\ Bounded(alerts)'
      BY <1>1, <1>2 DEF TablesInv, Bounded
    <2>3. UniqueIds(companies)' /\ UniqueIds(documents)' /\ UniqueIds(alerts)'
      BY <1>1, <1>2 DEF TablesInv, UniqueIds
    <2>4. /\ RowIds(companies') = RowIds(companies) /\ RowIds(documents) \subseteq RowIds(documents')
          /\ RowIds(events) \subseteq RowIds(events') /\ RowIds(EventsOf(d)) \subseteq RowIds(events')
      BY DEF RowIds
    <2>5. \A e \in events' : e.company \in RowIds(companies') /\ e.document \in RowIds(documents')
      BY <1>1, <1>2, <2>4 DEF TablesInv
    <2>6. \A a \in alerts' : a.event \in RowIds(events')
      BY <1>1, <1>2, <2>4 DEF TablesInv
    <2>7. /\ RowIds(companies)' = RowIds(companies') /\ RowIds(documents)' = RowIds(documents')
          /\ RowIds(events)' = RowIds(events')
      BY DEF RowIds
    <2> QED
      BY <2>1, <2>2, <2>3, <2>5, <2>6, <2>7 DEF TablesInv
  <1>4. LinkedBelong'
    <2> SUFFICES ASSUME reused' = {}, NEW i \in bin, NEW a \in alerts', i.type = "event", a.id \in i.linked
                 PROVE  a.event = i.entity
      BY DEF LinkedBelong
    <2>1. reused = {} /\ {<<"alert", b.id>> : b \in AlertsOf(d)} \cap EverUsed = {}
      BY DEF GivesIds
    <2>2. a \notin AlertsOf(d)
      <3>1. <<"alert", a.id>> \in EverUsed
        BY DEF EverUsed
      <3> QED
        BY <2>1, <3>1
    <2> QED
      BY <2>1, <2>2 DEF TableRowsInv, LinkedBelong
  <1>5. HiddenEventsKept'
    BY <1>2 DEF TableRowsInv, HiddenEventsKept
  <1>6. HiddenAlertsKept'
    BY <1>2 DEF TableRowsInv, HiddenAlertsKept
  <1>7. ShownTogether'
    <2> SUFFICES ASSUME reused' = {}, NEW a \in alerts', ~a.hidden
                 PROVE  \E e \in events' : ~e.hidden /\ e.id = a.event
      BY DEF ShownTogether, ShownAlerts, ShownEvents, RowIds
    <2>1. CASE a \in alerts
      BY <2>1 DEF TableRowsInv, ShownTogether, ShownAlerts, ShownEvents, RowIds, GivesIds
    <2>2. CASE a \in AlertsOf(d)
      <3>1. PICK e \in EventsOf(d) : e.id = a.event
        BY <1>2, <2>2, IdOfRow
      <3> QED
        BY <1>2, <3>1
    <2> QED
      BY <2>1, <2>2
  <1>8. DocumentsAccounted'
    <2>1. ASSUME NEW f \in documents', NEW who \in f.known \cap Mentions[f.content], <<f.content, who>> \notin purged
          PROVE  \E e \in events' : e.document = f.id /\ RowWith(companies, e.company).who = who
      <3>1. CASE f \in documents
        BY <2>1, <3>1 DEF TableRowsInv, DocumentsAccounted
      <3>2. CASE f = d /\ d.known = {k.who : k \in companies}
        <4>1. PICK k \in companies : k.who = who
          BY <2>1, <3>2
        <4>2. RowWith(companies, k.id) = k
          BY <1>1, RowWithHolds DEF TablesInv
        <4>3. k \in MatchDocument(d.content)
          BY <2>1, <3>2, <4>1 DEF MatchDocument
        <4>4. CASE FindExisting(k, d)
          <5>1. PICK e \in events : e.company = k.id /\ e.document = d.id
            BY <4>4 DEF FindExisting, ShownEvents
          <5> QED
            BY <3>2, <4>1, <4>2, <5>1
        <4>5. CASE ~FindExisting(k, d)
          <5>1. EventOf(k, d) \in events'
            BY <4>3, <4>5 DEF Unseen, EventsOf
          <5>2. EventOf(k, d).company = k.id /\ EventOf(k, d).document = d.id
            BY DEF EventOf
          <5> QED
            BY <3>2, <4>1, <4>2, <5>1, <5>2
        <4> QED
          BY <4>4, <4>5
      <3> QED
        BY <3>1, <3>2
    <2>2. companies' = companies /\ purged' = purged
      OBVIOUS
    <2>3. \A f \in documents' : \A who \in f.known \cap Mentions[f.content] :
               \/ <<f.content, who>> \in purged'
               \/ \E e \in events' : e.document = f.id /\ RowWith(companies', e.company).who = who
      BY ONLY <2>1, <2>2
    <2> QED
      BY ONLY <2>3 DEF DocumentsAccounted
  <1> QED
    BY <1>3, <1>4, <1>5, <1>6, <1>7, <1>8 DEF TableRowsInv

LEMMA ExtractEventsStep ==
  ASSUME TableRowsInv, NEW d \in documents, ExtractEvents(d)
  PROVE  TableRowsInv'
  <1>1. /\ documents' = documents /\ documents' = documents \cup {d} /\ d \in DocumentRows
        /\ events' = events \cup EventsOf(d) /\ alerts' = alerts \cup AlertsOf(d)
        /\ GivesIds(EventsOf(d), AlertsOf(d)) /\ UNCHANGED <<companies, bin, purged>>
    BY DEF ExtractEvents, TableRowsInv, TablesInv
  <1>2. UniqueIds(documents') /\ Bounded(documents')
    BY <1>1 DEF TableRowsInv, TablesInv
  <1> QED
    BY <1>1, <1>2, RowsMadeStep

(* No table of events and documents is changed. *)
LEMMA RowsStay ==
  ASSUME TableRowsInv, UNCHANGED <<companies, documents, events, alerts, bin, purged, reused>>
  PROVE  TableRowsInv'
  <1>1. bin' = bin /\ bin \subseteq BinRows
    BY DEF TableRowsInv, TablesInv
  <1>2. \A i \in bin' : i.type # "watchlist_company" => i \in bin
    BY <1>1
  <1>3. \A i \in bin : i.type # "watchlist_company" => i \in bin'
    BY <1>1
  <1> QED
    BY <1>1, <1>2, <1>3, OtherItemsStep

-----------------------------------------------------------------------------
(* The monitoring database: ingestions.                                    *)

ThreadStates == [at: {"idle", "next", "fetch", "store", "failed"}, todo: Seq(Sources), run: Nat, yield: SUBSET Contents]

(* A run has an id from 1 on, and an ingestion between two runs has none.  *)
ThreadsBelong ==
    /\ runs \subseteq RunRows /\ Bounded(runs) /\ \A r \in runs : r.id >= 1
    /\ enabled \subseteq sources /\ sources \subseteq Sources
    /\ thread \in [MonitorThreads -> ThreadStates] /\ {overlapped, interrupted} \subseteq BOOLEAN
    /\ \A t \in MonitorThreads :
         /\ thread[t].at \in {"idle", "next"} => thread[t].run = 0
         /\ thread[t].at \in {"fetch", "store", "failed"} => thread[t].todo # <<>>
         /\ \A c, e \in thread[t].yield : c = e

(* Until two overlap, what an ingestion is about to store is not there.    *)
StoresUnknown ==
    ~overlapped =>
      /\ \A d, f \in documents : d.content = f.content => d = f
      /\ \A t \in MonitorThreads : thread[t].at = "store" =>
           /\ \A c \in thread[t].yield : ~Stored(c)
           /\ \A u \in MonitorThreads : thread[u].at = "store" => u = t

RunsAwaited ==
    ~interrupted => \A r \in runs : r.status = "running" =>
                      \E t \in MonitorThreads : thread[t].run = r.id /\ thread[t].at # "idle"

ThreadsInv == ThreadsBelong /\ StoresUnknown /\ RunsAwaited

LEMMA InitThreads == MonitorInit => ThreadsInv
  <1> SUFFICES ASSUME MonitorInit
               PROVE  ThreadsInv
    OBVIOUS
  <1>1. /\ documents = {} /\ runs = {} /\ sources = Sources /\ enabled = Sources
        /\ thread = [t \in MonitorThreads |-> NoIngestion] /\ overlapped = FALSE /\ interrupted = FALSE
    BY DEF MonitorInit
  <1>2. NoIngestion \in ThreadStates /\ NoIngestion.at = "idle" /\ NoIngestion.run = 0 /\ NoIngestion.yield = {}
    BY DEF NoIngestion, ThreadStates
  <1>3. Bounded({})
    BY DEF Bounded
  <1>4. thread \in [MonitorThreads -> ThreadStates] /\ \A t \in MonitorThreads : thread[t] = NoIngestion
    BY <1>1, <1>2
  <1> QED
    BY <1>1, <1>2, <1>3, <1>4 DEF ThreadsInv, ThreadsBelong, StoresUnknown, RunsAwaited

(* What the user does to companies, events and alerts leaves them alone.   *)
LEMMA ThreadsStay ==
  ASSUME ThreadsInv, UNCHANGED <<documents, sources, enabled, runs, thread, overlapped, interrupted>>
  PROVE  ThreadsInv'
  BY DEF ThreadsInv, ThreadsBelong, StoresUnknown, RunsAwaited, Bounded, Stored

(* The sources of the user. *)
LEMMA SourcesPageThreads ==
  ASSUME ThreadsInv, NEW s \in sources, DeleteSource(s) \/ ToggleSource(s)
  PROVE  ThreadsInv'
  <1>1. /\ documents' = documents /\ thread' = thread /\ overlapped' = overlapped
        /\ runs' \subseteq runs /\ interrupted' \in BOOLEAN /\ (interrupted => interrupted')
        /\ enabled' \subseteq sources' /\ sources' \subseteq Sources
    <2>1. CASE DeleteSource(s)
      <3>1. /\ documents' = documents /\ thread' = thread /\ overlapped' = overlapped
            /\ sources' = sources \ {s} /\ enabled' = enabled \ {s} /\ runs' = {r \in runs : r.source # s}
        BY <2>1 DEF DeleteSource
      <3>2. interrupted' \in BOOLEAN /\ (interrupted => interrupted')
        BY <2>1 DEF DeleteSource
      <3> QED
        BY <3>1, <3>2 DEF ThreadsInv, ThreadsBelong
    <2>2. CASE ToggleSource(s)
      <3>1. /\ documents' = documents /\ thread' = thread /\ overlapped' = overlapped /\ interrupted' = interrupted
            /\ sources' = sources /\ runs' = runs
            /\ enabled' = IF s \in enabled THEN enabled \ {s} ELSE enabled \cup {s}
        BY <2>2 DEF ToggleSource, BinUnchanged
      <3> QED
        BY <3>1 DEF ThreadsInv, ThreadsBelong
    <2> QED
      BY <2>1, <2>2
  <1>2. ThreadsBelong'
    <2>1. runs' \subseteq RunRows /\ Bounded(runs)' /\ \A r \in runs' : r.id >= 1
      BY <1>1 DEF ThreadsInv, ThreadsBelong, Bounded
    <2> QED
      BY <1>1, <2>1 DEF ThreadsInv, ThreadsBelong
  <1>3. StoresUnknown'
    BY <1>1 DEF ThreadsInv, StoresUnknown, Stored
  <1>4. RunsAwaited'
    BY <1>1 DEF ThreadsInv, RunsAwaited
  <1> QED
    BY <1>2, <1>3, <1>4 DEF ThreadsInv

(* One ingestion takes a step: what it stores are contents no document     *)
(* has, and the runs it leaves as running it does not leave.               *)
StateBelongs(to) ==
    /\ to \in ThreadStates
    /\ to.at \in {"idle", "next"} => to.run = 0
    /\ to.at \in {"fetch", "store", "failed"} => to.todo # <<>>
    /\ \A c, e \in to.yield : c = e

KeepsContents(t, to) ==
    /\ overlapped' \in BOOLEAN /\ (overlapped => overlapped')
    /\ documents' = documents \/ (thread[t].at = "store" /\ to.at # "store")
    /\ ~overlapped' => \A d, f \in documents' : d.content = f.content => d = f
    /\ to.at = "store" => /\ \A c \in to.yield : ~Stored(c)
                          /\ overlapped' \/ \A u \in MonitorThreads \ {t} : thread[u].at # "store"

KeepsRuns(t, to) ==
    /\ runs' \subseteq RunRows /\ Bounded(runs')
    /\ \A r \in runs' : r.id >= 1
    /\ \A r \in runs' : r.status = "running" =>
         \/ r \in runs /\ thread[t].run # r.id
         \/ to.run = r.id /\ to.at # "idle"

LEMMA OneThreadMoves ==
  ASSUME ThreadsInv, NEW t \in MonitorThreads, NEW to, thread' = [thread EXCEPT ![t] = to],
         UNCHANGED <<sources, enabled, interrupted>>, StateBelongs(to), KeepsContents(t, to), KeepsRuns(t, to)
  PROVE  ThreadsInv'
  <1>1. /\ thread \in [MonitorThreads -> ThreadStates] /\ thread' \in [MonitorThreads -> ThreadStates]
        /\ thread'[t] = to /\ \A u \in MonitorThreads \ {t} : thread'[u] = thread[u]
    BY DEF ThreadsInv, ThreadsBelong, StateBelongs
  <1>2. ThreadsBelong'
    <2>1. \A u \in MonitorThreads :
            /\ thread'[u].at \in {"idle", "next"} => thread'[u].run = 0
            /\ thread'[u].at \in {"fetch", "store", "failed"} => thread'[u].todo # <<>>
            /\ \A c, e \in thread'[u].yield : c = e
      <3> SUFFICES ASSUME NEW u \in MonitorThreads
                   PROVE  /\ thread'[u].at \in {"idle", "next"} => thread'[u].run = 0
                          /\ thread'[u].at \in {"fetch", "store", "failed"} => thread'[u].todo # <<>>
                          /\ \A c, e \in thread'[u].yield : c = e
        OBVIOUS
      <3>1. CASE u = t
        BY <1>1, <3>1 DEF StateBelongs
      <3>2. CASE u # t
        BY <1>1, <3>2 DEF ThreadsInv, ThreadsBelong
      <3> QED
        BY <3>1, <3>2
    <2>2. Bounded(runs)'
      BY DEF Bounded, KeepsRuns
    <2>3. /\ runs' \subseteq RunRows /\ \A r \in runs' : r.id >= 1
          /\ enabled' \subseteq sources' /\ sources' \subseteq Sources
          /\ {overlapped', interrupted'} \subseteq BOOLEAN
      BY DEF ThreadsInv, ThreadsBelong, KeepsRuns, KeepsContents
    <2> QED
      BY <1>1, <2>1, <2>2, <2>3 DEF ThreadsBelong
  <1>3. StoresUnknown'
    <2> SUFFICES ASSUME ~overlapped'
                 PROVE  \A u \in MonitorThreads : thread'[u].at = "store" =>
                          /\ \A c \in thread'[u].yield : ~Stored(c)'
                          /\ \A v \in MonitorThreads : thread'[v].at = "store" => v = u
      BY DEF StoresUnknown, KeepsContents
    <2>1. \A u \in MonitorThreads : thread[u].at = "store" =>
            /\ \A c \in thread[u].yield : ~Stored(c)
            /\ \A v \in MonitorThreads : thread[v].at = "store" => v = u
      BY DEF ThreadsInv, StoresUnknown, KeepsContents
    <2>2. ASSUME NEW u \in MonitorThreads, thread'[u].at = "store"
          PROVE  \A c \in thread'[u].yield : ~Stored(c)'
      <3>1. documents' = documents
        BY <1>1, <2>1, <2>2 DEF KeepsContents
      <3>2. \A c \in thread'[u].yield : ~Stored(c)
        BY <1>1, <2>1, <2>2 DEF KeepsContents
      <3> QED
        BY <3>1, <3>2 DEF Stored
    <2>3. ASSUME NEW u \in MonitorThreads, thread'[u].at = "store", NEW v \in MonitorThreads, thread'[v].at = "store"
          PROVE  u = v
      BY <1>1, <2>1, <2>3 DEF KeepsContents
    <2> QED
      BY <2>2, <2>3
  <1>4. RunsAwaited'
    <2> SUFFICES ASSUME ~interrupted, NEW r \in runs', r.status = "running"
                 PROVE  \E u \in MonitorThreads : thread'[u].run = r.id /\ thread'[u].at # "idle"
      BY DEF RunsAwaited
    <2>0. \/ r \in runs /\ thread[t].run # r.id
          \/ to.run = r.id /\ to.at # "idle"
      BY DEF KeepsRuns
    <2>1. CASE r \in runs /\ thread[t].run # r.id
      <3>1. PICK u \in MonitorThreads : thread[u].run = r.id /\ thread[u].at # "idle"
        BY <2>1 DEF ThreadsInv, RunsAwaited
      <3> QED
        BY <1>1, <2>1, <3>1
    <2>2. CASE to.run = r.id /\ to.at # "idle"
      BY <1>1, <2>2
    <2> QED
      BY <2>0, <2>1, <2>2
  <1> QED
    BY <1>2, <1>3, <1>4 DEF ThreadsInv

LEMMA ContentsStay ==
  ASSUME ThreadsInv, NEW t \in MonitorThreads, NEW to, documents' = documents, overlapped' = overlapped, to.at # "store"
  PROVE  KeepsContents(t, to)
  BY DEF ThreadsInv, ThreadsBelong, StoresUnknown, KeepsContents

LEMMA RunsStay ==
  ASSUME ThreadsInv, NEW t \in MonitorThreads, NEW to, runs' = runs,
         thread[t].run = 0 \/ (to.run = thread[t].run /\ to.at # "idle")
  PROVE  KeepsRuns(t, to)
  <1>1. \A r \in runs : r \in RunRows /\ r.id >= 1 /\ r.id # 0
    BY DEF ThreadsInv, ThreadsBelong, RunRows
  <1>2. runs' \subseteq RunRows /\ Bounded(runs') /\ \A r \in runs' : r.id >= 1
    BY DEF ThreadsInv, ThreadsBelong
  <1>3. \A r \in runs' : \/ r \in runs /\ thread[t].run # r.id
                         \/ to.run = r.id /\ to.at # "idle"
    BY <1>1
  <1> QED
    BY <1>2, <1>3 DEF KeepsRuns

(* A run of that id has ended, whatever it was. *)
LEMMA FinishRunHolds ==
  ASSUME ThreadsInv, NEW t \in MonitorThreads, NEW status \in {"success", "failed"}, FinishRun(t, status), NEW to
  PROVE  KeepsRuns(t, to)
  <1> DEFINE Ended(r) == [r EXCEPT !.status = status]
  <1>1. runs' = {IF r.id = thread[t].run THEN Ended(r) ELSE r : r \in runs}
    BY DEF FinishRun
  <1>2. \A r \in runs : r \in RunRows /\ Ended(r) \in RunRows /\ Ended(r).id = r.id /\ Ended(r).status # "running"
    BY DEF ThreadsInv, ThreadsBelong, RunRows
  <1> HIDE DEF Ended
  <1>3. \A r \in runs' : \E b \in runs : r.id = b.id
    BY <1>1, <1>2
  <1>4. Bounded(runs')
    BY <1>3 DEF ThreadsInv, ThreadsBelong, Bounded
  <1>5. \A r \in runs' : r.id >= 1
    BY <1>3 DEF ThreadsInv, ThreadsBelong
  <1>6. runs' \subseteq RunRows /\ \A r \in runs' : r.status = "running" => r \in runs /\ thread[t].run # r.id
    BY <1>1, <1>2
  <1> QED
    BY <1>4, <1>5, <1>6 DEF KeepsRuns

LEMMA IdleBelongs == StateBelongs(NoIngestion) /\ NoIngestion.at = "idle" /\ NoIngestion.run = 0
  <1>1. /\ NoIngestion \in ThreadStates /\ NoIngestion.at = "idle" /\ NoIngestion.run = 0 /\ NoIngestion.yield = {}
    BY DEF NoIngestion, ThreadStates
  <1> QED
    BY <1>1 DEF StateBelongs

LEMMA NextBelongs ==
  ASSUME NEW order \in Seq(Sources)
  PROVE  LET to == [NoIngestion EXCEPT !.at = "next", !.todo = order] IN
           StateBelongs(to) /\ to.at = "next" /\ to.run = 0
  <1> DEFINE to == [NoIngestion EXCEPT !.at = "next", !.todo = order]
  <1>1. to \in ThreadStates /\ to.at = "next" /\ to.run = 0 /\ to.yield = {}
    BY DEF NoIngestion, ThreadStates
  <1> HIDE DEF to
  <1>2. StateBelongs(to) /\ to.at = "next" /\ to.run = 0
    BY <1>1 DEF StateBelongs
  <1> QED
    BY <1>2 DEF to

(* The run fails, or is about to. *)
LEMMA FailingBelongs ==
  ASSUME ThreadsInv, NEW t \in MonitorThreads, thread[t].at \in {"fetch", "store"}
  PROVE  LET to == [thread[t] EXCEPT !.at = "failed"] IN
           StateBelongs(to) /\ to.at = "failed" /\ to.run = thread[t].run
  <1> DEFINE to == [thread[t] EXCEPT !.at = "failed"]
  <1>1. thread[t] \in ThreadStates /\ thread[t].todo # <<>> /\ \A c, e \in thread[t].yield : c = e
    BY DEF ThreadsInv, ThreadsBelong
  <1>2. /\ to \in ThreadStates /\ to.at = "failed" /\ to.run = thread[t].run /\ to.yield = thread[t].yield
        /\ to.todo = thread[t].todo
    BY <1>1 DEF ThreadStates
  <1> HIDE DEF to
  <1>3. StateBelongs(to) /\ to.at = "failed" /\ to.run = thread[t].run
    BY <1>1, <1>2 DEF StateBelongs
  <1> QED
    BY <1>3 DEF to

LEMMA FailingStep ==
  ASSUME ThreadsInv, NEW t \in MonitorThreads, thread[t].at \in {"fetch", "store"},
         thread' = [thread EXCEPT ![t].at = "failed"],
         UNCHANGED <<documents, sources, enabled, runs, overlapped, interrupted>>
  PROVE  ThreadsInv'
  <1> DEFINE to == [thread[t] EXCEPT !.at = "failed"]
  <1>1. StateBelongs(to) /\ to.at = "failed" /\ to.run = thread[t].run
    BY FailingBelongs
  <1>2. thread' = [thread EXCEPT ![t] = to]
    BY DEF ThreadsInv, ThreadsBelong
  <1> HIDE DEF to
  <1>3. KeepsContents(t, to)
    BY <1>1, ContentsStay
  <1>4. KeepsRuns(t, to)
    BY <1>1, RunsStay
  <1> QED
    BY <1>1, <1>2, <1>3, <1>4, OneThreadMoves

LEMMA IngestsStep ==
  ASSUME ThreadsInv, NEW t \in MonitorThreads, NEW some \in SUBSET sources, Ingests(t, some)
  PROVE  ThreadsInv'
  <1>1. IsFiniteSet(some)
    BY MonitorAssumption, FS_Subset DEF ThreadsInv, ThreadsBelong
  <1>2. Cardinality(some) \in Nat
    BY <1>1, FS_CardinalityType
  <1>3. /\ thread[t].at = "idle" /\ runs' = runs
        /\ UNCHANGED <<documents, sources, enabled, overlapped, interrupted>>
    BY DEF Ingests, RowsUnchanged
  <1>4. PICK order \in [1..Cardinality(some) -> some] :
           thread' = [thread EXCEPT ![t] = [NoIngestion EXCEPT !.at = "next", !.todo = order]]
    BY DEF Ingests
  <1>5. order \in Seq(Sources)
    BY <1>2 DEF ThreadsInv, ThreadsBelong
  <1> DEFINE to == [NoIngestion EXCEPT !.at = "next", !.todo = order]
  <1>6. StateBelongs(to) /\ to.at = "next" /\ to.run = 0
    BY <1>5, NextBelongs
  <1>7. thread' = [thread EXCEPT ![t] = to]
    BY <1>4
  <1> HIDE DEF to
  <1>8. KeepsContents(t, to)
    BY <1>3, <1>6, ContentsStay
  <1>9. thread[t].run = 0
    BY <1>3 DEF ThreadsInv, ThreadsBelong
  <1>10. KeepsRuns(t, to)
    BY <1>3, <1>9, RunsStay
  <1> QED
    BY <1>3, <1>6, <1>7, <1>8, <1>10, OneThreadMoves

LEMMA CreateRunStep ==
  ASSUME ThreadsInv, NEW t \in MonitorThreads, CreateRun(t)
  PROVE  ThreadsInv'
  <1>1. /\ thread[t].at = "next" /\ thread[t] \in ThreadStates /\ thread[t].run = 0
        /\ \A c, e \in thread[t].yield : c = e
        /\ UNCHANGED <<documents, sources, enabled, overlapped, interrupted>>
    BY DEF CreateRun, RowsUnchanged, ThreadsInv, ThreadsBelong
  <1>2. CASE thread' = [thread EXCEPT ![t] = NoIngestion] /\ runs' = runs
    <2>1. KeepsContents(t, NoIngestion)
      BY <1>1, IdleBelongs, ContentsStay
    <2>2. KeepsRuns(t, NoIngestion)
      BY <1>1, <1>2, RunsStay
    <2> QED
      BY <1>1, <1>2, <2>1, <2>2, IdleBelongs, OneThreadMoves
  <1>3. ASSUME thread[t].todo # <<>>, Head(thread[t].todo) \in sources,
               runs' = runs \cup {[id |-> NextId(runs), source |-> Head(thread[t].todo), status |-> "running"]},
               thread' = [thread EXCEPT ![t].at = "fetch", ![t].run = NextId(runs)]
        PROVE  ThreadsInv'
    <2>1. runs \subseteq RunRows /\ Bounded(runs) /\ \A r \in runs : r.id \in Nat /\ r.id >= 1 /\ r.id # 0
      BY DEF ThreadsInv, ThreadsBelong, RunRows
    <2>2. NextId(runs) \in Nat /\ NextId(runs) >= 1 /\ \A r \in runs : r.id < NextId(runs)
      BY <2>1, NextIdHolds
    <2> DEFINE to == [thread[t] EXCEPT !.at = "fetch", !.run = NextId(runs)]
               row == [id |-> NextId(runs), source |-> Head(thread[t].todo), status |-> "running"]
    <2>3. /\ to \in ThreadStates /\ to.at = "fetch" /\ to.run = NextId(runs) /\ to.yield = thread[t].yield
          /\ to.todo = thread[t].todo
      BY <1>1, <2>2 DEF ThreadStates
    <2>4. row \in RunRows /\ row.id = NextId(runs) /\ runs' = runs \cup {row}
      BY <1>3, <2>2 DEF RunRows, ThreadsInv, ThreadsBelong
    <2>5. thread' = [thread EXCEPT ![t] = to]
      BY <1>3 DEF ThreadsInv, ThreadsBelong
    <2> HIDE DEF to, row
    <2>6. runs' \subseteq RunRows /\ \A r \in runs' : r.id \in Nat /\ r.id <= NextId(runs) /\ r.id >= 1
      BY <2>1, <2>2, <2>4
    <2>7. Bounded(runs')
      BY <2>2, <2>6, BoundedWith
    <2>8. \A r \in runs' : \/ r \in runs /\ thread[t].run # r.id
                           \/ to.run = r.id /\ to.at # "idle"
      <3> SUFFICES ASSUME NEW r \in runs'
                   PROVE  \/ r \in runs /\ thread[t].run # r.id
                          \/ to.run = r.id /\ to.at # "idle"
        OBVIOUS
      <3>1. CASE r \in runs
        BY <1>1, <2>1, <3>1
      <3>2. CASE r = row
        BY <2>3, <2>4, <3>2
      <3> QED
        BY <2>4, <3>1, <3>2
    <2>9. KeepsRuns(t, to)
      BY <2>6, <2>7, <2>8 DEF KeepsRuns
    <2>10. StateBelongs(to)
      BY <1>1, <1>3, <2>3 DEF StateBelongs
    <2>11. KeepsContents(t, to)
      BY <1>1, <2>3, ContentsStay
    <2> QED
      BY <1>1, <2>5, <2>9, <2>10, <2>11, OneThreadMoves
  <1> QED
    BY <1>2, <1>3 DEF CreateRun

LEMMA FetchDocumentsStep ==
  ASSUME ThreadsInv, NEW t \in MonitorThreads, FetchDocuments(t)
  PROVE  ThreadsInv'
  <1>1. /\ thread[t].at = "fetch" /\ thread[t] \in ThreadStates /\ thread[t].todo # <<>>
        /\ UNCHANGED <<documents, sources, enabled, runs, interrupted>> /\ overlapped \in BOOLEAN
    BY DEF FetchDocuments, RowsUnchanged, ThreadsInv, ThreadsBelong
  <1>2. ASSUME NEW c \in Contents, thread' = [thread EXCEPT ![t].at = "store", ![t].yield = Unknown({c})],
               overlapped' = (overlapped \/ \E u \in MonitorThreads \ {t} : thread[u].at = "store")
        PROVE  ThreadsInv'
    <2> DEFINE to == [thread[t] EXCEPT !.at = "store", !.yield = Unknown({c})]
    <2>1. Unknown({c}) \in SUBSET Contents /\ \A x \in Unknown({c}) : x = c /\ ~Stored(x)
      BY DEF Unknown
    <2>2. /\ to \in ThreadStates /\ to.at = "store" /\ to.run = thread[t].run /\ to.yield = Unknown({c})
          /\ to.todo = thread[t].todo
      BY <1>1, <2>1 DEF ThreadStates
    <2>3. thread' = [thread EXCEPT ![t] = to]
      BY <1>2 DEF ThreadsInv, ThreadsBelong
    <2> HIDE DEF to
    <2>4. /\ overlapped' \in BOOLEAN /\ (overlapped => overlapped')
          /\ overlapped' \/ \A u \in MonitorThreads \ {t} : thread[u].at # "store"
      BY <1>1, <1>2
    <2>5. ~overlapped' => \A d, f \in documents' : d.content = f.content => d = f
      BY <1>1, <2>4 DEF ThreadsInv, StoresUnknown
    <2>6. \A x \in to.yield : ~Stored(x)
      BY <2>1, <2>2
    <2>7. KeepsContents(t, to)
      BY <1>1, <2>4, <2>5, <2>6 DEF KeepsContents
    <2>8. KeepsRuns(t, to)
      BY <1>1, <2>2, RunsStay
    <2>9. \A x, y \in to.yield : x = y
      BY <2>1, <2>2
    <2>10. to.at \notin {"idle", "next"} /\ to.todo # <<>>
      BY <1>1, <2>2
    <2>11. StateBelongs(to)
      BY <2>2, <2>9, <2>10 DEF StateBelongs
    <2> QED
      BY <1>1, <2>3, <2>7, <2>8, <2>11, OneThreadMoves
  <1>3. CASE thread' = [thread EXCEPT ![t].at = "failed"] /\ overlapped' = overlapped
    BY <1>1, <1>3, FailingStep
  <1> QED
    BY <1>2, <1>3 DEF FetchDocuments

(* The document an ingestion stores is new, and it brings one at most.     *)
LEMMA BroughtHolds ==
  ASSUME TablesInv, ThreadsBelong, NEW t \in MonitorThreads
  PROVE  \/ Brought(t) = {} /\ thread[t].yield = {}
         \/ \E d \in DocumentRows : /\ Brought(t) = {d} /\ d.content \in thread[t].yield
                                    /\ d.known = {k.who : k \in companies}
                                    /\ d.id = NextId(documents)
  <1>1. thread[t].yield \in SUBSET Contents /\ \A c, e \in thread[t].yield : c = e
    BY DEF ThreadsBelong, ThreadStates
  <1>2. NextId(documents) \in Nat
    BY NextIdHolds DEF TablesInv, DocumentRows
  <1>3. {k.who : k \in companies} \in SUBSET {"k1", "k2"}
    BY DEF TablesInv, CompanyRows
  <1>4. CASE thread[t].yield = {}
    BY <1>4 DEF Brought
  <1>5. ASSUME NEW c \in thread[t].yield
        PROVE  \E d \in DocumentRows : /\ Brought(t) = {d} /\ d.content \in thread[t].yield
                                       /\ d.known = {k.who : k \in companies}
                                       /\ d.id = NextId(documents)
    <2> DEFINE known == {k.who : k \in companies}
               id == NextId(documents)
               d == [id |-> id, content |-> c, known |-> known]
    <2>1. thread[t].yield = {c} /\ c \in Contents
      BY <1>1
    <2>2. Brought(t) = {d}
      BY <2>1 DEF Brought
    <2>3. known \in SUBSET {"k1", "k2"} /\ id \in Nat
      BY <1>2, <1>3
    <2>4. id = NextId(documents) /\ known = {k.who : k \in companies}
      OBVIOUS
    <2> HIDE DEF known, id
    <2>5. d \in DocumentRows /\ d.content = c /\ d.known = known /\ d.id = id
      BY <2>1, <2>3 DEF DocumentRows
    <2> HIDE DEF d
    <2> QED
      BY <2>1, <2>2, <2>4, <2>5
  <1> QED
    BY <1>4, <1>5

LEMMA NextSourceBelongs ==
  ASSUME ThreadsInv, NEW t \in MonitorThreads, thread[t].at \in {"store", "failed"}
  PROVE  LET to == [NoIngestion EXCEPT !.at = "next", !.todo = Tail(thread[t].todo)] IN
           /\ StateBelongs(to) /\ to.at = "next" /\ to.run = 0
           /\ NextSource(t) = [thread EXCEPT ![t] = to]
  <1>1. thread[t].todo \in Seq(Sources) /\ thread[t].todo # <<>>
    BY DEF ThreadsInv, ThreadsBelong, ThreadStates
  <1>2. Tail(thread[t].todo) \in Seq(Sources)
    BY <1>1
  <1> QED
    BY <1>2, NextBelongs DEF NextSource

(* What the documents of an ingestion bring, when there is one, or none. *)
LEMMA StoreDocumentsStep ==
  ASSUME TableRowsInv, ThreadsInv, NEW t \in MonitorThreads, StoreDocuments(t)
  PROVE  TableRowsInv' /\ ThreadsInv'
  <1>1. /\ thread[t].at = "store" /\ UNCHANGED <<companies, bin, purged, sources, enabled, overlapped, interrupted>>
        /\ TablesInv /\ ThreadsBelong
    BY DEF StoreDocuments, RowsUnchanged, TableRowsInv, ThreadsInv
  <1>2. CASE thread' = [thread EXCEPT ![t].at = "failed"] /\ UNCHANGED <<documents, events, alerts, runs, reused>>
    BY <1>1, <1>2, FailingStep, RowsStay
  <1>3. ASSUME documents' = documents \cup Brought(t),
               events' = events \cup UNION {EventsOf(d) : d \in Brought(t)},
               alerts' = alerts \cup UNION {AlertsOf(d) : d \in Brought(t)},
               GivesIds(UNION {EventsOf(d) : d \in Brought(t)}, UNION {AlertsOf(d) : d \in Brought(t)}),
               FinishRun(t, "success"), thread' = NextSource(t)
        PROVE  TableRowsInv' /\ ThreadsInv'
    <2> DEFINE to == [NoIngestion EXCEPT !.at = "next", !.todo = Tail(thread[t].todo)]
    <2>1. StateBelongs(to) /\ to.at = "next" /\ to.run = 0 /\ NextSource(t) = [thread EXCEPT ![t] = to]
      BY <1>1, NextSourceBelongs
    <2> HIDE DEF to
    <2>2. KeepsRuns(t, to)
      BY <1>3, FinishRunHolds
    <2>3. overlapped' \in BOOLEAN /\ (overlapped => overlapped') /\ to.at # "store"
      BY <1>1, <2>1 DEF ThreadsBelong
    <2>4. CASE Brought(t) = {} /\ thread[t].yield = {}
      <3>1. UNION {EventsOf(d) : d \in Brought(t)} = {} /\ UNION {AlertsOf(d) : d \in Brought(t)} = {}
        BY <2>4
      <3>2. documents' = documents /\ events' = events /\ alerts' = alerts
        BY <1>3, <2>4, <3>1
      <3>3. reused' = reused
        BY ONLY <1>3, <3>1 DEF GivesIds
      <3>4. KeepsContents(t, to)
        BY <1>1, <2>3, <3>2, ContentsStay
      <3> QED
        BY <1>1, <1>3, <2>1, <2>2, <3>2, <3>3, <3>4, RowsStay, OneThreadMoves
    <2>5. ASSUME NEW d \in DocumentRows, Brought(t) = {d}, d.content \in thread[t].yield,
                 d.known = {k.who : k \in companies}, d.id = NextId(documents)
          PROVE  TableRowsInv' /\ ThreadsInv'
      <3>1. UNION {EventsOf(b) : b \in Brought(t)} = EventsOf(d) /\ UNION {AlertsOf(b) : b \in Brought(t)} = AlertsOf(d)
        BY <2>5
      <3>2. /\ documents' = documents \cup {d} /\ events' = events \cup EventsOf(d) /\ alerts' = alerts \cup AlertsOf(d)
            /\ GivesIds(EventsOf(d), AlertsOf(d))
        BY <1>3, <2>5, <3>1
      <3>3. NextId(documents) \in Nat /\ \A b \in documents : b.id \in Nat /\ b.id < NextId(documents)
        BY <1>1, NextIdHolds DEF TablesInv, DocumentRows
      <3>4. UniqueIds(documents')
        BY <1>1, <2>5, <3>2, <3>3 DEF TablesInv, UniqueIds
      <3>5. Bounded(documents')
        <4>1. \A b \in documents' : b.id \in Nat /\ b.id <= NextId(documents)
          BY <2>5, <3>2, <3>3
        <4> QED
          BY <3>3, <4>1, BoundedWith
      <3>6. TableRowsInv'
        BY <1>1, <2>5, <3>2, <3>4, <3>5, RowsMadeStep
      <3>7. ASSUME ~overlapped', NEW b \in documents', NEW f \in documents', b.content = f.content
            PROVE  b = f
        <4>1. /\ \A x, y \in documents : x.content = y.content => x = y
              /\ \A x \in documents : x.content # d.content
          BY <1>1, <2>5, <3>7 DEF ThreadsInv, StoresUnknown, Stored
        <4> QED
          BY <3>2, <3>7, <4>1
      <3>8. KeepsContents(t, to)
        BY <1>1, <2>3, <3>7 DEF KeepsContents
      <3>9. ThreadsInv'
        BY <1>1, <1>3, <2>1, <2>2, <3>8, OneThreadMoves
      <3> QED
        BY <3>6, <3>9
    <2> QED
      BY <1>1, <2>4, <2>5, BroughtHolds
  <1> QED
    BY <1>2, <1>3 DEF StoreDocuments

LEMMA NoteFailureStep ==
  ASSUME ThreadsInv, NEW t \in MonitorThreads, NoteFailure(t)
  PROVE  ThreadsInv'
  <1>1. /\ thread[t].at = "failed" /\ FinishRun(t, "failed")
        /\ UNCHANGED <<documents, sources, enabled, overlapped, interrupted>>
    BY DEF NoteFailure, RowsUnchanged
  <1>2. CASE thread' = NextSource(t)
    <2> DEFINE to == [NoIngestion EXCEPT !.at = "next", !.todo = Tail(thread[t].todo)]
    <2>1. StateBelongs(to) /\ to.at = "next" /\ NextSource(t) = [thread EXCEPT ![t] = to]
      BY <1>1, NextSourceBelongs
    <2> HIDE DEF to
    <2>2. KeepsRuns(t, to) /\ KeepsContents(t, to)
      BY <1>1, <2>1, FinishRunHolds, ContentsStay
    <2> QED
      BY <1>1, <1>2, <2>1, <2>2, OneThreadMoves
  <1>3. CASE thread' = [thread EXCEPT ![t] = NoIngestion]
    <2>1. KeepsRuns(t, NoIngestion) /\ KeepsContents(t, NoIngestion)
      BY <1>1, IdleBelongs, FinishRunHolds, ContentsStay
    <2> QED
      BY <1>1, <1>3, <2>1, IdleBelongs, OneThreadMoves
  <1> QED
    BY <1>2, <1>3 DEF NoteFailure

LEMMA MonitorEndsStep ==
  ASSUME ThreadsInv, MonitorEnds
  PROVE  ThreadsInv'
  <1>1. /\ thread' = [t \in MonitorThreads |-> NoIngestion] /\ interrupted' = TRUE
        /\ UNCHANGED <<documents, sources, enabled, runs, overlapped>>
    BY DEF MonitorEnds, tableVars
  <1>2. StateBelongs(NoIngestion) /\ NoIngestion.at = "idle"
    BY IdleBelongs
  <1>3. \A t \in MonitorThreads : thread'[t] = NoIngestion
    BY <1>1
  <1>4. ThreadsBelong'
    <2>1. thread' \in [MonitorThreads -> ThreadStates]
      BY <1>1, <1>2 DEF StateBelongs
    <2>2. \A t \in MonitorThreads :
            /\ thread'[t].at \in {"idle", "next"} => thread'[t].run = 0
            /\ thread'[t].at \in {"fetch", "store", "failed"} => thread'[t].todo # <<>>
            /\ \A c, e \in thread'[t].yield : c = e
      BY <1>2, <1>3 DEF StateBelongs
    <2>3. /\ runs' \subseteq RunRows /\ Bounded(runs)' /\ \A r \in runs' : r.id >= 1
          /\ enabled' \subseteq sources' /\ sources' \subseteq Sources /\ {overlapped', interrupted'} \subseteq BOOLEAN
      BY <1>1 DEF ThreadsInv, ThreadsBelong, Bounded
    <2> QED
      BY <2>1, <2>2, <2>3 DEF ThreadsBelong
  <1>5. StoresUnknown'
    BY <1>1, <1>2, <1>3 DEF ThreadsInv, StoresUnknown
  <1>6. RunsAwaited'
    BY <1>1 DEF RunsAwaited
  <1> QED
    BY <1>4, <1>5, <1>6 DEF ThreadsInv

MonitorInv == TableRowsInv /\ ThreadsInv /\ watchRows \subseteq Nat

LEMMA EventsPageStep ==
  ASSUME MonitorInv, EventsPage
  PROVE  MonitorInv'
  <1>1. PICK e \in ShownEvents : \/ MoveEventToRecycle(e)
                                 \/ \E a \in AlertsOfCard(e) : SetStatus({a}, "acknowledged")
    BY DEF EventsPage
  <1>2. CASE MoveEventToRecycle(e)
    <2>1. UNCHANGED <<documents, sources, enabled, runs, thread, overlapped, interrupted, watchRows>>
      BY <1>2 DEF MoveEventToRecycle, BinUnchanged
    <2>2. TableRowsInv'
      BY <1>2, MoveEventStep DEF MonitorInv
    <2> QED
      BY <2>1, <2>2, ThreadsStay DEF MonitorInv
  <1>3. ASSUME NEW a \in AlertsOfCard(e), SetStatus({a}, "acknowledged")
        PROVE  MonitorInv'
    <2>1. UNCHANGED <<documents, sources, enabled, runs, thread, overlapped, interrupted, watchRows>>
      BY <1>3 DEF SetStatus, BinUnchanged
    <2>2. {a} \in SUBSET alerts
      BY DEF AlertsOfCard, ShownAlerts
    <2>3. TableRowsInv'
      BY <1>3, <2>2, SetStatusStep DEF MonitorInv
    <2> QED
      BY <2>1, <2>3, ThreadsStay DEF MonitorInv
  <1> QED
    BY <1>1, <1>2, <1>3

LEMMA AlertsPageStep ==
  ASSUME MonitorInv, AlertsPage
  PROVE  MonitorInv'
  <1>1. ASSUME NEW some \in SUBSET alerts, NEW status \in {"acknowledged", "ignored"}, SetStatus(some, status)
        PROVE  MonitorInv'
    <2>1. UNCHANGED <<documents, sources, enabled, runs, thread, overlapped, interrupted, watchRows>>
      BY <1>1 DEF SetStatus, BinUnchanged
    <2>2. TableRowsInv'
      BY <1>1, SetStatusStep DEF MonitorInv
    <2> QED
      BY <2>1, <2>2, ThreadsStay DEF MonitorInv
  <1>2. ASSUME NEW a \in ShownAlerts, MoveAlertToRecycle(a)
        PROVE  MonitorInv'
    <2>1. UNCHANGED <<documents, sources, enabled, runs, thread, overlapped, interrupted, watchRows>>
      BY <1>2 DEF MoveAlertToRecycle, BinUnchanged
    <2>2. TableRowsInv'
      BY <1>2, MoveAlertStep DEF MonitorInv
    <2> QED
      BY <2>1, <2>2, ThreadsStay DEF MonitorInv
  <1>3. \A filter : AlertCards(filter) \in SUBSET alerts /\ AlertCards(filter) \in SUBSET ShownAlerts
    BY DEF AlertCards, ShownAlerts
  <1>4. ASSUME NEW filter, NEW a \in AlertCards(filter),
               \/ SetStatus({a}, "acknowledged")
               \/ SetStatus({a}, "ignored")
               \/ MoveAlertToRecycle(a)
        PROVE  MonitorInv'
    <2>1. {a} \in SUBSET alerts /\ a \in ShownAlerts
      BY <1>3
    <2> QED
      BY <1>1, <1>2, <1>4, <2>1
  <1>5. CASE SetStatus(AlertCards("unread"), "acknowledged")
    BY <1>1, <1>3, <1>5
  <1> QED
    BY <1>4, <1>5 DEF AlertsPage

LEMMA RecycleBinPageStep ==
  ASSUME MonitorInv, RecycleBinPage
  PROVE  MonitorInv'
  <1>1. PICK i \in bin : RestoreItem(i) \/ PermanentlyDelete(i)
    BY DEF RecycleBinPage, ShownItems
  <1>2. i.entity \in Nat /\ watchRows \subseteq Nat
    BY DEF MonitorInv, TableRowsInv, TablesInv, BinRows
  <1>3. CASE RestoreItem(i)
    <2>1. /\ UNCHANGED <<documents, sources, enabled, runs, thread, overlapped, interrupted>>
          /\ watchRows' = watchRows \/ watchRows' = watchRows \cup {i.entity}
      BY <1>3 DEF RestoreItem, BinUnchanged
    <2>2. TableRowsInv'
      BY <1>3, RestoreStep DEF MonitorInv
    <2> QED
      BY <1>2, <2>1, <2>2, ThreadsStay DEF MonitorInv
  <1>4. CASE PermanentlyDelete(i)
    <2>1. /\ UNCHANGED <<documents, sources, enabled, runs, thread, overlapped, interrupted>>
          /\ watchRows' = IF i.type = "watchlist_company" THEN watchRows \ {i.entity} ELSE watchRows
      BY <1>4 DEF PermanentlyDelete, BinUnchanged
    <2>2. TableRowsInv'
      BY <1>4, PermanentlyDeleteStep DEF MonitorInv
    <2> QED
      BY <1>2, <2>1, <2>2, ThreadsStay DEF MonitorInv
  <1> QED
    BY <1>1, <1>3, <1>4

LEMMA CompaniesPageStep ==
  ASSUME MonitorInv, CompaniesPage \/ CompanyDialog
  PROVE  MonitorInv'
  <1>1. ASSUME NEW c \in companies, MoveCompanyToRecycle(c)
        PROVE  MonitorInv'
    <2>1. /\ UNCHANGED <<documents, sources, enabled, runs, thread, overlapped, interrupted>>
          /\ watchRows' = watchRows \ {c.id}
      BY <1>1 DEF MoveCompanyToRecycle, BinUnchanged
    <2>2. TableRowsInv'
      BY <1>1, MoveCompanyStep DEF MonitorInv
    <2> QED
      BY <2>1, <2>2, ThreadsStay DEF MonitorInv
  <1>2. ASSUME NEW c \in companies, PermanentlyDeleteCompany(c)
        PROVE  MonitorInv'
    <2>1. /\ UNCHANGED <<documents, sources, enabled, runs, thread, overlapped, interrupted>>
          /\ watchRows' = watchRows \ {c.id}
      BY <1>2 DEF PermanentlyDeleteCompany, BinUnchanged
    <2>2. TableRowsInv'
      BY <1>2, DeleteCompanyStep DEF MonitorInv
    <2> QED
      BY <2>1, <2>2, ThreadsStay DEF MonitorInv
  <1> QED
    BY <1>1, <1>2 DEF CompaniesPage, CompanyDialog, CompanyCards

LEMMA DashboardPageStep ==
  ASSUME MonitorInv, NEW who \in {"k1", "k2"}, AddToWatchlist(who)
  PROVE  MonitorInv'
  <1> DEFINE found == {c \in companies : c.who = who}
             row == IF found # {} THEN CHOOSE c \in found : TRUE ELSE [id |-> NextId(companies), who |-> who]
  <1>1. /\ UNCHANGED <<documents, sources, enabled, runs, thread, overlapped, interrupted>>
        /\ companies' = companies \cup {row} /\ watchRows' = watchRows \cup {row.id}
    BY DEF AddToWatchlist, BinUnchanged
  <1> HIDE DEF row
  <1>2. TableRowsInv'
    BY AddToWatchlistStep DEF MonitorInv
  <1>3. row.id \in Nat
    BY <1>1, <1>2 DEF TableRowsInv, TablesInv, CompanyRows
  <1> QED
    BY <1>1, <1>2, <1>3, ThreadsStay DEF MonitorInv

LEMMA IngestionStep ==
  ASSUME MonitorInv, Ingestion
  PROVE  MonitorInv'
  <1>0. TableRowsInv /\ ThreadsInv /\ watchRows \subseteq Nat
    BY DEF MonitorInv
  <1>1. ASSUME NEW t \in MonitorThreads, NEW some \in SUBSET sources, Ingests(t, some)
        PROVE  MonitorInv'
    <2>1. UNCHANGED <<companies, documents, events, alerts, bin, purged, reused, watchRows>>
      BY <1>1 DEF Ingests, RowsUnchanged
    <2> QED
      BY <1>0, <1>1, <2>1, IngestsStep, RowsStay DEF MonitorInv
  <1>2. ASSUME NEW t \in MonitorThreads, CreateRun(t)
        PROVE  MonitorInv'
    <2>1. UNCHANGED <<companies, documents, events, alerts, bin, purged, reused, watchRows>>
      BY <1>2 DEF CreateRun, RowsUnchanged
    <2> QED
      BY <1>0, <1>2, <2>1, CreateRunStep, RowsStay DEF MonitorInv
  <1>3. ASSUME NEW t \in MonitorThreads, FetchDocuments(t)
        PROVE  MonitorInv'
    <2>1. UNCHANGED <<companies, documents, events, alerts, bin, purged, reused, watchRows>>
      BY <1>3 DEF FetchDocuments, RowsUnchanged
    <2> QED
      BY <1>0, <1>3, <2>1, FetchDocumentsStep, RowsStay DEF MonitorInv
  <1>4. ASSUME NEW t \in MonitorThreads, StoreDocuments(t)
        PROVE  MonitorInv'
    <2>1. watchRows' = watchRows
      BY <1>4 DEF StoreDocuments, RowsUnchanged
    <2> QED
      BY <1>0, <1>4, <2>1, StoreDocumentsStep DEF MonitorInv
  <1>5. ASSUME NEW t \in MonitorThreads, NoteFailure(t)
        PROVE  MonitorInv'
    <2>1. UNCHANGED <<companies, documents, events, alerts, bin, purged, reused, watchRows>>
      BY <1>5 DEF NoteFailure, RowsUnchanged
    <2> QED
      BY <1>0, <1>5, <2>1, NoteFailureStep, RowsStay DEF MonitorInv
  <1>6. enabled \in SUBSET sources /\ \A s \in sources \ enabled : {s} \in SUBSET sources
    BY <1>0 DEF ThreadsInv, ThreadsBelong
  <1> QED
    BY <1>1, <1>2, <1>3, <1>4, <1>5, <1>6 DEF Ingestion, RunAllEnabledSources, RunSelected

LEMMA MonitorStep == MonitorInv /\ [MonitorNext]_monitorVars => MonitorInv'
  <1> SUFFICES ASSUME MonitorInv, [MonitorNext]_monitorVars
               PROVE  MonitorInv'
    OBVIOUS
  <1>0. TableRowsInv /\ ThreadsInv /\ watchRows \subseteq Nat
    BY DEF MonitorInv
  <1>1. ASSUME NEW d \in documents, ExtractEvents(d)
        PROVE  MonitorInv'
    <2>1. UNCHANGED <<documents, sources, enabled, runs, thread, overlapped, interrupted, watchRows>>
      BY <1>1 DEF ExtractEvents, BinUnchanged
    <2> QED
      BY <1>0, <1>1, <2>1, ExtractEventsStep, ThreadsStay DEF MonitorInv
  <1>2. ASSUME NEW s \in sources, DeleteSource(s) \/ ToggleSource(s)
        PROVE  MonitorInv'
    <2>1. UNCHANGED <<companies, documents, events, alerts, bin, purged, reused, watchRows>>
      BY <1>2 DEF DeleteSource, ToggleSource, BinUnchanged
    <2> QED
      BY <1>0, <1>2, <2>1, SourcesPageThreads, RowsStay DEF MonitorInv
  <1>3. CASE MonitorEnds
    <2>1. UNCHANGED <<companies, documents, events, alerts, bin, purged, reused, watchRows>>
      BY <1>3 DEF MonitorEnds, tableVars
    <2> QED
      BY <1>0, <1>3, <2>1, MonitorEndsStep, RowsStay DEF MonitorInv
  <1>4. CASE UNCHANGED monitorVars
    <2>1. UNCHANGED <<companies, documents, events, alerts, bin, purged, reused, watchRows,
                      sources, enabled, runs, thread, overlapped, interrupted>>
      BY <1>4 DEF monitorVars, tableVars
    <2> QED
      BY <1>0, <2>1, ThreadsStay, RowsStay DEF MonitorInv
  <1> QED
    BY <1>1, <1>2, <1>3, <1>4, EventsPageStep, AlertsPageStep, RecycleBinPageStep, CompaniesPageStep,
       DashboardPageStep, IngestionStep DEF MonitorNext, DashboardPage, DocumentsPage, SourcesPage

(* Rows refer to rows, ids tell them apart but for those of events, and    *)
(* each ingestion stands where its run does.                               *)
THEOREM MonitorInvariant == MonitorSpec => []MonitorInv
  <1>1. MonitorInit => MonitorInv
    <2>1. MonitorInit => watchRows \subseteq Nat
      BY DEF MonitorInit
    <2> QED
      BY <2>1, InitTableRows, InitThreads DEF MonitorInv
  <1> QED
    BY <1>1, MonitorStep, PTL DEF MonitorSpec

(* What the pages delete can be had back from the recycle bin: every       *)
(* hidden row is one that an item there restores, and while no id is given *)
(* twice a shown alert has a shown event.                                  *)
THEOREM DeletedStaysRecoverable == MonitorSpec => []DeletedIsRecoverable
  <1>1. MonitorInv => DeletedIsRecoverable
    BY DEF MonitorInv, TableRowsInv, HiddenEventsKept, HiddenAlertsKept, ShownTogether, DeletedIsRecoverable
  <1> QED
    BY <1>1, MonitorInvariant, PTL

(* A content is stored once unless ingestions overlapped, a stored         *)
(* document has its events, and only an end of the process or the deletion *)
(* of a source leaves a run as running.                                    *)
THEOREM IngestionStaysAccounted == MonitorSpec => []IngestionIsAccounted
  <1>1. MonitorInv => IngestionIsAccounted
    BY DEF MonitorInv, TableRowsInv, ThreadsInv, DocumentsAccounted, StoresUnknown, RunsAwaited, IngestionIsAccounted
  <1> QED
    BY <1>1, MonitorInvariant, PTL

(* The tables hold rows of their kind and the ingestions states of theirs. *)
THEOREM MonitorTypes == MonitorSpec => []MonitorTypeOK
  <1>1. MonitorInv => MonitorTypeOK
    BY DEF MonitorInv, TableRowsInv, TablesInv, ThreadsInv, ThreadsBelong, ThreadStates, MonitorTypeOK
  <1> QED
    BY <1>1, MonitorInvariant, PTL
=============================================================================
